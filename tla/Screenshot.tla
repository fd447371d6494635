---------------------------- MODULE Screenshot ----------------------------
(***************************************************************************)
(* PrintScreenSaver: a std::async takes the picture from the clipboard,    *)
(* decodes it and saves it as PNG.  Other programs may put another picture *)
(* there once the clipboard is closed, which is before the copy.           *)
(*                                                                         *)
(* A picture is its header and what follows it; its pixels are distinct by *)
(* their places: the byte of a colour (or of alpha) in column x of row y   *)
(* from above is <<x, y, colour>>.  The ranges of the numbers in a header  *)
(* are scaled down; lodepng is external.                                   *)
(***************************************************************************)
EXTENDS Integers, Sequences

CONSTANTS
  Pictures,   \* what the clipboard may hold
  NoPicture,
  UintRange, ShortRange,    \* unsigned and unsigned short are modulo these numbers
  FileHeader, InfoHeader,   \* sizeof(BITMAPFILEHEADER), sizeof(BITMAPINFOHEADER)
  MaxScreenshots, MaxTakeovers   \* bounds

VARIABLES clipboard, screenshot_future, handle, saved, screenshots, takeovers

shotVars == <<clipboard, screenshot_future, handle, saved, screenshots, takeovers>>

ShotInit ==
  /\ clipboard \in Pictures \cup {NoPicture}
  /\ screenshot_future = "none" /\ handle = <<>> /\ saved = <<>>
  /\ screenshots = 0 /\ takeovers = 0

-----------------------------------------------------------------------------
(* A device independent bitmap: the header, the masks unless a long header holds them, the colours,
   then the rows from the bottom (from the top if the height is negative), each filled up to four
   bytes.  A picture without masks has its colours in this order, one with masks in theirs. *)
BGRA       == <<"blue", "green", "red", "alpha">>
Order(p)   == [k \in 1 .. 4 |-> IF k <= Len(p.masks) THEN p.masks[k] ELSE BGRA[k]]
Rows(p)    == IF p.height < 0 THEN -p.height ELSE p.height
RowSize(p) == ((p.width * p.bits + 31) \div 32) * 4
Pixels(p)  == p.size + (IF p.size > InfoHeader THEN 0 ELSE Len(p.masks) * 4) + p.colours * 4
SizeOf(p)  == Pixels(p) + RowSize(p) * Rows(p)
Byte(p, i) ==
  LET row == (i - Pixels(p)) \div RowSize(p)
      at  == (i - Pixels(p)) % RowSize(p)
      x   == (at * 8) \div p.bits
  IN CASE i < Pixels(p) -> "header"
       [] i >= Pixels(p) /\ x >= p.width -> "padding"
       [] OTHER -> <<x, IF p.height < 0 THEN row ELSE p.height - 1 - row,
                     Order(p)[1 + (at % (p.bits \div 8))]>>

(* What the header of a picture says of what follows it.  Pictures are smaller than four
   gigabytes, before the decoding and after it. *)
ASSUME ShotAssumption ==
  /\ UintRange \in Nat \ {0} /\ FileHeader \in Nat /\ InfoHeader \in Nat
  /\ ShortRange \in 2 .. UintRange /\ ShortRange % 2 = 0
  /\ \A p \in Pictures :
       /\ p.width \in Nat \ {0} /\ p.height \in Int /\ p.size \in Nat /\ p.size >= InfoHeader
       /\ p.used \in Nat /\ p.colours \in Nat
       /\ p.masks \in Seq({"blue", "green", "red", "alpha"}) /\ Len(p.masks) \in {0, 3, 4}
       /\ p.compression = IF p.masks = <<>> THEN "rgb"
                          ELSE IF Len(p.masks) = 3 THEN "bitfields" ELSE "alphabitfields"
       /\ p.used # p.colours => p.used = 0 /\ p.bits <= 8 /\ p.colours = 2^p.bits
       /\ p.bits <= 8 => p.masks = <<>>
       /\ FileHeader + SizeOf(p) < UintRange /\ p.width * Rows(p) * 4 < UintRange

(* The picture as lodepng wants it: red, green, blue and alpha of each pixel, the rows from above *)
RGBA == <<"red", "green", "blue", "alpha">>
Upright(p) ==
  [i \in 0 .. p.width * Rows(p) * 4 - 1 |->
     IF i % 4 = 3 /\ p.bits = 24 THEN 255
     ELSE <<(i \div 4) % p.width, i \div (4 * p.width), RGBA[1 + (i % 4)]>>]

-----------------------------------------------------------------------------
MaskBytes(p) ==
  IF p.size # InfoHeader \/ p.bits <= 8 THEN 0
  ELSE CASE p.compression = "bitfields" -> 12 [] p.compression = "alphabitfields" -> 16 [] OTHER -> 0

GetPixelDataOffsetForPackedDIB(p) ==
  p.size + MaskBytes(p) + (IF p.used > 0 THEN p.used * 4 ELSE IF p.bits <= 8 THEN 4 * 2^p.bits ELSE 0)

ScanlineBytes_Bug(width, numChannels) == width * numChannels
ScanlineBytes(width, numChannels) ==
  IF (width * numChannels) % 4 # 0 THEN ((width * numChannels) \div 4) * 4 + 4 ELSE width * numChannels

Unsigned(n) == n % UintRange
SignedShort(n) ==
  IF n % ShortRange >= ShortRange \div 2 THEN (n % ShortRange) - ShortRange ELSE n % ShortRange
ErrorImage  == <<>>

(* The file is what DoSave has put together: its own header and the picture.  Two bytes each are
   read of the offset, the width and the height, and the masks are not looked at.  Where h is a
   negative short the loop leaves the picture and the image. *)
decodeBMP(p, offset, fileSize) ==
  LET pixeloffset == offset % ShortRange
      w           == p.width % ShortRange
      h           == Unsigned(SignedShort(p.height))
      numChannels == p.bits \div 8
      scanline    == ScanlineBytes(w, numChannels)
      bmp(i)      == Byte(p, i - FileHeader)
      bmpos(x, y) == pixeloffset + (h - y - 1) * scanline + numChannels * x
      rgba(x, y, c) ==
        IF c = 3 THEN IF numChannels = 3 THEN 255 ELSE bmp(bmpos(x, y) + 3)
        ELSE bmp(bmpos(x, y) + 2 - c)
  IN IF p.bits \notin {24, 32} \/ fileSize < Unsigned(scanline * h + pixeloffset)
     THEN ErrorImage
     ELSE [i \in 0 .. Unsigned(w * h * 4) - 1 |->
             IF SignedShort(p.height) < 0 THEN "undefined"
             ELSE rgba((i \div 4) % w, i \div (4 * w), i % 4)]

(* lodepng::encode gets the whole width and height and refuses an image that is too small for
   them, as every image is for a height that was negative; else it takes what it needs. *)
Encodes(image, p) == p.height > 0 /\ p.width * p.height * 4 - 1 \in DOMAIN image
Encoded(image, p) == [i \in 0 .. p.width * p.height * 4 - 1 |-> image[i]]

-----------------------------------------------------------------------------
ClipboardChanges ==
  /\ takeovers < MaxTakeovers
  /\ takeovers' = takeovers + 1
  /\ clipboard' \in Pictures \cup {NoPicture}
  /\ UNCHANGED <<screenshot_future, handle, saved, screenshots>>

(* The GUI waits for the screenshot before. *)
SaveScreenshot ==
  /\ screenshot_future \in {"none", "ready"} /\ screenshots < MaxScreenshots
  /\ screenshots' = screenshots + 1
  /\ screenshot_future' = "start" /\ saved' = <<>>
  /\ UNCHANGED <<clipboard, handle, takeovers>>

(* The clipboard is open for this step only, if no other program has it. *)
LookAtClipboard ==
  /\ screenshot_future = "start"
  /\ \/ screenshot_future' = "ready" /\ UNCHANGED handle
     \/ /\ clipboard # NoPicture
        /\ screenshot_future' = "copy"
        /\ handle' = [of     |-> clipboard,
                      offset |-> FileHeader + GetPixelDataOffsetForPackedDIB(clipboard),
                      size   |-> FileHeader + SizeOf(clipboard),
                      at     |-> takeovers]
  /\ UNCHANGED <<clipboard, saved, screenshots, takeovers>>

(* What the handle of a picture gives access to that has left the clipboard is undefined.  The
   file may fail to be written. *)
CopyAndSave ==
  /\ screenshot_future = "copy"
  /\ screenshot_future' = "ready"
  /\ LET image == decodeBMP(handle.of, handle.offset, handle.size)
         png(i) == <<[of |-> handle.of, image |-> i, kept |-> handle.at = takeovers]>>
     IN \/ saved' = <<>>
        \/ Encodes(image, handle.of) /\ saved' = png(Encoded(image, handle.of))
        \/ handle.at # takeovers /\ saved' = png(<<"undefined">>)
  /\ UNCHANGED <<clipboard, handle, screenshots, takeovers>>

ShotNext == ClipboardChanges \/ SaveScreenshot \/ LookAtClipboard \/ CopyAndSave
ShotSpec == ShotInit /\ [][ShotNext]_shotVars
-----------------------------------------------------------------------------
(* What decodeBMP takes for granted: the pixels begin within reach of two bytes (the header has no
   huge table of colours), the height is no negative short, and the masks are the usual ones. *)
TakenForGranted(p) ==
  /\ FileHeader + Pixels(p) < ShortRange
  /\ SignedShort(p.height) >= 0
  /\ Order(p) = BGRA

(* What is saved of a picture decodeBMP is made for is all of it, upright and each colour in its
   place, whatever its depth and kind of header; of a picture whose width or height two bytes do
   not hold nothing is saved, and never a part.  Unless the clipboard changed during the copy
   (PrintScreenSaver.cpp:49, 84, 165-176). *)
ScreenshotIsUpright ==
  \A i \in DOMAIN saved :
    saved[i].kept /\ TakenForGranted(saved[i].of) => saved[i].image = Upright(saved[i].of)
=============================================================================
