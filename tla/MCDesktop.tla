----------------------------- MODULE MCDesktop -----------------------------
(***************************************************************************)
(* The desktop services of the program, one at a time, as MCCanTools does  *)
(* for the tools around the CAN bus.                                       *)
(***************************************************************************)
EXTENDS Integers, Sequences,
        DirectoryBackup, KeyInput, LogFile, Coins, AntiLock, Sha256, Lifecycle,
        Screenshot, Settings, MapConverter

CONSTANT Services

VARIABLE service

-----------------------------------------------------------------------------
(* What the constants of the services stand for *)
Docs        == <<"docs">>
DocsIsDocs  == {<<"docs", "docs">>}
KindsOfFile == <<"file", "directory", "symlink", "ignored", "file">>

Message(words, level, parsed) ==
  [file |-> "main.cpp", words |-> words, level |-> level, parsed |-> parsed]
FourMessages ==
  << Message({"a"}, 1, TRUE), Message({}, 2, TRUE), Message({"a"}, 2, FALSE),
     [file |-> "noisy.cpp", words |-> {"a"}, level |-> 1, parsed |-> TRUE] >>
Searched == {NoFilter, "a"}
Levels   == {All, 1}

TwoLists == {<<>>, <<"b", "a">>}

InitOrderOfProgram ==
  <<"can_entry", "did_handler", "Settings", "SerialPort", "CanSerialPort", "Server",
    "Sensors", "SerialForwarder", "CorsairHid">>
DestroyOrderOfProgram ==
  <<"CanSerialPort", "did_handler", "can_entry", "Settings", "CustomMacro", "Server",
    "Sensors", "DatabaseLogic", "DatabaseLogic", "SerialForwarder", "SerialPort",
    "CorsairHid", "Logger">>
UsesOfThreads ==
  {<<"can_entry", "CanSerialPort">>, <<"CanSerialPort", "can_entry">>,
   <<"did_handler", "can_entry">>, <<"Server", "Sensors">>, <<"Server", "Settings">>,
   <<"SerialPort", "SerialForwarder">>, <<"SerialPort", "CustomMacro">>,
   <<"SerialForwarder", "SerialPort">>, <<"CorsairHid", "CustomMacro">>}
     \cup {<<t, "Logger">> : t \in Threaded}

-----------------------------------------------------------------------------
Picture(size, width, height, bits, masks, colours, used) ==
  [size |-> size, width |-> width, height |-> height, bits |-> bits, masks |-> masks,
   compression |-> CASE masks = <<>> -> "rgb" [] Len(masks) = 3 -> "bitfields"
                     [] OTHER -> "alphabitfields",
   colours |-> colours, used |-> used]

(* Of each kind of header, upside down, too wide, too high, a negative short as height (with 31
   rows the size wraps into reach), out of reach behind 8 colours, and in other colours *)
BGR == SubSeq(BGRA, 1, 3)
RGB == SubSeq(RGBA, 1, 3)
ARGB == <<"alpha", "red", "green", "blue">>
OnClipboard ==
  { Picture(4, w, 2, b, <<>>, 0, 0) : w \in 1 .. 4, b \in {24, 32} } \cup
  { Picture(4, w, 1, 32, <<>>, 0, 0) : w \in {32, 33} } \cup
  { Picture(4, 1, h, 32, <<>>, 0, 0) : h \in {-3, 17, 31, 33} } \cup
  { Picture(4, 3, 2, 32, m, 0, 0) : m \in {BGR, BGRA, RGB} } \cup
  { Picture(8, 3, 1, 32, m, 0, 0) : m \in {BGR, ARGB} } \cup
  { Picture(4, 2, 3, 24, <<>>, n, n) : n \in {5, 8} } \cup
  { Picture(4, 2, 2, 8, <<>>, 3, 3), Picture(4, 2, 2, 4, <<>>, 16, 0) }

-----------------------------------------------------------------------------
Element ==
  [tag |-> "", name |-> "", readable |-> TRUE, alpha |-> 255, lod_model |-> 0, interior |-> 0,
   world |-> 0, plate |-> "", paintjob |-> 4, upgrades |-> <<>>, colors |-> "", bad |-> FALSE,
   numbers |-> <<>>]
Vehicle(name, numbers) == [Element EXCEPT !.tag = "vehicle", !.name = name, !.numbers = numbers]

DmMap == [kind |-> "dm", elements |-> <<
  [Vehicle("v1", <<0, 0, 9, 9, 9>>) EXCEPT !.interior = 1, !.plate = "p"],
  [Element EXCEPT !.tag = "object", !.name = "o1", !.alpha = 0],
  [Vehicle("v2", <<3, 4>>) EXCEPT !.world = 2, !.paintjob = 1],
  [Element EXCEPT !.tag = "removeWorldObject", !.name = "r1", !.lod_model = 3],
  [Element EXCEPT !.tag = "removeWorldObject", !.name = "r2"],
  [Element EXCEPT !.tag = "water", !.name = "w1"],
  [Vehicle("v3", <<1>>) EXCEPT !.plate = "p"] >>]

ColorMap(numbers, bad) == [kind |-> "dm", elements |-> <<
  [Element EXCEPT !.tag = "ped", !.name = "p1"],
  [Vehicle("v1", numbers) EXCEPT !.bad = bad, !.interior = 1],
  [Vehicle("v2", <<>>) EXCEPT !.colors = "-1", !.paintjob = 3] >>]

RaceMap == [kind |-> "race", elements |-> <<
  [Element EXCEPT !.tag = "spawnpoint", !.name = "s1", !.paintjob = 0],
  [Element EXCEPT !.tag = "object", !.name = "o1"],
  [Element EXCEPT !.tag = "checkpoint", !.name = "c1"],
  [Element EXCEPT !.tag = "start", !.name = "x1"] >>]

MapsToConvert ==
  {DmMap, ColorMap(<<9, 9, 9, 0, 0, 9>>, FALSE), ColorMap(<<9, 0>>, TRUE), ColorMap(<<9>>, TRUE),
   RaceMap, [RaceMap EXCEPT !.elements[2].readable = FALSE], EmptyMap}
FourColors == << <<0, 0, 0>>, <<9, 9, 9>>, <<9, 0, 0>>, <<0, 9, 9>> >>

-----------------------------------------------------------------------------
Profile(app_name, key, macro) == [app_name |-> app_name, key_vec |-> [k \in {key} |-> macro]]

FewProfiles  == {Profile("", "1", "a"), Profile("No", "1", "b"), Profile("Note", "2", "c")}
NamesInTitle == {<<"Notepad - a", "">>, <<"Word", "">>, <<"Notepad - a", "No">>,
                 <<"Notepad - a", "Note">>, <<"Notepad - a", "Notepad">>}
ThreePages   == <<"Main", "Did", "Log">>
EachInItself == {<<p, p>> : p \in {"Main", "Did", "Log"}}

-----------------------------------------------------------------------------
vars == <<service, backupVars, keyVars, logVars, coinVars, shotVars, antiLockVars, shaVars, lifeVars,
          convVars, setVars>>

Only(name, others) == service = name /\ UNCHANGED <<service, others>>

(* The other services are in one of their initial states. *)
Init ==
  /\ service \in Services
  /\ BackupInit /\ KeyInit /\ LogInit /\ CoinInit /\ ShotInit /\ AntiLockInit /\ ShaInit
  /\ LifeInit /\ ConvInit /\ SettingsInit
  /\ service # "keys" => ~forward_serial_to_tcp
  /\ service # "coins" => crypto_price_update = 0
  /\ service # "screenshot" => clipboard = NoPicture
  /\ service # "map" => input = RaceMap
  /\ service # "antilock" => wanted = <<>> /\ foreground = "a"

Next ==
  \/ Only("backup", <<keyVars, logVars, coinVars, shotVars, antiLockVars, shaVars,
           lifeVars, convVars, setVars>>)
       /\ BackupNext
  \/ Only("keys", <<backupVars, logVars, coinVars, shotVars, antiLockVars, shaVars,
           lifeVars, convVars, setVars>>)
       /\ KeyNext
  \/ Only("log", <<backupVars, keyVars, coinVars, shotVars, antiLockVars, shaVars,
           lifeVars, convVars, setVars>>)
       /\ LogNext
  \/ Only("coins", <<backupVars, keyVars, logVars, shotVars, antiLockVars, shaVars,
           lifeVars, convVars, setVars>>)
       /\ CoinNext
  \/ Only("screenshot", <<backupVars, keyVars, logVars, coinVars, antiLockVars, shaVars,
           lifeVars, convVars, setVars>>)
       /\ ShotNext
  \/ Only("antilock", <<backupVars, keyVars, logVars, coinVars, shotVars, shaVars,
           lifeVars, convVars, setVars>>)
       /\ AntiLockNext
  \/ Only("sha", <<backupVars, keyVars, logVars, coinVars, shotVars, antiLockVars,
           lifeVars, convVars, setVars>>)
       /\ ShaNext
  \/ Only("lifecycle", <<backupVars, keyVars, logVars, coinVars, shotVars, antiLockVars,
           shaVars, convVars, setVars>>)
       /\ LifeNext
  \/ Only("map", <<backupVars, keyVars, logVars, coinVars, shotVars, antiLockVars,
           shaVars, lifeVars, setVars>>)
       /\ ConvNext
  \/ Only("settings", <<backupVars, keyVars, logVars, coinVars, shotVars, antiLockVars,
           shaVars, lifeVars, convVars>>)
       /\ SettingsNext

Spec == Init /\ [][Next]_vars
=============================================================================
