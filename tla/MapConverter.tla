---------------------------- MODULE MapConverter ----------------------------
(***************************************************************************)
(* MapConverterTab and MapConverter: the map in the input field, of MTA DM *)
(* or MTA Race, becomes a script of SA-MP.  The elements of a map and the  *)
(* lines of the script are records; coordinates are left out.  The DM      *)
(* branch of MtaToSamp, the pickups, the markers and the peds cannot be    *)
(* read: they are external.                                                *)
(***************************************************************************)
EXTENDS Integers, FiniteSets, SequencesExt, Selections

CONSTANTS
  Maps,       \* what the user pastes: [kind, elements]
  Palette,    \* paletteColorTable8, a sequence of <<r, g, b>>
  Noise,      \* the colours utils::random_mt, or memory behind a vector, may hold
  Boxes,      \* the boxes the user may check, of Flags
  MaxClicks   \* bound

(* The name of an element is what tells it from the others. *)
ASSUME MapAssumption ==
  \A map \in Maps :
    /\ map.elements \in Seq(ToSet(map.elements))
    /\ \A i, j \in DOMAIN map.elements : map.elements[i].name = map.elements[j].name => i = j

VARIABLES
  input, flags,     \* m_Input, and the boxes that are checked
  output,           \* m_Output, a sequence of lines
  source, chosen,   \* history: the map and the flags the output is of
  clicks

convVars == <<input, flags, output, source, chosen, clicks>>

Flags == {"ONLY_CREATE_VEHICLE", "VEHICLE_COMPONENTS_INLINE", "SAVE_NUMBER_PLATE",
          "HIDE_WHEN_ALPHA_NOT_255", "CONVERT_ELEMENT_NAME"}

EmptyMap == [kind |-> "broken", elements |-> <<>>]

ConvInit ==
  /\ input \in Maps /\ flags = {} /\ output = <<>> /\ source = EmptyMap /\ chosen = {} /\ clicks = 0

-----------------------------------------------------------------------------
ItemType == <<"OBJECT", "REMOVE_OBJECT", "VEHICLE", "MARKER", "PICKUP", "PED">>

DmType ==
  [object |-> "OBJECT", removeWorldObject |-> "REMOVE_OBJECT", vehicle |-> "VEHICLE",
   marker |-> "MARKER", pickup |-> "PICKUP", ped |-> "PED"]

RaceType ==
  [spawnpoint |-> "VEHICLE", object |-> "OBJECT", pickup |-> "PICKUP", checkpoint |-> "MARKER"]

TypesOf(kind) == IF kind = "race" THEN RaceType ELSE DmType

Supported(map) == {i \in DOMAIN map.elements : map.elements[i].tag \in DOMAIN TypesOf(map.kind)}
OfType(map, type) == {i \in Supported(map) : TypesOf(map.kind)[map.elements[i].tag] = type}

-----------------------------------------------------------------------------
Square(n) == n * n
Distance(i, rgb) ==
  Square(Palette[i][1] - rgb[1]) + Square(Palette[i][2] - rgb[2]) + Square(Palette[i][3] - rgb[3])

(* The first of the nearest *)
GetPaletteIndexFromRGB(rgb) ==
  CHOOSE i \in DOMAIN Palette :
    \A j \in DOMAIN Palette :
      IF j < i THEN Distance(i, rgb) < Distance(j, rgb) ELSE Distance(i, rgb) <= Distance(j, rgb)

(* The recovery steps i up and what it is compared with down: they meet, or nothing ends it. *)
RecoveryEnds(parsed) == parsed <= 12 /\ parsed % 2 = 0

Randoms(n) == [1 .. n -> Noise]

(* An attribute of colours is "-1", or numbers with a bad one behind them, or numbers.  Of
   twelve colours the first six are looked at. *)
Colors(e) ==
  CASE e.colors = "-1" -> Randoms(6)
    [] e.colors # "-1" /\ e.bad -> { e.numbers \o r : r \in Randoms((12 - Len(e.numbers)) \div 2) }
    [] OTHER -> {e.numbers}

ColorsOfRgb(colors) ==
  { <<GetPaletteIndexFromRGB(SubSeq(colors, 1, 3)), GetPaletteIndexFromRGB(SubSeq(colors, 4, 5) \o <<b>>)>> :
      b \in IF Len(colors) = 5 THEN Noise ELSE {colors[6]} }

ColorPairs(colors) ==
  CASE Len(colors) > 4       -> ColorsOfRgb(colors)
    [] Len(colors) \in 2 .. 4 -> {<<colors[1], colors[2]>>}
    [] OTHER                 -> {<<-1, -1>>}

-----------------------------------------------------------------------------
If(condition, line) == IF condition THEN <<line>> ELSE <<>>

Line(cmd, e) ==
  [cmd |-> cmd, of |-> e.name, comment |-> "CONVERT_ELEMENT_NAME" \in flags, colors |-> <<>>]

(* The constructor for Race leaves alpha at 0. *)
Alpha(e) == IF input.kind = "race" THEN 0 ELSE e.alpha

ObjectLines(e) ==
  {<< Line(IF "HIDE_WHEN_ALPHA_NOT_255" \in flags /\ Alpha(e) # 255
           THEN "SetDynamicObjectMaterial" ELSE "CreateDynamicObject", e) >>}

RemoveLines(e) ==
  {<<Line("RemoveBuildingForPlayer", e)>> \o If(e.lod_model # 0, Line("RemoveBuildingForPlayer", e))}

NoSpecialization_Bug(e) ==
  \/ "ONLY_CREATE_VEHICLE" \in flags
  \/ e.world = 0 /\ e.paintjob >= 4 /\ e.upgrades = <<>>

NoSpecialization(e) ==
  \/ "ONLY_CREATE_VEHICLE" \in flags
  \/ e.interior = 0 /\ e.world = 0 /\ e.paintjob >= 4 /\ e.upgrades = <<>>

Special(e) ==
  If("SAVE_NUMBER_PLATE" \in flags /\ e.plate # "", Line("SetVehicleNumberPlate", e))
    \o If(e.interior # 0, Line("LinkVehicleToInterior", e))
    \o If(e.world # 0, Line("SetVehicleVirtualWorld", e))
    \o If(e.paintjob < 3, Line("ChangeVehiclePaintjob", e))

VehicleLines(e) ==
  { IF NoSpecialization(e) THEN <<[Line("CreateVehicle", e) EXCEPT !.colors = pair]>>
    ELSE <<[Line("tempvehid=CreateVehicle", e) EXCEPT !.colors = pair]>> \o Special(e) :
      pair \in UNION { ColorPairs(c) : c \in IF input.kind = "race" THEN {<<>>} ELSE Colors(e) } }

ConvertToSampFormat(e) ==
  CASE TypesOf(input.kind)[e.tag] = "OBJECT"        -> ObjectLines(e)
    [] TypesOf(input.kind)[e.tag] = "REMOVE_OBJECT" -> RemoveLines(e)
    [] TypesOf(input.kind)[e.tag] = "VEHICLE"       -> VehicleLines(e)
    [] OTHER                                        -> {<<Line("Create", e)>>}

(* The items of a map in the order of the script *)
Items(map) ==
  LET upto[t \in 0 .. Len(ItemType)] ==
        IF t = 0 THEN <<>> ELSE upto[t - 1] \o ElementsAt(map.elements, OfType(map, ItemType[t]))
  IN  upto[Len(ItemType)]

Continued(texts, ways) == UNION {{text \o lines : lines \in ways} : text \in texts}

Scripts(items) ==
  LET upto[k \in 0 .. Len(items)] ==
        IF k = 0 THEN {<<>>} ELSE Continued(upto[k - 1], ConvertToSampFormat(items[k]))
  IN  upto[Len(items)]

(* An exception leaves out empty: an element that cannot be read, or colours that fill the memory. *)
Throws(map) ==
  \/ map.kind = "broken"
  \/ \E i \in Supported(map) :
       LET e == map.elements[i]
       IN  \/ ~e.readable
           \/ e.tag = "vehicle" /\ e.colors # "-1" /\ e.bad /\ ~RecoveryEnds(Len(e.numbers))

MtaToSamp == IF Throws(input) THEN {<<>>} ELSE Scripts(Items(input))

-----------------------------------------------------------------------------
EditInput ==
  /\ input' \in Maps
  /\ UNCHANGED <<flags, output, source, chosen, clicks>>

CheckBox ==
  /\ \E flag \in Boxes \cap Flags : flags' = IF flag \in flags THEN flags \ {flag} ELSE flags \cup {flag}
  /\ UNCHANGED <<input, output, source, chosen, clicks>>

(* The text of a conversion that fails, or has nothing to convert, is not shown. *)
ClickConvert ==
  /\ clicks < MaxClicks /\ clicks' = clicks + 1
  /\ \E out \in MtaToSamp :
       IF out # <<>> THEN output' = out /\ source' = input /\ chosen' = flags
                     ELSE UNCHANGED <<output, source, chosen>>
  /\ UNCHANGED <<input, flags>>

ConvNext == EditInput \/ CheckBox \/ ClickConvert
ConvSpec == ConvInit /\ [][ConvNext]_convVars
-----------------------------------------------------------------------------
LinesOf(name, cmds) == { k \in DOMAIN output : output[k].of = name /\ output[k].cmd \in cmds }

Makes == {"CreateDynamicObject", "SetDynamicObjectMaterial", "CreateVehicle", "Create",
          "tempvehid=CreateVehicle"}
Links == {"SetVehicleNumberPlate", "LinkVehicleToInterior", "SetVehicleVirtualWorld",
          "ChangeVehiclePaintjob"}

(* The script makes every item of its map once, puts each vehicle where the map has it, and no
   line about tempvehid is about another vehicle than the last one assigned to it; a failed
   conversion leaves the script before it whole (MapConverter.cpp:175, 238, 266). *)
ScriptIsOfTheMap ==
  LET created == {source.elements[i] : i \in Supported(source)}
  IN  /\ \A e \in created :
           IF TypesOf(source.kind)[e.tag] = "REMOVE_OBJECT"
           THEN Cardinality(LinesOf(e.name, {"RemoveBuildingForPlayer"})) = (IF e.lod_model = 0 THEN 1 ELSE 2)
           ELSE Cardinality(LinesOf(e.name, Makes)) = 1
      /\ \A e \in created :
           TypesOf(source.kind)[e.tag] = "VEHICLE" /\ "ONLY_CREATE_VEHICLE" \notin chosen =>
             /\ (e.interior # 0) = (LinesOf(e.name, {"LinkVehicleToInterior"}) # {})
             /\ (e.world # 0) = (LinesOf(e.name, {"SetVehicleVirtualWorld"}) # {})
      /\ \A k \in DOMAIN output : output[k].cmd \in Links =>
           \E j \in 1 .. k - 1 :
             /\ output[j].cmd = "tempvehid=CreateVehicle" /\ output[j].of = output[k].of
             /\ \A i \in j + 1 .. k - 1 : output[i].cmd # "tempvehid=CreateVehicle"
=============================================================================
