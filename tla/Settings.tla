------------------------------ MODULE Settings ------------------------------
(***************************************************************************)
(* Settings::SaveFile, the names of the used pages, and the profiles of    *)
(* macros: what a key executes while a window is in front, and what is     *)
(* left of it after the program was started again with the file it wrote.  *)
(* LoadFile and ExecuteGlobalMacro cannot be read: what SaveFile and       *)
(* ExecuteMacro rely on stands for them, and the user edits the file.      *)
(***************************************************************************)
EXTENDS Naturals, SequencesExt, Selections

CONSTANTS
  WindowTitles, NoTitle,  \* of the window in front
  MacroKeys,
  Profiles,               \* a profile: [app_name, key_vec], key_vec a function from some keys
  OccursIn,               \* pairs of a title and a name that occurs in it
  Short,                  \* names of two characters and less
  Pages,                  \* the fields of UsedPages in the order of ParseUsedPagesToString
  Occurs,                 \* pairs of a text of the file and a page name that occurs in it
  Names,                  \* of the other settings, with those below
  MaxProfiles, MaxRuns    \* bounds

VARIABLES
  macros, used_pages, setting,             \* CustomMacro and Settings
  ini,                                     \* settings.ini, or NoFile
  program,                                 \* "down", or "up"
  before, program_runs                     \* history: what LoadFile must bring back, and starts

setVars == <<macros, used_pages, setting, ini, program, before, program_runs>>

PerApp     == "UsePerApplicationMacros"
WindowSize == "LastWindowSize"   \* its line is commented out
Backups    == "Backups"          \* the loop that writes them is in #if 0

(* No name of a page is part of another's (Settings.cpp:204-235). *)
ASSUME SettingsAssumption ==
  /\ Pages \in Seq(ToSet(Pages))
  /\ \A p, q \in ToSet(Pages) : <<p, q>> \in Occurs <=> p = q
  /\ PerApp \in Names
  /\ \A p \in Profiles : p = [app_name |-> p.app_name, key_vec |-> p.key_vec]

Written == Names \ {WindowSize, Backups}   \* by SaveFile(false)
Default == [n \in Names |-> TRUE]

NoFile   == [sections |-> <<>>, pages |-> <<>>, setting |-> <<>>]
NoMacro  == "nothing"
NotSaved == [pages |-> {}, setting |-> <<>>, execute |-> <<>>]

SettingsInit ==
  /\ macros = <<>> /\ used_pages = {} /\ setting = Default
  /\ ini = NoFile /\ program = "down" /\ before = NotSaved /\ program_runs = 0

-----------------------------------------------------------------------------
(* ExecuteMacro, of the macros m *)
Executes(m, key) == IF key \in DOMAIN m.key_vec THEN m.key_vec[key] ELSE NoMacro

ExecuteGlobalMacro(m, key) == IF m = <<>> THEN NoMacro ELSE Executes(m[1], key)

IsFor(profile, title) == <<title, profile.app_name>> \in OccursIn /\ profile.app_name \notin Short

(* The first profile of the window, also when it does not have the key *)
ExecuteMacro(m, per_app, title, key) ==
  IF per_app /\ title # NoTitle /\ \E i \in DOMAIN m : IsFor(m[i], title)
  THEN Executes(SelectSeq(m, LAMBDA p : IsFor(p, title))[1], key)
  ELSE ExecuteGlobalMacro(m, key)

-----------------------------------------------------------------------------
ParseUsedPagesToString(pages) == ElementsAt(Pages, {i \in DOMAIN Pages : Pages[i] \in pages})

ParseUsedPagesFromString(text) ==
  { p \in ToSet(Pages) : \E i \in DOMAIN text : <<text[i], p>> \in Occurs }

(* The sections of the macros: the first profile has no AppName and is global, whatever its name. *)
Section(n, app_name, key_vec) == [macro |-> n, app_name |-> app_name, key_vec |-> key_vec]

Sections_Bug ==
  [i \in DOMAIN macros |-> Section(i, macros[i].app_name, macros[i].key_vec)]

Sections ==
  [i \in DOMAIN macros |->
     Section(i - 1, IF i = 1 THEN "" ELSE macros[i].app_name, macros[i].key_vec)]

Example == << Section(0, "", [k \in MacroKeys |-> "global_macro"]),
              Section(1, "Notepad", [k \in MacroKeys |-> "close_notepad"]) >>

File(sections, names) ==
  [sections |-> sections, pages |-> ParseUsedPagesToString(used_pages),
   setting |-> [n \in names |-> setting[n]]]

(* What the user gets: the pages, the settings that are written, and what the keys do *)
KeysDo(m, per_app) ==
  [title \in WindowTitles \cup {NoTitle}, key \in MacroKeys |-> ExecuteMacro(m, per_app, title, key)]
Behaves(m, pages, set) ==
  [pages |-> pages, setting |-> [n \in Written |-> set[n]], execute |-> KeysDo(m, set[PerApp])]
Behaviour == Behaves(macros, used_pages, setting)

(* LoadFile: [Keys_Global], then [Keys_Macro1] and on, while there are any *)
Numbered(sections) ==
  ElementsAt(sections, {k \in DOMAIN sections : \A n \in 0 .. sections[k].macro :
                                                 \E i \in DOMAIN sections : sections[i].macro = n})

Loaded(file) == [i \in DOMAIN Numbered(file.sections) |->
                   [app_name |-> Numbered(file.sections)[i].app_name,
                    key_vec |-> Numbered(file.sections)[i].key_vec]]

-----------------------------------------------------------------------------
Load(file) ==
  /\ macros' = Loaded(file) /\ used_pages' = ParseUsedPagesFromString(file.pages)
  /\ setting' = [n \in Names |-> IF n \in DOMAIN file.setting THEN file.setting[n] ELSE Default[n]]

(* Settings::Init; without a file an example is written. *)
Start ==
  /\ program = "down" /\ program_runs < MaxRuns
  /\ program' = "up" /\ program_runs' = program_runs + 1
  /\ ini' = IF ini = NoFile THEN File(Example, Written \cup {Backups}) ELSE ini
  /\ Load(ini')
  /\ UNCHANGED before

(* SaveFile(false) *)
SaveFile ==
  /\ program = "up"
  /\ ini' = File(Sections, Written)
  /\ before' = Behaviour
  /\ UNCHANGED <<macros, used_pages, setting, program, program_runs>>

(* What the user edits while the program runs, through GetMacros and the members that are public *)
Change ==
  /\ program = "up" /\ before = NotSaved
  /\ \/ /\ Len(macros) < MaxProfiles /\ \E p \in Profiles : macros' = Append(macros, p)
        /\ UNCHANGED <<used_pages, setting>>
     \/ /\ \E p \in ToSet(Pages) :
             used_pages' = IF p \in used_pages THEN used_pages \ {p} ELSE used_pages \cup {p}
        /\ UNCHANGED <<macros, setting>>
     \/ /\ \E n \in Names : setting' = [setting EXCEPT ![n] = ~@]
        /\ UNCHANGED <<macros, used_pages>>
  /\ UNCHANGED <<ini, program, before, program_runs>>

Stop ==
  /\ program = "up" /\ program' = "down"
  /\ macros' = <<>> /\ used_pages' = {} /\ setting' = Default
  /\ UNCHANGED <<ini, before, program_runs>>

SettingsNext == Start \/ SaveFile \/ Change \/ Stop
SettingsSpec == SettingsInit /\ [][SettingsNext]_setVars
-----------------------------------------------------------------------------
(* A program that is started with the file it has written executes the same macro for every key
   and window, and has the same pages (Settings.cpp:31, 204, 237). *)
RestartsKeepTheMacros ==
  program = "up" /\ before # NotSaved => Behaviour = before
=============================================================================
