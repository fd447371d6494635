----------------------------- MODULE MCCanTools -----------------------------
(***************************************************************************)
(* The tools around the CAN bus, one at a time: they share no state, so a  *)
(* behaviour picks the one it is about and the variables of the others     *)
(* stay as they are.                                                       *)
(***************************************************************************)
EXTENDS Integers, Sequences, FiniteSets, TLC,
        CanBitMapping, CanScript, CanLogPanel, CanGrid, CanUdsRaw, DidGrid, IsoTpPoll

CONSTANT Tools

VARIABLE tool

-----------------------------------------------------------------------------
(* What the constants of the tools stand for *)
WaitTwice ==
  << [op |-> "raw", frame |-> 1, value |-> 1], [op |-> "send", frame |-> 1],
     [op |-> "wait", frame |-> 1], [op |-> "field", frame |-> 1, value |-> 2],
     [op |-> "wait", frame |-> 1] >>
SendAndSleep ==
  << [op |-> "send", frame |-> 2], [op |-> "sleep"], [op |-> "wait", frame |-> 2] >>
TwoScripts == {WaitTwice, SendAndSleep}

ThreeEntries == <<"e1", "e2", "e1">>
TheirLevels  == <<2, 0, 1>>

UdsInputs == {<<"hex", "hex", "hex">>, <<"delay", "nohex">>, <<"", "hex">>}

ThreeDids == <<1, 2, 3>>

-----------------------------------------------------------------------------
Nibble(n) == [b \in 0 .. 3 |-> (n \div 2^(3 - b)) % 2]
FourNibbles == { [i \in 0 .. 3 |-> IF i % 2 = 0 THEN Nibble(5) ELSE Nibble(b)] : b \in {10, 15} }
NibbleArrays ==
  { [i \in 0 .. 2 |-> Nibble(n)] : n \in {0, 15} } \cup { [i \in 0 .. 2 |-> Nibble(3 * i + 3)] }
AllOnes == Nibble(15)
MappedFields ==
  << [offset |-> 0, size |-> 3, type |-> "UI8"],
     [offset |-> 3, size |-> 4, type |-> "I8"],
     [offset |-> 7, size |-> 6, type |-> "UI32"] >>
SomeTexts == {-1, 3, 40, NoNumber}

-----------------------------------------------------------------------------
vars == <<tool, bitsVars, scriptVars, logPanelVars, gridVars, udsVars, didGridVars, isoTpVars>>

Only(name, others) == tool = name /\ UNCHANGED <<tool, others>>

(* The other tools are in one of their initial states. *)
Init ==
  /\ tool \in Tools
  /\ BitsInit /\ ScriptInit /\ LogPanelInit /\ GridInit /\ UdsInit /\ DidGridInit /\ IsoTpInit
  /\ tool # "bits" => data = CHOOSE f \in FourNibbles : TRUE
  /\ tool # "grid" => level = 0
  /\ tool # "uds" => m_IsoTpResponseId = 1
  /\ tool # "isotp" => ms = 0

Next ==
  \/ Only("bits", <<scriptVars, logPanelVars, gridVars, udsVars, didGridVars, isoTpVars>>) /\ BitsNext
  \/ Only("script", <<bitsVars, logPanelVars, gridVars, udsVars, didGridVars, isoTpVars>>) /\ ScriptNext
  \/ Only("log", <<bitsVars, scriptVars, gridVars, udsVars, didGridVars, isoTpVars>>) /\ LogPanelNext
  \/ Only("grid", <<bitsVars, scriptVars, logPanelVars, udsVars, didGridVars, isoTpVars>>) /\ GridNext
  \/ Only("uds", <<bitsVars, scriptVars, logPanelVars, gridVars, didGridVars, isoTpVars>>) /\ UdsNext
  \/ Only("did", <<bitsVars, scriptVars, logPanelVars, gridVars, udsVars, isoTpVars>>) /\ DidGridNext
  \/ Only("isotp", <<bitsVars, scriptVars, logPanelVars, gridVars, udsVars, didGridVars>>) /\ IsoTpNext

Spec == Init /\ [][Next]_vars
=============================================================================
