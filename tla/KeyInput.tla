------------------------------ MODULE KeyInput ------------------------------
(***************************************************************************)
(* How the keys of the macro keyboards become macros: the serial keyboard  *)
(* (SerialPort.cpp), whose data may be forwarded over TCP to the program   *)
(* on another computer (SerialForwarder.cpp; the sender a Windows build,   *)
(* the receiver another one), and the G keys of a Corsair keyboard         *)
(* (CorsairHid.cpp).  A key is the chunk of data it sends.                 *)
(*                                                                         *)
(* CustomMacro::ProcessReceivedData and SimulateKeypress are unreadable:   *)
(* here they count the key as executed.                                    *)
(***************************************************************************)
EXTENDS Naturals, Sequences

CONSTANTS
  SerialKeys, GKeys,
  Unmapped,             \* reports that are no single G key: two at once, or a release
  m_DebouncingInterval,
  MaxTime, MaxPortStarts, MaxPortFaults   \* bounds

VARIABLES
  is_enabled, forward_serial_to_tcp, vm_in_focus,
  owner,       \* SerialPort::Init: "idle" or "joining"
  m_worker,    \* place of SerialPort::WorkerThread, "none" without a thread
  to_exit,
  wire,        \* keys that the open port has not passed on
  callback,    \* the key that OnDataReceived or Send is at, <<>> if none
  link,        \* connections with a key that no session of the receiver has read
  hid_worker,  \* place of CorsairHid::ThreadFunc
  hid_handle,  \* "null" or "open"
  reports, time, last_keypress,
  pressed, executed, lost,
  port_starts, port_faults

settings   == <<is_enabled, forward_serial_to_tcp, vm_in_focus>>
thread     == <<owner, m_worker, to_exit>>
data       == <<wire, callback, link>>
bounds     == <<port_starts, port_faults>>
serialVars == <<settings, thread, data, bounds>>
hidVars    == <<hid_worker, hid_handle, reports, time, last_keypress>>
keys       == <<pressed, executed, lost>>
keyVars    == <<serialVars, hidVars, keys>>

Keys == SerialKeys \cup GKeys

KeyInit ==
  /\ is_enabled = TRUE /\ forward_serial_to_tcp \in BOOLEAN /\ vm_in_focus = FALSE
  /\ owner = "idle" /\ m_worker = "none" /\ to_exit = FALSE
  /\ wire = <<>> /\ callback = <<>> /\ link = {}
  /\ hid_worker = "init" /\ hid_handle = "null"
  /\ reports = <<>> /\ time = 1 + m_DebouncingInterval /\ last_keypress = 0
  /\ pressed = {} /\ executed = [k \in Keys |-> 0] /\ lost = {}
  /\ port_starts = 0 /\ port_faults = 0

Execute(k) == executed' = [executed EXCEPT ![k] = @ + 1]
Lose(ks)   == lost' = lost \cup ks

-----------------------------------------------------------------------------
(* SerialPort: Init, which with a thread that has ended does nothing *)
StartPort ==
  /\ owner = "idle" /\ is_enabled /\ m_worker = "none" /\ port_starts < MaxPortStarts
  /\ port_starts' = port_starts + 1
  /\ m_worker' = "loop"
  /\ UNCHANGED <<settings, owner, to_exit, data, port_faults, hidVars, keys>>

SetEnabled ==
  /\ owner = "idle"
  /\ is_enabled' = ~is_enabled
  /\ UNCHANGED <<forward_serial_to_tcp, vm_in_focus, thread, data, bounds, hidVars, keys>>

(* Init when it is disabled, and the destructor *)
DestroyWorkerThread ==
  /\ owner = "idle" /\ ~is_enabled /\ m_worker # "none"
  /\ owner' = "joining" /\ to_exit' = TRUE
  /\ UNCHANGED <<settings, m_worker, data, bounds, hidVars, keys>>

Join ==
  /\ owner = "joining" /\ m_worker = "ended"
  /\ owner' = "idle" /\ m_worker' = "none"
  /\ UNCHANGED <<settings, to_exit, data, bounds, hidVars, keys>>

PortSame == UNCHANGED <<settings, owner, to_exit, link, port_starts, hidVars>>

OpenPort ==
  /\ m_worker = "loop"
  /\ \/ to_exit /\ m_worker' = "ended" /\ UNCHANGED port_faults
     \/ ~to_exit /\ m_worker' = "open" /\ UNCHANGED port_faults
     \/ ~to_exit /\ m_worker' = "sleep" /\ port_faults < MaxPortFaults /\ port_faults' = port_faults + 1
  /\ UNCHANGED <<wire, callback, keys>> /\ PortSame

SleepAfterError ==
  /\ m_worker = "sleep"
  /\ m_worker' = "loop"
  /\ UNCHANGED <<wire, callback, port_faults, keys>> /\ PortSame

(* close() waits for the thread of the port, which may be in OnDataReceived; what it has not
   passed on is gone. *)
ClosePort ==
  /\ m_worker = "open" /\ callback = <<>>
  /\ \/ to_exit /\ UNCHANGED port_faults
     \/ port_faults < MaxPortFaults /\ port_faults' = port_faults + 1
  /\ m_worker' = "loop"
  /\ wire' = <<>>
  /\ Lose({wire[i] : i \in DOMAIN wire})
  /\ UNCHANGED <<callback, pressed, executed>> /\ PortSame

PressKey ==
  /\ \E k \in SerialKeys \ pressed :
       /\ pressed' = pressed \cup {k}
       /\ IF m_worker = "open" THEN wire' = Append(wire, k) /\ UNCHANGED lost
                               ELSE Lose({k}) /\ UNCHANGED wire
  /\ UNCHANGED <<m_worker, callback, port_faults, executed>> /\ PortSame

Focus ==
  /\ vm_in_focus' = ~vm_in_focus
  /\ UNCHANGED <<is_enabled, forward_serial_to_tcp, thread, data, bounds, hidVars, keys>>

Forwards == forward_serial_to_tcp /\ vm_in_focus

(* The else is forgotten: what is forwarded is executed here too. *)
OnDataReceived_Bug ==
  /\ wire # <<>> /\ callback = <<>>
  /\ wire' = Tail(wire)
  /\ callback' = IF Forwards THEN <<Head(wire)>> ELSE <<>>
  /\ Execute(Head(wire))
  /\ UNCHANGED <<m_worker, port_faults, pressed, lost>> /\ PortSame

OnDataReceived ==
  /\ wire # <<>> /\ callback = <<>>
  /\ wire' = Tail(wire)
  /\ IF Forwards THEN callback' = <<Head(wire)>> /\ UNCHANGED executed
                             ELSE Execute(Head(wire)) /\ UNCHANGED callback
  /\ UNCHANGED <<m_worker, port_faults, pressed, lost>> /\ PortSame

(* SerialForwarder::Send: without a connection within 50 ms the key is lost. *)
Send ==
  /\ callback # <<>>
  /\ callback' = <<>>
  /\ \/ link' = link \cup {callback[1]} /\ UNCHANGED lost
     \/ Lose({callback[1]}) /\ UNCHANGED link
  /\ UNCHANGED <<settings, thread, wire, bounds, hidVars, pressed, executed>>

(* The receiver: each connection has a session, which reads once and closes.  A read that brings
   an error or a part of the key executes nothing. *)
HandleRead ==
  /\ \E k \in link :
       /\ link' = link \ {k}
       /\ \/ Execute(k) /\ UNCHANGED lost
          \/ Lose({k}) /\ UNCHANGED executed
  /\ UNCHANGED <<settings, thread, wire, callback, bounds, hidVars, pressed>>

-----------------------------------------------------------------------------
(* CorsairHid *)
HidSame == UNCHANGED <<serialVars, time>>

(* It may take a minute; without a handle the thread goes on and never reads. *)
ExecuteInitSequence ==
  /\ hid_worker = "init"
  /\ hid_worker' = "poll"
  /\ hid_handle' \in {"null", "open"}
  /\ UNCHANGED <<reports, last_keypress, keys>> /\ HidSame

PressGKey ==
  /\ \E k \in GKeys \ pressed :
       /\ pressed' = pressed \cup {k}
       /\ IF hid_worker = "poll" /\ hid_handle = "open" THEN reports' = Append(reports, k) /\ UNCHANGED lost
          ELSE Lose({k}) /\ UNCHANGED reports
  /\ UNCHANGED <<hid_worker, hid_handle, last_keypress, executed>> /\ HidSame

Tick ==
  /\ time < MaxTime
  /\ time' = time + 1
  /\ UNCHANGED <<serialVars, hid_worker, hid_handle, reports, last_keypress, keys>>

(* One interval for all keys: another key within it is taken for a bounce. *)
Bounces == time - last_keypress <= m_DebouncingInterval

HandleKeypress ==
  /\ hid_worker = "poll" /\ hid_handle = "open" /\ reports # <<>>
  /\ reports' = Tail(reports)
  /\ IF Head(reports) \in Unmapped \/ Bounces
     THEN Lose({Head(reports)}) /\ UNCHANGED <<executed, last_keypress>>
     ELSE Execute(Head(reports)) /\ last_keypress' = time /\ UNCHANGED lost
  /\ UNCHANGED <<hid_worker, hid_handle, pressed>> /\ HidSame

LoseReports ==
  /\ reports' = <<>>
  /\ Lose({reports[i] : i \in DOMAIN reports})
  /\ UNCHANGED <<last_keypress, pressed, executed>> /\ HidSame

(* The keyboard is unplugged: every read fails, a second apart. *)
ReadFails ==
  /\ hid_worker = "poll" /\ hid_handle = "open"
  /\ LoseReports
  /\ UNCHANGED <<hid_worker, hid_handle>>

(* The handle is closed before the thread is stopped: the thread may be reading from it, with
   an effect that is undefined, or open it afterwards. *)
DestroyWorkingThread ==
  /\ hid_worker \in {"init", "poll"}
  /\ hid_handle' \in IF hid_worker = "init" THEN {"null", "open"} ELSE {"null"}
  /\ hid_worker' \in IF hid_handle = "open" THEN {"ended", "undefined"} ELSE {"ended"}
  /\ LoseReports

WorkerThread == OpenPort \/ SleepAfterError \/ ClosePort
KeyNext ==
  \/ StartPort \/ SetEnabled \/ DestroyWorkerThread \/ Join \/ WorkerThread
  \/ PressKey \/ Focus \/ OnDataReceived \/ Send \/ HandleRead
  \/ ExecuteInitSequence \/ PressGKey \/ Tick \/ HandleKeypress \/ ReadFails
  \/ DestroyWorkingThread

KeySpec == KeyInit /\ [][KeyNext]_keyVars
-----------------------------------------------------------------------------
(* A key is executed at most once, on one computer, whatever the focus, the connections and the
   ports do meanwhile, and not at all only if it was lost: every key that is not under way is
   accounted for (SerialPort.cpp:97, SerialForwarder.cpp:34, CorsairHid.cpp:144). *)
UnderWay == {wire[i] : i \in DOMAIN wire} \cup {callback[i] : i \in DOMAIN callback}
              \cup link \cup {reports[i] : i \in DOMAIN reports}
KeysAreExecutedOnce ==
  /\ \A k \in Keys : executed[k] <= 1
  /\ {k \in Keys : executed[k] = 1} = pressed \ (UnderWay \cup lost)
  /\ UnderWay \cap lost = {}
=============================================================================
