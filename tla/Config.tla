-------------------------------- MODULE Config --------------------------------
(***************************************************************************)
(* The configuration and who changes it: romi-config (ConfigAdaptor over a *)
(* LocalConfig: sections in memory and in one file), cameras that each     *)
(* store their settings in a section of it through RemoteConfig            *)
(* (CameraConfigManager, CameraInfoIO), and an editor that rewrites        *)
(* sections (python/src/romi/config.py).                                   *)
(*                                                                         *)
(* A section holds the camera's settings and the rest.  The service takes  *)
(* one call at a time.  A call that fails for its caller may still be      *)
(* executed, later: the calls of a client stay in order.  Every process    *)
(* may be killed; a file that is opened for writing is empty until it is   *)
(* written.                                                                *)
(***************************************************************************)
EXTENDS Integers, Sequences

CONSTANTS
  Cameras,    \* each is also the name of its section, its topic
  Editor,
  Values,     \* of the settings and of the rest
  Default,    \* the settings of a camera device that was not told any
  MaxFaults,  \* bound: failed calls, kills and short writes
  MaxEdits    \* bound: calls to set_value and edits

NoOne == "nobody"
Clients == Cameras \cup {Editor}
Sections == [settings : Values, rest : Values]
ClientsAssumption ==
  /\ Editor \notin Cameras /\ NoOne \notin Clients /\ Default \notin Values
  /\ MaxFaults \in Nat /\ MaxEdits \in Nat

VARIABLES
  service,   \* up, storing (the file is empty), down
  serving,   \* the client that waits for the end of a store
  config,    \* LocalConfig::config_
  file,      \* the file: the sections of it, if it can be parsed
  calls,     \* each client's calls that the service has not executed
  reply,     \* what the service has answered to the call a client waits for
  phase,     \* down, load, idle, get, set
  device,    \* what each camera device was told last
  settings,  \* CameraInfo's settings of each camera
  draft,     \* the editor: which section it edits, and the rest it wants
  faults, edits,
  agreed,    \* history: the last load or set_value of the camera succeeded
  meddled,   \* history: someone else set the section since
  stale,     \* history: sections edited since their camera has read them
  lost,      \* history: of these, the ones whose camera has then set them
  edited,    \* history: the rest that an edit has put in the section
  torn       \* history: the service was killed while storing, or the disk
             \* was full then

serviceVars == <<service, serving, config, file, torn>>
callVars == <<calls, reply>>
cameraVars == <<device, settings, agreed>>
historyVars == <<meddled, stale, lost, edited>>
bounds == <<faults, edits>>
vars == <<serviceVars, callVars, phase, cameraVars, draft, bounds, historyVars>>

Get(s) == [op |-> "get", section |-> s]
SetTo(s, v) == [op |-> "set", section |-> s, value |-> v]
Call == {Get(s) : s \in Cameras} \cup {SetTo(s, v) : s \in Cameras, v \in Sections}
None == [state |-> "none"]
Answer(v) == [state |-> "answer", value |-> v]

TypeOK ==
  /\ service \in {"up", "storing", "down"} /\ serving \in Clients \cup {NoOne}
  /\ config \in [Cameras -> Sections]
  /\ file \in [state : {"readable", "empty"}, sections : [Cameras -> Sections]]
  /\ calls \in [Clients -> Seq(Call)]
  /\ reply \in [Clients -> {None} \cup {Answer(v) : v \in Sections}]
  /\ phase \in [Clients -> {"down", "load", "idle", "get", "set"}]
  /\ device \in [Cameras -> Values \cup {Default}]
  /\ settings \in [Cameras -> Values]
  /\ draft \in [section : Cameras, rest : Values]
  /\ faults \in 0 .. MaxFaults /\ edits \in 0 .. MaxEdits
  /\ agreed \subseteq Cameras /\ meddled \subseteq Cameras
  /\ stale \subseteq Cameras /\ lost \subseteq Cameras
  /\ edited \in [Cameras -> Values]
  /\ torn \in BOOLEAN

Init ==
  \E v \in Values :
    /\ service = "up" /\ serving = NoOne /\ torn = FALSE
    /\ config = [c \in Cameras |-> [settings |-> v, rest |-> v]]
    /\ file = [state |-> "readable", sections |-> config]
    /\ calls = [k \in Clients |-> <<>>] /\ reply = [k \in Clients |-> None]
    /\ phase = [k \in Clients |-> IF k = Editor THEN "idle" ELSE "down"]
    /\ device = [c \in Cameras |-> Default]
    /\ settings = [c \in Cameras |-> v]
    /\ draft \in [section : Cameras, rest : {v}]
    /\ faults = 0 /\ edits = 0
    /\ agreed = {} /\ meddled = {} /\ stale = {} /\ lost = {}
    /\ edited = [c \in Cameras |-> v]

Fault == faults < MaxFaults /\ faults' = faults + 1
Edit == edits < MaxEdits /\ edits' = edits + 1

(* A call goes out, and what came back for an earlier one is gone.         *)
Ask(k, call) ==
  /\ calls' = [calls EXCEPT ![k] = Append(@, call)]
  /\ reply' = [reply EXCEPT ![k] = None]

Replied(k) == reply[k] # None
Goto(k, p) == phase' = [phase EXCEPT ![k] = p]

-----------------------------------------------------------------------------
(* romi-camera *)

(* CameraFactory::create, CameraConfigManager(): load. *)
CameraStarts(c) ==
  /\ phase[c] = "down"
  /\ Goto(c, "load")
  /\ Ask(c, Get(c))
  /\ UNCHANGED <<serviceVars, cameraVars, draft, bounds, historyVars>>

(* The device is told what was loaded (apply_settings). *)
CameraLoads(c) ==
  /\ phase[c] = "load" /\ Replied(c)
  /\ Goto(c, "idle")
  /\ settings' = [settings EXCEPT ![c] = reply[c].value.settings]
  /\ device' = [device EXCEPT ![c] = reply[c].value.settings]
  /\ agreed' = agreed \cup {c}
  /\ UNCHANGED <<serviceVars, callVars, draft, bounds, historyVars>>

(* set_value, select_option: the device, the settings, and to_json asks    *)
(* for the section.  A device that refuses changes nothing.                *)
SetValue(c, v) ==
  /\ phase[c] = "idle"
  /\ Edit
  /\ device' = [device EXCEPT ![c] = v]
  /\ settings' = [settings EXCEPT ![c] = v]
  /\ agreed' = agreed \ {c}
  /\ Goto(c, "get")
  /\ Ask(c, Get(c))
  /\ UNCHANGED <<serviceVars, draft, faults, historyVars>>

\* Mutant: the settings of the section are stored as they were read.
PutSectionAsRead(c) ==
  /\ phase[c] = "get" /\ Replied(c)
  /\ Goto(c, "set")
  /\ Ask(c, SetTo(c, reply[c].value))
  /\ UNCHANGED <<serviceVars, cameraVars, draft, bounds, historyVars>>

\* Mutant: the section is made of the settings alone.
PutSettingsAlone(c) ==
  /\ phase[c] = "get" /\ Replied(c)
  /\ Goto(c, "set")
  /\ Ask(c, SetTo(c, [settings |-> settings[c], rest |-> settings[c]]))
  /\ UNCHANGED <<serviceVars, cameraVars, draft, bounds, historyVars>>

(* The settings are put in the section that was read (to_json, store). *)
PutSection(c) ==
  /\ phase[c] = "get" /\ Replied(c)
  /\ Goto(c, "set")
  /\ Ask(c, SetTo(c, [reply[c].value EXCEPT !.settings = settings[c]]))
  /\ UNCHANGED <<serviceVars, cameraVars, draft, bounds, historyVars>>

SetReturns(c) ==
  /\ phase[c] = "set" /\ Replied(c)
  /\ Goto(c, "idle")
  /\ agreed' = agreed \cup {c}
  /\ UNCHANGED <<serviceVars, callVars, device, settings, draft, bounds, historyVars>>

(* The call fails here: an exception.  Loading, it ends the program.       *)
Fails(k) ==
  /\ phase[k] \in {"load", "get", "set"}
  /\ Fault
  /\ Goto(k, IF phase[k] = "load" THEN "down" ELSE "idle")
  /\ reply' = [reply EXCEPT ![k] = None]
  /\ calls' \in {calls, [calls EXCEPT ![k] = <<>>]}
  /\ serving' = IF serving = k THEN NoOne ELSE serving
  /\ UNCHANGED <<service, config, file, torn, cameraVars, draft, edits, historyVars>>

CameraDies(c) ==
  /\ phase[c] # "down"
  /\ Fault
  /\ Goto(c, "down")
  /\ device' = [device EXCEPT ![c] = Default]
  /\ agreed' = agreed \ {c}
  /\ reply' = [reply EXCEPT ![c] = None]
  /\ serving' = IF serving = c THEN NoOne ELSE serving
  /\ UNCHANGED <<service, config, file, torn, calls, settings, draft, edits, historyVars>>

-----------------------------------------------------------------------------
(* The editor reads a section, changes the rest of it and stores it. *)

EditorReads(s, v) ==
  /\ phase[Editor] = "idle"
  /\ Edit
  /\ draft' = [section |-> s, rest |-> v]
  /\ Goto(Editor, "get")
  /\ Ask(Editor, Get(s))
  /\ UNCHANGED <<serviceVars, cameraVars, faults, historyVars>>

EditorStores ==
  /\ phase[Editor] = "get" /\ Replied(Editor)
  /\ Goto(Editor, "set")
  /\ Ask(Editor, SetTo(draft.section, [reply[Editor].value EXCEPT !.rest = draft.rest]))
  /\ UNCHANGED <<serviceVars, cameraVars, draft, bounds, historyVars>>

EditorEnds ==
  /\ phase[Editor] = "set" /\ Replied(Editor)
  /\ Goto(Editor, "idle")
  /\ UNCHANGED <<serviceVars, callVars, cameraVars, draft, bounds, historyVars>>

-----------------------------------------------------------------------------
(* romi-config *)

(* Somebody waits for the first call of k, not for a later one.            *)
Awaited(k) ==
  Len(calls[k]) = 1 /\ phase[k] \in {"load", "get", "set"} /\ ~Replied(k)

Executed(k) == calls' = [calls EXCEPT ![k] = Tail(@)]

ServeGet(k) ==
  /\ service = "up"
  /\ calls[k] # <<>> /\ Head(calls[k]).op = "get"
  /\ Executed(k)
  /\ LET s == Head(calls[k]).section
     IN  /\ reply' = IF Awaited(k) THEN [reply EXCEPT ![k] = Answer(config[s])]
                     ELSE reply
         /\ stale' = stale \ ({k} \cap Cameras)
         /\ meddled' = IF phase[k] = "load" /\ Awaited(k) THEN meddled \ {s}
                       ELSE meddled
  /\ UNCHANGED <<serviceVars, phase, cameraVars, draft, bounds, lost, edited>>

(* What an execution of a call by k says of the section's history.         *)
Remember(k, s, v) ==
  IF k = Editor
  THEN /\ meddled' = meddled \cup {s} /\ stale' = stale \cup {s}
       /\ lost' = lost \ {s} /\ edited' = [edited EXCEPT ![s] = v.rest]
  ELSE /\ meddled' = IF Awaited(k) THEN meddled \ {s} ELSE meddled \cup {s}
       /\ lost' = lost \cup (stale \cap {s})
       /\ UNCHANGED <<stale, edited>>

\* Mutant: set_section does not store.
SetUnstored(k) ==
  /\ service = "up"
  /\ calls[k] # <<>> /\ Head(calls[k]).op = "set"
  /\ Executed(k)
  /\ LET s == Head(calls[k]).section
         v == Head(calls[k]).value
     IN  /\ config' = [config EXCEPT ![s] = v]
         /\ reply' = IF Awaited(k) THEN [reply EXCEPT ![k] = Answer(v)] ELSE reply
         /\ Remember(k, s, v)
  /\ UNCHANGED <<service, serving, file, phase, torn, cameraVars, draft, bounds>>

(* set_section: the memory, and store() opens the file. *)
ServeSet(k) ==
  /\ service = "up"
  /\ calls[k] # <<>> /\ Head(calls[k]).op = "set"
  /\ Executed(k)
  /\ LET s == Head(calls[k]).section
         v == Head(calls[k]).value
     IN  /\ config' = [config EXCEPT ![s] = v]
         /\ Remember(k, s, v)
  /\ service' = "storing"
  /\ file' = [state |-> "empty", sections |-> config']
  /\ serving' = IF Awaited(k) THEN k ELSE NoOne
  /\ UNCHANGED <<reply, phase, torn, cameraVars, draft, bounds>>

(* The rest of store(), which looks at no error, and the answer.           *)
Stored ==
  /\ service = "storing"
  /\ service' = "up"
  /\ serving' = NoOne
  /\ \/ file' = [file EXCEPT !.state = "readable"] /\ torn' = FALSE
        /\ UNCHANGED faults
     \/ Fault /\ torn' = TRUE /\ UNCHANGED file
  /\ reply' = [k \in Clients |->
                 IF k = serving THEN Answer(CHOOSE v \in Sections : TRUE) ELSE reply[k]]
  /\ UNCHANGED <<config, calls, phase, cameraVars, draft, edits, historyVars>>

ServiceDies ==
  /\ service # "down"
  /\ Fault
  /\ service' = "down"
  /\ serving' = NoOne
  /\ torn' = (torn \/ service = "storing")
  /\ calls' = [k \in Clients |-> <<>>]
  /\ UNCHANGED <<config, file, reply, phase, cameraVars, draft, edits, historyVars>>

(* load() throws on a file it cannot parse: the program ends at once.      *)
ServiceStarts ==
  /\ service = "down"
  /\ file.state = "readable"
  /\ service' = "up"
  /\ config' = file.sections
  /\ UNCHANGED <<serving, file, torn, callVars, phase, cameraVars, draft, bounds>>
  /\ UNCHANGED historyVars

Next ==
  \/ \E c \in Cameras :
       \/ CameraStarts(c) \/ CameraLoads(c) \/ PutSection(c) \/ SetReturns(c)
       \/ CameraDies(c)
       \/ \E v \in Values : SetValue(c, v) \/ EditorReads(c, v)
  \/ EditorStores \/ EditorEnds
  \/ \E k \in Clients : Fails(k) \/ ServeGet(k) \/ ServeSet(k)
  \/ Stored \/ ServiceDies \/ ServiceStarts

Spec == Init /\ [][Next]_vars

-----------------------------------------------------------------------------
(* Properties *)

(* After a set_value or a start that succeeded, the device, the camera's   *)
(* copy, the service and its file have the same settings; whoever failed,  *)
(* was late or was killed before; unless another has set the section since *)
(* (CameraConfigManager, CameraInfoIO::store, LocalConfig).                *)
CameraInStep ==
  \A c \in agreed \ meddled :
    phase[c] = "idle" /\ service = "up" =>
      /\ device[c] = settings[c] /\ config[c].settings = settings[c]
      /\ file.state = "readable" => file.sections[c].settings = settings[c]

(* "This makes sure that we copy any object in the 'camera' section that   *)
(* we don't handle": what an edit has put there stays, unless it came in   *)
(* the middle of the camera's own reading and writing of the section.      *)
RestKept ==
  \A c \in Cameras \ lost : service # "down" => config[c].rest = edited[c]

(* The file has what is in memory, before and after a restart; it cannot   *)
(* be read while it is stored, or once a store was killed or the disk full *)
(* (then the service does not start again).                                *)
FileFollows ==
  /\ file.state = "empty" => service = "storing" \/ torn
  /\ file.state = "readable" => file.sections = config

(* The device, the service and its file agree, and edits stay. *)
ConfigKept == CameraInStep /\ RestKept /\ FileFollows
=============================================================================
