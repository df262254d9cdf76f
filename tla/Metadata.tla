------------------------------ MODULE Metadata ------------------------------
(***************************************************************************)
(* What a client chose with session/set_config_option, on disk and in      *)
(* memory.  (internal/acpagent SetSessionConfigOption and open,            *)
(* internal/runtime/state.go Meta)                                         *)
(*                                                                         *)
(* Each call reads the session's whole metadata file, changes one field,   *)
(* tells the runtime it has looked up, and replaces the file; opening the  *)
(* session reads and replaces it too.  No lock spans a read and its write. *)
(* A session may be closed and opened again, by the same process or by a   *)
(* later one with another --model, while a call is under way, and a crash  *)
(* may come between any two steps.  The lock and the table that keep a     *)
(* session to one opener are in module Sessions, the refusals of open that *)
(* come before its write are not steps of the file.                        *)
(***************************************************************************)
EXTENDS Naturals, FiniteSets

CONSTANTS
    Unset,       \* no choice: the field is absent from the file
    Models,
    Efforts,     \* the thought levels; "default" is stored as Unset
    Offered,     \* --models; any model is, when there is none
    Setters,     \* set_config_option calls
    MaxOpens     \* bound: runtimes opened, numbered in their order

ASSUME MetadataAssumption ==
    /\ Unset \notin Models \cup Efforts
    /\ "open" \notin Setters
    /\ Offered \subseteq Models
    /\ MaxOpens \in Nat

Options   == {"model", "effort"}
Values(o) == IF o = "model" THEN Models ELSE Efforts \cup {Unset}
AllValues == Models \cup Efforts \cup {Unset}
Metas     == {m \in [Options -> AllValues] :
                 \A o \in Options : m[o] \in Values(o) \cup {Unset}}
Settings  == {m \in Metas : \A o \in Options : m[o] \in Values(o)}
NoMeta    == [o \in Options |-> Unset]

Opener  == "open"              \* the request that opens the session
Workers == Setters \cup {Opener}

VARIABLES
    file,      \* the metadata on disk
    at,        \* how far each call, and the opening, is
    meta,      \* the copy each of them has read and changed
    asks,      \* what each call asks for, and the --model of its process
    target,    \* the runtime a call has looked up
    opens,     \* runtimes opened so far, the one being opened included
    hosts,     \* the runtime that is open, 0 if none
    launch,    \* the --model of the process that opens or hosts the session
    memory,    \* r.model and r.effort of the open runtime
    may,       \* what each option may be: ghost, see below
    alone      \* the workers that no other has been under way with: ghost

metaVars == <<file, at, meta, asks, target, opens, hosts, launch, memory,
              may, alone>>

Idle     == {"idle", "answered", "failed"}
Stages   == Idle \cup {"reading", "changing", "writing", "renaming", "starting"}
NoCall   == [option |-> "none"]
CallsFor == {c \in [option : Options, value : AllValues, default : Models] :
                c.value \in Values(c.option)}

UnderWay == {w \in Workers : at[w] \notin Idle}

\* What the runtime uses for a stored value.
Used(o, v)   == IF o = "model" /\ v = Unset THEN launch ELSE v
Effective(m) == [o \in Options |-> Used(o, m[o])]

\* Types of the state; what a runtime uses is a whole setting.
MetaTypeOK ==
    /\ file \in Metas
    /\ at \in [Workers -> Stages]
    /\ meta \in [Workers -> Metas]
    /\ asks \in [Setters -> CallsFor \cup {NoCall}]
    /\ \A c \in Setters : at[c] = "idle" \/ asks[c] \in CallsFor
    /\ target \in [Setters -> 0 .. MaxOpens]
    /\ opens \in 0 .. MaxOpens
    /\ hosts \in 0 .. opens
    /\ launch \in Models
    /\ memory \in Settings
    /\ may \in [Options -> SUBSET AllValues]
    /\ alone \subseteq Workers

MetaInit ==
    /\ file = NoMeta
    /\ at = [w \in Workers |-> "idle"]
    /\ meta = [w \in Workers |-> NoMeta]
    /\ asks = [c \in Setters |-> NoCall]
    /\ target = [c \in Setters |-> 0]
    /\ opens = 0 /\ hosts = 0
    /\ launch \in Models
    /\ memory = Effective(NoMeta)
    /\ may = [o \in Options |-> {Unset}]
    /\ alone = {}

-----------------------------------------------------------------------------
(* The ghosts.  An option may be what the last call that had the session   *)
(* to itself was answered for, or what any later call has asked for; a     *)
(* call that overlaps with another or with an opening is one whose outcome *)
(* the client cannot tell, and so is one that failed or was cut short.  A  *)
(* read that fails forgets both options.                                   *)

Begins(w)      == alone' = IF UnderWay = {} THEN alone \cup {w}
                                            ELSE alone \ (UnderWay \cup {w})
Allows(o, v)   == may' = [may EXCEPT ![o] = @ \cup {v}]
AllowsUnset    == may' = [o \in Options |-> may[o] \cup {Unset}]
Settles(o, v)  == may' = [may EXCEPT ![o] = {v}]

StepsTo(w, stage) == at' = [at EXCEPT ![w] = stage]

-----------------------------------------------------------------------------
(* SetSessionConfigOption                                                  *)

\* The call finds the open runtime in the table.
Looks(c, o, v) ==
    /\ hosts # 0
    /\ at[c] = "idle"
    /\ StepsTo(c, "reading")
    /\ asks' = [asks EXCEPT ![c] = [option |-> o, value |-> v, default |-> launch]]
    /\ target' = [target EXCEPT ![c] = hosts]
    /\ Begins(c)
    /\ UNCHANGED <<file, meta, opens, hosts, launch, memory, may>>

Reads(w, found) ==
    /\ meta' = [meta EXCEPT ![w] = found]
    /\ IF found = file THEN UNCHANGED may ELSE AllowsUnset

\* A file that cannot be read counts as one without choices.
SetReads(c) ==
    /\ at[c] = "reading"
    /\ \E found \in {file, NoMeta} : Reads(c, found)
    /\ StepsTo(c, "changing")
    /\ UNCHANGED <<file, asks, target, opens, hosts, launch, memory, alone>>

\* A model that is not offered changes nothing; without --models any is.
Accepted(c) ==
    asks[c].option = "model" =>
        Offered = {} \/ asks[c].value \in Offered \cup {asks[c].default}

Refuses(c) ==
    /\ at[c] = "changing"
    /\ ~Accepted(c)
    /\ StepsTo(c, "failed")
    /\ UNCHANGED <<file, meta, asks, target, opens, hosts, launch, memory, may, alone>>

ChangesUnchecked(c) ==
    /\ at[c] = "changing"
    /\ LET o == asks[c].option
           v == asks[c].value
       IN  /\ memory' = IF hosts # 0 THEN [memory EXCEPT ![o] = v] ELSE memory
           /\ meta' = [meta EXCEPT ![c][o] = v]
           /\ IF Accepted(c) THEN Allows(o, v) ELSE UNCHANGED may
    /\ StepsTo(c, "writing")
    /\ UNCHANGED <<file, asks, target, opens, hosts, launch, alone>>

\* SetModel or SetEffort, of the runtime that was looked up: it may have been
\* closed since, and the session opened again.
Changes(c) ==
    /\ at[c] = "changing"
    /\ Accepted(c)
    /\ LET o == asks[c].option
           v == asks[c].value
       IN  /\ memory' = IF hosts = target[c] THEN [memory EXCEPT ![o] = v] ELSE memory
           /\ meta' = [meta EXCEPT ![c][o] = v]
           /\ Allows(o, v)
    /\ StepsTo(c, "writing")
    /\ UNCHANGED <<file, asks, target, opens, hosts, launch, alone>>

-----------------------------------------------------------------------------
(* WriteMeta: the new contents go to a file of their own, which then takes *)
(* the place of the old one.                                               *)

WritesInPlace(w) ==
    /\ at[w] = "writing"
    /\ file' = NoMeta
    /\ StepsTo(w, "renaming")
    /\ UNCHANGED <<meta, asks, target, opens, hosts, launch, memory, may, alone>>

WritesTemp(w) ==
    /\ at[w] = "writing"
    /\ StepsTo(w, "renaming")
    /\ UNCHANGED <<file, meta, asks, target, opens, hosts, launch, memory, may, alone>>

\* Neither the runtime's new setting nor anything else is taken back.
WriteFails(w) ==
    /\ at[w] \in {"writing", "renaming"}
    /\ StepsTo(w, "failed")
    /\ UNCHANGED <<file, meta, asks, target, opens, hosts, launch, memory, may, alone>>

\* The rename, after which the call is answered.
SetRenames(c) ==
    /\ at[c] = "renaming"
    /\ file' = meta[c]
    /\ StepsTo(c, "answered")
    /\ IF c \in alone THEN Settles(asks[c].option, asks[c].value) ELSE UNCHANGED may
    /\ UNCHANGED <<meta, asks, target, opens, hosts, launch, memory, alone>>

-----------------------------------------------------------------------------
(* Opening the session, which the lock keeps to one request; closing it,   *)
(* and the end of the process, which ends the calls that are under way.    *)

OpenReads(l) ==
    /\ hosts = 0 /\ at[Opener] \in Idle
    /\ opens < MaxOpens
    /\ opens' = opens + 1
    /\ launch' = l
    /\ \E found \in {file, NoMeta} : Reads(Opener, found)
    /\ StepsTo(Opener, "writing")
    /\ Begins(Opener)
    /\ UNCHANGED <<file, asks, target, hosts, memory>>

OpenRenames ==
    /\ at[Opener] = "renaming"
    /\ file' = meta[Opener]
    /\ StepsTo(Opener, "starting")
    /\ UNCHANGED <<meta, asks, target, opens, hosts, launch, memory, may, alone>>

StartsAsStored ==
    /\ at[Opener] = "starting"
    /\ StepsTo(Opener, "answered")
    /\ hosts' = opens
    /\ memory' = meta[Opener]
    /\ UNCHANGED <<file, meta, asks, target, opens, launch, may, alone>>

Starts ==
    /\ at[Opener] = "starting"
    /\ StepsTo(Opener, "answered")
    /\ hosts' = opens
    /\ memory' = Effective(meta[Opener])
    /\ UNCHANGED <<file, meta, asks, target, opens, launch, may, alone>>

StartFails ==
    /\ at[Opener] = "starting"
    /\ StepsTo(Opener, "failed")
    /\ UNCHANGED <<file, meta, asks, target, opens, hosts, launch, memory, may, alone>>

Closes ==
    /\ hosts # 0
    /\ hosts' = 0
    /\ UNCHANGED <<file, at, meta, asks, target, opens, launch, memory, may, alone>>

Crashes ==
    /\ hosts' = 0
    /\ at' = [w \in Workers |-> IF w \in UnderWay THEN "failed" ELSE at[w]]
    /\ UNCHANGED <<file, meta, asks, target, opens, launch, memory, may, alone>>

Sets(c) ==
    \/ \E o \in Options : \E v \in Values(o) : Looks(c, o, v)
    \/ SetReads(c) \/ Refuses(c) \/ Changes(c) \/ SetRenames(c)

Opening == OpenRenames \/ Starts \/ StartFails

MetaNext ==
    \/ \E c \in Setters : Sets(c)
    \/ \E w \in Workers : WritesTemp(w) \/ WriteFails(w)
    \/ \E l \in Models : OpenReads(l)
    \/ Opening \/ Closes \/ Crashes

MetaSpec == MetaInit /\ [][MetaNext]_metaVars

-----------------------------------------------------------------------------
\* What is on disk is a choice the client made, and the last one it was given
\* an answer for unless calls, openings, failures or crashes overlapped with
\* it: no process stores its own --model, no crash leaves half a file, and no
\* call touches the other option.  (agent.go:383-409, 221-249, state.go:78)
ChoicesAreStored == \A o \in Options : file[o] \in may[o]

\* The open runtime uses what the client chose, and otherwise the --model of
\* its own process, not that of an earlier one.  (state.go:60, agent.go:249)
ChoicesAreUsed ==
    hosts # 0 => \A o \in Options : memory[o] \in {Used(o, v) : v \in may[o]}
=============================================================================
