----------------------------- MODULE ProgLoader -----------------------------
(***************************************************************************)
(* The life of the loader (bpf/prog_loader.c): load the XDP program or     *)
(* reuse the pinned one, pin program and map under /sys/fs/bpf, attach the *)
(* program to wlan0, then report from the map until a signal detaches it.  *)
(* Pins and the attachment outlive a loader, so what a killed run leaves   *)
(* behind is where the next one starts; two loaders may also run at once.  *)
(*                                                                         *)
(* Loading creates a program and its own map: both are named by one        *)
(* number, so "the map of the attached program" is an equality.            *)
(***************************************************************************)
EXTENDS Integers

CONSTANTS Loader,   \* loader processes
          MaxRuns,  \* bound: how often a loader is started
          NONE,     \* nothing pinned, attached or assigned
          BAD       \* a negative file descriptor

ASSUME RunsAssumption == MaxRuns \in Nat

Object == 1..MaxRuns  \* each run loads at most once

ASSUME NoObjectAssumption == NONE \notin Object /\ BAD \notin Object /\ NONE # BAD

VARIABLES
  prog_pin,  \* the program pinned at prog_path
  map_pin,   \* the map pinned at map_path
  attached,  \* the program on the XDP hook of wlan0
  loaded,    \* how many programs were loaded so far
  runs,      \* how often a loader was started
  overlap,   \* history: two loaders have run at once
  refused,   \* history: what the kernel refused to pin at a free path
  pc,        \* the next system call of each loader
  obj,       \* the local `obj` of each loader: NONE while uninitialised
  prog_fd,   \* the program it holds
  map_fd,    \* the map it holds
  ifindex    \* whether the global ifindex is set

kernelVars == <<prog_pin, map_pin, attached, loaded>>
localVars  == <<obj, prog_fd, map_fd, ifindex>>
runVars    == <<runs, overlap, refused>>
vars       == <<kernelVars, runVars, pc, localVars>>

Init ==
  /\ prog_pin = NONE /\ map_pin = NONE /\ attached = NONE
  /\ loaded = 0 /\ runs = 0 /\ overlap = FALSE /\ refused = {}
  /\ pc = [l \in Loader |-> "off"]
  /\ obj = [l \in Loader |-> NONE]
  /\ prog_fd = [l \in Loader |-> NONE]
  /\ map_fd = [l \in Loader |-> NONE]
  /\ ifindex = [l \in Loader |-> FALSE]

Goto(l, from, to) == pc[l] = from /\ pc' = [pc EXCEPT ![l] = to]

\* The process is gone, its descriptors and variables with it.
Exit(l) ==
  /\ pc' = [pc EXCEPT ![l] = "off"]
  /\ obj' = [obj EXCEPT ![l] = NONE]
  /\ prog_fd' = [prog_fd EXCEPT ![l] = NONE]
  /\ map_fd' = [map_fd EXCEPT ![l] = NONE]
  /\ ifindex' = [ifindex EXCEPT ![l] = FALSE]

Start(l) ==
  /\ runs < MaxRuns
  /\ runs' = runs + 1
  /\ overlap' = (overlap \/ \E m \in Loader : pc[m] # "off")
  /\ Goto(l, "off", "accessProg")
  /\ UNCHANGED <<kernelVars, refused, localVars>>

------------------------------------------------------------------------------
(* The program: lines 55-76.                                               *)

\* Mutant: the program is always loaded afresh.
AccessProgIgnored(l) ==
  /\ Goto(l, "accessProg", "load")
  /\ UNCHANGED <<kernelVars, runVars, localVars>>

\* access(prog_path, F_OK)
AccessProg(l) ==
  /\ Goto(l, "accessProg", IF prog_pin # NONE THEN "getProg" ELSE "load")
  /\ UNCHANGED <<kernelVars, runVars, localVars>>

\* bpf_obj_get(prog_path); nothing in the program ever removes a pin.
GetProg(l) ==
  /\ Goto(l, "getProg", "accessMap")
  /\ prog_fd' = [prog_fd EXCEPT ![l] = prog_pin]
  /\ UNCHANGED <<kernelVars, runVars, obj, map_fd, ifindex>>

\* The same call refused (no descriptor left, no permission): line 58 prints the
\* negative descriptor and the loader goes on with it.
GetProgFails(l) ==
  /\ Goto(l, "getProg", "accessMap")
  /\ prog_fd' = [prog_fd EXCEPT ![l] = BAD]
  /\ UNCHANGED <<kernelVars, runVars, obj, map_fd, ifindex>>

\* bpf_prog_load_xattr creates the program and its map ...
Load(l) ==
  /\ Goto(l, "load", "pinProg")
  /\ loaded' = loaded + 1
  /\ obj' = [obj EXCEPT ![l] = loaded + 1]
  /\ prog_fd' = [prog_fd EXCEPT ![l] = loaded + 1]
  /\ UNCHANGED <<prog_pin, map_pin, attached, runVars, map_fd, ifindex>>

\* ... or fails and main returns -1.
LoadFails(l) ==
  /\ pc[l] = "load"
  /\ Exit(l)
  /\ UNCHANGED <<kernelVars, runVars>>

\* Mutant: an existing pin is unlinked first.
PinProgReplaces(l) ==
  /\ Goto(l, "pinProg", "accessMap")
  /\ prog_pin' = prog_fd[l]
  /\ UNCHANGED <<map_pin, attached, loaded, runVars, localVars>>

\* bpf_obj_pin(prog_fd, prog_path): fails when the path exists, and the
\* loader only says so.
PinProg(l) ==
  /\ Goto(l, "pinProg", "accessMap")
  /\ prog_pin' = IF prog_pin = NONE THEN prog_fd[l] ELSE prog_pin
  /\ UNCHANGED <<map_pin, attached, loaded, runVars, localVars>>

\* The same call refused although the path is free (no bpf file system, no
\* memory, no permission): line 73 says "Program already exists" and the loader
\* goes on with a program that no later run will find.
PinProgFails(l) ==
  /\ prog_pin = NONE
  /\ Goto(l, "pinProg", "accessMap")
  /\ refused' = refused \cup {"prog"}
  /\ UNCHANGED <<kernelVars, runs, overlap, localVars>>

------------------------------------------------------------------------------
(* The map: lines 79-96.                                                   *)

AccessMap(l) ==
  /\ Goto(l, "accessMap", IF map_pin # NONE THEN "getMap" ELSE "findMap")
  /\ UNCHANGED <<kernelVars, runVars, localVars>>

GetMap(l) ==
  /\ Goto(l, "getMap", "ifindex")
  /\ map_fd' = [map_fd EXCEPT ![l] = map_pin]
  /\ UNCHANGED <<kernelVars, runVars, obj, prog_fd, ifindex>>

\* bpf_obj_get(map_path) refused: the loader goes on without a map.
GetMapFails(l) ==
  /\ Goto(l, "getMap", "ifindex")
  /\ map_fd' = [map_fd EXCEPT ![l] = BAD]
  /\ UNCHANGED <<kernelVars, runVars, obj, prog_fd, ifindex>>

\* bpf_object__find_map_fd_by_name(obj, "drop_icmp_map")
FindMap(l) ==
  /\ obj[l] # NONE
  /\ Goto(l, "findMap", "pinMap")
  /\ map_fd' = [map_fd EXCEPT ![l] = obj[l]]
  /\ UNCHANGED <<kernelVars, runVars, obj, prog_fd, ifindex>>

\* The same call when the program was reused and obj never assigned: it reads
\* through a wild pointer.  It finds no map, so that the descriptor is
\* negative and passes the test of line 86 ...
FindMapWild(l) ==
  /\ obj[l] = NONE
  /\ Goto(l, "findMap", "pinMap")
  /\ map_fd' = [map_fd EXCEPT ![l] = BAD]
  /\ UNCHANGED <<kernelVars, runVars, obj, prog_fd, ifindex>>

\* ... or it faults, or yields 0 and main returns -1.
FindMapFaults(l) ==
  /\ pc[l] = "findMap"
  /\ obj[l] = NONE
  /\ Exit(l)
  /\ UNCHANGED <<kernelVars, runVars>>

\* Mutant: something is left at map_path even for an invalid descriptor.
PinMapBad(l) ==
  /\ Goto(l, "pinMap", "ifindex")
  /\ map_pin' = IF map_pin = NONE THEN map_fd[l] ELSE map_pin
  /\ UNCHANGED <<prog_pin, attached, loaded, runVars, localVars>>

\* bpf_obj_pin(map_fd, map_path)
PinMap(l) ==
  /\ Goto(l, "pinMap", "ifindex")
  /\ map_pin' = IF map_pin = NONE /\ map_fd[l] # BAD THEN map_fd[l] ELSE map_pin
  /\ UNCHANGED <<prog_pin, attached, loaded, runVars, localVars>>

\* The same call refused for a valid map and a free path; line 95 still says
\* that it is done.
PinMapFails(l) ==
  /\ map_pin = NONE /\ map_fd[l] # BAD
  /\ Goto(l, "pinMap", "ifindex")
  /\ refused' = refused \cup {"map"}
  /\ UNCHANGED <<kernelVars, runs, overlap, localVars>>

------------------------------------------------------------------------------
(* The interface: lines 98-107, and the way out.                           *)

IfNameToIndex(l) ==
  /\ Goto(l, "ifindex", "attach")
  /\ ifindex' = [ifindex EXCEPT ![l] = TRUE]
  /\ UNCHANGED <<kernelVars, runVars, obj, prog_fd, map_fd>>

\* bpf_set_link_xdp_fd(ifindex, prog_fd, 0) replaces what is attached; with the
\* descriptor -1 of a refused bpf_obj_get it detaches it, and succeeds.
Attach(l) ==
  /\ Goto(l, "attach", "report")
  /\ attached' = IF prog_fd[l] = BAD THEN NONE ELSE prog_fd[l]
  /\ UNCHANGED <<prog_pin, map_pin, loaded, runVars, localVars>>

\* No wlan0, or the driver refuses: main returns -1.
SetupFails(l) ==
  /\ pc[l] \in {"ifindex", "attach"}
  /\ Exit(l)
  /\ UNCHANGED <<kernelVars, runVars>>

\* SIGINT or SIGTERM: int_exit detaches whatever is on the hook if ifindex is
\* known (it is 0 before line 98) and exits.
int_exit(l) ==
  /\ pc[l] # "off"
  /\ attached' = IF ifindex[l] THEN NONE ELSE attached
  /\ Exit(l)
  /\ UNCHANGED <<prog_pin, map_pin, loaded, runVars>>

\* Killed between any two system calls (or signalled before lines 51-52).
Kill(l) ==
  /\ pc[l] # "off"
  /\ Exit(l)
  /\ UNCHANGED <<kernelVars, runVars>>

Step(l) == \/ AccessProg(l) \/ GetProg(l) \/ GetProgFails(l)
           \/ Load(l) \/ LoadFails(l) \/ PinProg(l) \/ PinProgFails(l)
           \/ AccessMap(l) \/ GetMap(l) \/ GetMapFails(l) \/ FindMap(l)
           \/ FindMapWild(l) \/ FindMapFaults(l) \/ PinMap(l) \/ PinMapFails(l)
           \/ IfNameToIndex(l) \/ Attach(l) \/ SetupFails(l)

Next == \E l \in Loader : Start(l) \/ Step(l) \/ int_exit(l) \/ Kill(l)

Spec == Init /\ [][Next]_vars

------------------------------------------------------------------------------
(* Properties.                                                             *)

TypeOK ==
  /\ {prog_pin, map_pin, attached} \subseteq Object \cup {NONE}
  /\ loaded \in 0..runs /\ runs \in 0..MaxRuns /\ overlap \in BOOLEAN
  /\ refused \subseteq {"prog", "map"}
  /\ pc \in [Loader -> {"off", "accessProg", "getProg", "load", "pinProg",
                        "accessMap", "getMap", "findMap", "pinMap",
                        "ifindex", "attach", "report"}]
  /\ obj \in [Loader -> Object \cup {NONE}]
  /\ prog_fd \in [Loader -> Object \cup {NONE, BAD}]
  /\ map_fd \in [Loader -> Object \cup {NONE, BAD}]
  /\ ifindex \in [Loader -> BOOLEAN]

\* With one loader at a time the two pins belong together however often it is
\* killed and restarted between its two bpf_obj_pin calls (lines 72 and 92), as
\* long as no pin of a program was refused.  Line 72 only reports a refusal: the
\* loader then pins the map of a program that is gone with it, and the next run
\* loads and pins a second program beside the first one's map.
PinsAgree == ~overlap /\ "prog" \notin refused /\ prog_pin # NONE /\ map_pin # NONE
                => map_pin = prog_pin

\* With one loader at a time and no refused pin of a program, a reporting loader
\* has its program on the hook and reads, if it has a map at all, the one that
\* program counts into, which is the pinned one that the next run goes on with
\* unless its pin was refused; a loader that could not open the pinned program
\* has emptied the hook (lines 55-107).
ReportsOnAttached ==
  \A l \in Loader :
    ~overlap /\ "prog" \notin refused /\ pc[l] = "report" =>
      /\ \/ attached = prog_fd[l] /\ map_fd[l] \in {attached, BAD}
         \/ attached = NONE /\ prog_fd[l] = BAD
      /\ "map" \notin refused => map_fd[l] \in {map_pin, BAD}

\* A loader that reused the pinned program (line 57) holds the pinned objects, or
\* the negative descriptor of a refused bpf_obj_get, also when other loaders start,
\* race for the pins and are killed meanwhile.
ReuserHoldsPins == \A l \in Loader : pc[l] = "report" /\ obj[l] = NONE =>
                      /\ prog_fd[l] \in {prog_pin, BAD}
                      /\ map_fd[l] \in {map_pin, BAD}

\* "Pin map to '%s' done" (line 95): past that line the map is pinned, where the
\* kernel refused no pin at a free path.
MapPinned == \A l \in Loader :
                "map" \notin refused /\ pc[l] \in {"ifindex", "attach", "report"}
                  => map_pin # NONE
==============================================================================
