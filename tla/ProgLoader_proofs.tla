------------------------- MODULE ProgLoader_proofs -------------------------
(***************************************************************************)
(* Proofs about the life cycle of the loader for any number of loader      *)
(* processes and of runs, killed or signalled at any point.                *)
(***************************************************************************)
EXTENDS ProgLoader, FiniteSetTheorems, TLAPS

\* The loaders of a run that has yet to load (or to find that it need not).
MayLoad == {l \in Loader : pc[l] \in {"accessProg", "load"}}

\* Each run loads at most once.
LoadsBounded == IsFiniteSet(MayLoad) /\ loaded + Cardinality(MayLoad) <= runs

\* A descriptor about to be pinned is that of the program just loaded.
PinsLoaded == \A l \in Loader : pc[l] = "pinProg" => prog_fd[l] \in Object

TypeInv == TypeOK /\ LoadsBounded /\ PinsLoaded

LEMMA TypeInit == ASSUME Init PROVE TypeInv
<1>1. MayLoad = {}
  BY DEF Init, MayLoad
<1>2. LoadsBounded
  BY <1>1, FS_EmptySet DEF Init, LoadsBounded
<1>3. overlap \in BOOLEAN /\ ifindex \in [Loader -> BOOLEAN]
  BY Zenon DEF Init
<1>4. TypeOK
  BY <1>3, RunsAssumption DEF Init, TypeOK
<1>5. QED
  BY <1>2, <1>4 DEF TypeInv, Init, PinsLoaded

\* A loader that leaves the set makes room for one program; no step but a start
\* adds to it.
LEMMA MayLoadShrinks ==
  ASSUME TypeInv, NEW l \in Loader,
         \A m \in Loader \ {l} : pc'[m] = pc[m],
         pc[l] \in {"accessProg", "load"} \/ pc'[l] \notin {"accessProg", "load"}
  PROVE  /\ IsFiniteSet(MayLoad') /\ Cardinality(MayLoad') \in Nat
         /\ Cardinality(MayLoad) \in Nat
         /\ Cardinality(MayLoad') <= Cardinality(MayLoad)
         /\ l \in MayLoad \ MayLoad' => Cardinality(MayLoad') = Cardinality(MayLoad) - 1
<1>1. MayLoad' = MayLoad \/ MayLoad' = MayLoad \ {l}
  BY DEF MayLoad
<1>2. IsFiniteSet(MayLoad) /\ Cardinality(MayLoad) \in Nat
  BY FS_CardinalityType DEF TypeInv, LoadsBounded
<1>3. /\ IsFiniteSet(MayLoad \ {l})
      /\ Cardinality(MayLoad \ {l}) =
           IF l \in MayLoad THEN Cardinality(MayLoad) - 1 ELSE Cardinality(MayLoad)
  BY <1>2, FS_RemoveElement
<1>4. IsFiniteSet(MayLoad') /\ Cardinality(MayLoad') \in Nat
  BY <1>1, <1>2, <1>3, FS_CardinalityType
<1>5. CASE l \in MayLoad \ MayLoad'
  <2>1. MayLoad' = MayLoad \ {l}
    BY <1>1, <1>5
  <2>2. QED
    BY <1>2, <1>3, <1>4, <1>5, <2>1
<1>6. CASE l \notin MayLoad \ MayLoad'
  <2>1. MayLoad' = MayLoad
    BY <1>1, <1>6
  <2>2. QED
    BY <1>2, <1>4, <1>6, <2>1
<1>7. QED
  BY <1>5, <1>6

\* Every step but Start, on loader l: pc changes at l alone and does not go back
\* to the beginning.
LEMMA PcStep ==
  ASSUME TypeOK, NEW l \in Loader, Step(l) \/ int_exit(l) \/ Kill(l)
  PROVE  /\ pc' \in [Loader -> {"off", "accessProg", "getProg", "load", "pinProg",
                                "accessMap", "getMap", "findMap", "pinMap",
                                "ifindex", "attach", "report"}]
         /\ \A m \in Loader \ {l} : pc'[m] = pc[m]
         /\ pc[l] \in {"accessProg", "load"} \/ pc'[l] \notin {"accessProg", "load"}
         /\ UNCHANGED <<runs, overlap>>
         /\ refused' \subseteq {"prog", "map"} /\ refused \subseteq refused'
<1> USE DEF TypeOK, runVars
<1>1. CASE \/ AccessProg(l) \/ GetProg(l) \/ GetProgFails(l) \/ Load(l) \/ LoadFails(l)
           \/ PinProg(l) \/ PinProgFails(l)
  BY <1>1 DEF AccessProg, GetProg, GetProgFails, Load, LoadFails, PinProg,
              PinProgFails, Goto, Exit
<1>2. CASE \/ AccessMap(l) \/ GetMap(l) \/ GetMapFails(l) \/ FindMap(l)
           \/ FindMapWild(l) \/ FindMapFaults(l) \/ PinMap(l) \/ PinMapFails(l)
  BY <1>2 DEF AccessMap, GetMap, GetMapFails, FindMap, FindMapWild, FindMapFaults,
              PinMap, PinMapFails, Goto, Exit
<1>3. CASE IfNameToIndex(l) \/ Attach(l) \/ SetupFails(l) \/ int_exit(l) \/ Kill(l)
  BY <1>3 DEF IfNameToIndex, Attach, SetupFails, int_exit, Kill, Goto, Exit
<1>4. QED
  BY <1>1, <1>2, <1>3 DEF Step

\* A program is only loaded in a run that has not loaded yet.
LEMMA LoadsStep ==
  ASSUME TypeInv, NEW l \in Loader, Step(l) \/ int_exit(l) \/ Kill(l)
  PROVE  LoadsBounded' /\ loaded' \in 0..runs'
<1>1. /\ IsFiniteSet(MayLoad') /\ Cardinality(MayLoad') \in Nat
      /\ Cardinality(MayLoad) \in Nat
      /\ Cardinality(MayLoad') <= Cardinality(MayLoad)
      /\ l \in MayLoad \ MayLoad' => Cardinality(MayLoad') = Cardinality(MayLoad) - 1
  <2>1. TypeOK
    BY DEF TypeInv
  <2>2. /\ \A m \in Loader \ {l} : pc'[m] = pc[m]
        /\ pc[l] \in {"accessProg", "load"} \/ pc'[l] \notin {"accessProg", "load"}
    BY <2>1, PcStep
  <2>3. QED
    BY <2>2, MayLoadShrinks
<1>2. runs' = runs /\ runs \in Nat /\ loaded \in Nat
      /\ loaded + Cardinality(MayLoad) <= runs
  BY PcStep, RunsAssumption DEF TypeInv, TypeOK, LoadsBounded
<1>3. CASE Load(l)
  <2>1. l \in MayLoad \ MayLoad' /\ loaded' = loaded + 1
    BY <1>3 DEF Load, Goto, MayLoad, TypeInv, TypeOK
  <2>2. QED
    BY <1>1, <1>2, <2>1 DEF LoadsBounded
<1>4. CASE ~ Load(l)
  <2>1. loaded' = loaded
    BY <1>4 DEF Step, AccessProg, GetProg, GetProgFails, LoadFails, PinProg,
                PinProgFails, AccessMap, GetMap, GetMapFails, FindMap, FindMapWild,
                FindMapFaults, PinMap, PinMapFails, IfNameToIndex, Attach,
                SetupFails, int_exit, Kill, kernelVars
  <2>2. QED
    BY <1>1, <1>2, <2>1 DEF LoadsBounded
<1>5. QED
  BY <1>3, <1>4

LEMMA PinsLoadedStep ==
  ASSUME TypeInv, NEW l \in Loader, Step(l) \/ int_exit(l) \/ Kill(l)
  PROVE  PinsLoaded'
<1> USE DEF TypeInv, TypeOK, PinsLoaded
<1>1. CASE Load(l)
  <2>1. loaded' \in 0..runs' /\ runs' = runs
    BY LoadsStep, PcStep
  <2>2. loaded + 1 \in Object
    BY <1>1, <2>1, RunsAssumption DEF Load, Object
  <2>3. QED
    BY <1>1, <2>2 DEF Load, Goto
<1>2. CASE \/ AccessProg(l) \/ GetProg(l) \/ GetProgFails(l) \/ LoadFails(l)
           \/ PinProg(l) \/ PinProgFails(l)
  BY <1>2 DEF AccessProg, GetProg, GetProgFails, LoadFails, PinProg, PinProgFails,
              Goto, Exit, localVars
<1>3. CASE \/ AccessMap(l) \/ GetMap(l) \/ GetMapFails(l) \/ FindMap(l)
           \/ FindMapWild(l) \/ FindMapFaults(l) \/ PinMap(l) \/ PinMapFails(l)
  BY <1>3 DEF AccessMap, GetMap, GetMapFails, FindMap, FindMapWild, FindMapFaults,
              PinMap, PinMapFails, Goto, Exit, localVars
<1>4. CASE IfNameToIndex(l) \/ Attach(l) \/ SetupFails(l) \/ int_exit(l) \/ Kill(l)
  BY <1>4 DEF IfNameToIndex, Attach, SetupFails, int_exit, Kill, Goto, Exit, localVars
<1>5. QED
  BY <1>1, <1>2, <1>3, <1>4 DEF Step

LEMMA TypeStep ==
  ASSUME TypeInv, [Next]_vars
  PROVE  TypeInv'
<1>1. ASSUME NEW l \in Loader, Start(l)
      PROVE  TypeInv'
  <2>1. MayLoad' = MayLoad \cup {l} /\ l \notin MayLoad
    BY <1>1 DEF Start, Goto, MayLoad, TypeInv, TypeOK
  <2>2. /\ IsFiniteSet(MayLoad') /\ Cardinality(MayLoad) \in Nat
        /\ Cardinality(MayLoad') = Cardinality(MayLoad) + 1
    BY <2>1, FS_AddElement, FS_CardinalityType DEF TypeInv, LoadsBounded
  <2>3. LoadsBounded'
    BY <1>1, <2>2, RunsAssumption DEF Start, kernelVars, TypeInv, TypeOK, LoadsBounded
  <2>4. overlap' \in BOOLEAN
    BY <1>1, Zenon DEF Start, TypeInv, TypeOK
  <2>5. TypeOK'
    BY <1>1, <2>4, RunsAssumption
       DEF Start, Goto, kernelVars, localVars, TypeInv, TypeOK
  <2>6. PinsLoaded'
    BY <1>1 DEF Start, Goto, localVars, TypeInv, TypeOK, PinsLoaded
  <2>7. QED
    BY <2>3, <2>5, <2>6 DEF TypeInv
<1>2. ASSUME NEW l \in Loader, Step(l) \/ int_exit(l) \/ Kill(l)
      PROVE  TypeInv'
  <2>1. LoadsBounded' /\ PinsLoaded' /\ loaded' \in 0..runs'
    BY <1>2, LoadsStep, PinsLoadedStep
  <2>2. /\ pc' \in [Loader -> {"off", "accessProg", "getProg", "load", "pinProg",
                               "accessMap", "getMap", "findMap", "pinMap",
                               "ifindex", "attach", "report"}]
        /\ runs' \in 0..MaxRuns /\ overlap' \in BOOLEAN
        /\ refused' \subseteq {"prog", "map"}
    BY <1>2, PcStep DEF TypeInv, TypeOK
  <2> USE NoObjectAssumption DEF TypeInv, TypeOK
  <2>3. CASE AccessProg(l)
    BY <2>1, <2>2, <2>3 DEF AccessProg, kernelVars, localVars
  <2>4. CASE GetProg(l)
    BY <2>1, <2>2, <2>4 DEF GetProg, kernelVars
  <2>5. CASE Load(l)
    <3>1. loaded + 1 \in Object
      BY <2>1, <2>2, <2>5, RunsAssumption DEF Load, Object
    <3>2. QED
      BY <2>1, <2>2, <2>5, <3>1 DEF Load
  <2>6. CASE PinProg(l)
    BY <2>1, <2>2, <2>6 DEF PinProg, Goto, localVars, PinsLoaded
  <2>7. CASE AccessMap(l)
    BY <2>1, <2>2, <2>7 DEF AccessMap, kernelVars, localVars
  <2>8. CASE GetMap(l)
    BY <2>1, <2>2, <2>8 DEF GetMap, kernelVars
  <2>9. CASE FindMap(l)
    BY <2>1, <2>2, <2>9 DEF FindMap, kernelVars
  <2>10. CASE FindMapWild(l)
    BY <2>1, <2>2, <2>10 DEF FindMapWild, kernelVars
  <2>11. CASE PinMap(l)
    BY <2>1, <2>2, <2>11 DEF PinMap, localVars
  <2>12. CASE IfNameToIndex(l)
    BY <2>1, <2>2, <2>12 DEF IfNameToIndex, kernelVars
  <2>13. CASE Attach(l)
    BY <2>1, <2>2, <2>13 DEF Attach, localVars
  <2>14. CASE /\ Exit(l) /\ UNCHANGED <<prog_pin, map_pin>>
              /\ attached' \in {attached, NONE}
    <3>1. ifindex' \in [Loader -> BOOLEAN]
      BY <2>14 DEF Exit
    <3>2. QED
      BY <2>1, <2>2, <2>14, <3>1 DEF Exit
  <2>15. CASE GetProgFails(l)
    BY <2>1, <2>2, <2>15 DEF GetProgFails, kernelVars
  <2>16. CASE PinProgFails(l)
    BY <2>1, <2>2, <2>16 DEF PinProgFails, kernelVars, localVars
  <2>17. CASE GetMapFails(l)
    BY <2>1, <2>2, <2>17 DEF GetMapFails, kernelVars
  <2>18. CASE PinMapFails(l)
    BY <2>1, <2>2, <2>18 DEF PinMapFails, kernelVars, localVars
  <2>19. QED
    <3>1. CASE LoadFails(l) \/ FindMapFaults(l) \/ SetupFails(l) \/ int_exit(l) \/ Kill(l)
      BY <2>14, <3>1 DEF LoadFails, FindMapFaults, SetupFails, int_exit, Kill, kernelVars
    <3>2. QED
      BY <1>2, <2>3, <2>4, <2>5, <2>6, <2>7, <2>8, <2>9, <2>10, <2>11, <2>12, <2>13,
         <2>15, <2>16, <2>17, <2>18, <3>1 DEF Step
<1>3. CASE UNCHANGED vars
  BY <1>3 DEF vars, kernelVars, runVars, localVars, TypeInv, TypeOK, LoadsBounded, MayLoad,
              PinsLoaded
<1>4. QED
  BY <1>1, <1>2, <1>3 DEF Next

LEMMA TypeInvariant == Spec => []TypeInv
BY TypeInit, TypeStep, PTL DEF Spec

\* The pins, the attachment and every loader's descriptors are programs that were
\* loaded, or nothing; there are never more of them than runs.
THEOREM TypeCorrect == Spec => []TypeOK
<1>1. TypeInv => TypeOK
  BY DEF TypeInv
<1>2. QED
  BY <1>1, TypeInvariant, PTL


------------------------------------------------------------------------------
(* Pins.                                                                   *)

\* Where a loader is past having a program, and past having a map.
HasProg == {"accessMap", "getMap", "findMap", "pinMap", "ifindex", "attach", "report"}
HasMap  == {"ifindex", "attach", "report"}

\* obj is assigned by a load alone; a loader without it, past line 58, holds the
\* pinned program, and past line 92 the pinned map, or negative descriptors.
PinInv ==
  \A l \in Loader :
    /\ pc[l] \in {"off", "accessProg", "getProg", "load"} => obj[l] = NONE
    /\ pc[l] = "getProg" => prog_pin # NONE
    /\ pc[l] = "pinProg" => obj[l] # NONE /\ prog_fd[l] \notin {NONE, BAD}
    /\ pc[l] = "getMap" => map_pin # NONE
    /\ pc[l] \in HasProg => prog_fd[l] # NONE
    /\ pc[l] \in HasProg /\ obj[l] = NONE => prog_pin # NONE /\ prog_fd[l] \in {prog_pin, BAD}
    /\ pc[l] = "pinMap" /\ obj[l] = NONE => map_fd[l] = BAD
    /\ pc[l] \in {"pinMap"} \cup HasMap => map_fd[l] # NONE
    /\ pc[l] \in HasMap /\ obj[l] = NONE => map_fd[l] \in {map_pin, BAD}

LEMMA PinStep ==
  ASSUME TypeInv, PinInv, [Next]_vars
  PROVE  PinInv'
<1> USE NoObjectAssumption DEF TypeInv, TypeOK, PinInv, HasProg, HasMap
<1>1. ASSUME NEW l \in Loader, Start(l)
      PROVE  PinInv'
  BY <1>1 DEF Start, Goto, kernelVars, localVars
<1>2. ASSUME NEW l \in Loader, Step(l) \/ int_exit(l) \/ Kill(l)
      PROVE  PinInv'
  <2>3. CASE AccessProg(l)
    BY <2>3 DEF AccessProg, Goto, kernelVars, localVars
  <2>4. CASE GetProg(l)
    BY <2>4 DEF GetProg, Goto, kernelVars
  <2>5. CASE Load(l)
    <3>1. loaded + 1 \notin {NONE, BAD}
      <4>1. loaded' \in 0..runs' /\ runs' = runs
        BY <2>5, LoadsStep DEF Step, Load, runVars
      <4>2. loaded + 1 \in Object
        BY <2>5, <4>1, RunsAssumption DEF Load, Object
      <4>3. QED
        BY <4>2
    <3>2. QED
      BY <2>5, <3>1 DEF Load, Goto
  <2>6. CASE PinProg(l)
    BY <2>6 DEF PinProg, Goto, localVars
  <2>7. CASE AccessMap(l)
    BY <2>7 DEF AccessMap, Goto, kernelVars, localVars
  <2>8. CASE GetMap(l)
    BY <2>8 DEF GetMap, Goto, kernelVars
  <2>9. CASE FindMap(l)
    BY <2>9 DEF FindMap, Goto, kernelVars
  <2>10. CASE FindMapWild(l)
    BY <2>10 DEF FindMapWild, Goto, kernelVars
  <2>11. CASE PinMap(l)
    BY <2>11 DEF PinMap, Goto, localVars
  <2>12. CASE IfNameToIndex(l)
    BY <2>12 DEF IfNameToIndex, Goto, kernelVars
  <2>13. CASE Attach(l)
    BY <2>13 DEF Attach, Goto, localVars
  <2>14. CASE Exit(l) /\ UNCHANGED <<prog_pin, map_pin>>
    BY <2>14 DEF Exit
  <2>15. CASE GetProgFails(l)
    BY <2>15 DEF GetProgFails, Goto, kernelVars
  <2>16. CASE PinProgFails(l)
    BY <2>16 DEF PinProgFails, Goto, kernelVars, localVars
  <2>17. CASE GetMapFails(l)
    BY <2>17 DEF GetMapFails, Goto, kernelVars
  <2>18. CASE PinMapFails(l)
    BY <2>18 DEF PinMapFails, Goto, kernelVars, localVars
  <2>19. QED
    <3>1. CASE LoadFails(l) \/ FindMapFaults(l) \/ SetupFails(l) \/ int_exit(l) \/ Kill(l)
      BY <2>14, <3>1 DEF LoadFails, FindMapFaults, SetupFails, int_exit, Kill, kernelVars
    <3>2. QED
      BY <1>2, <2>3, <2>4, <2>5, <2>6, <2>7, <2>8, <2>9, <2>10, <2>11, <2>12, <2>13,
         <2>15, <2>16, <2>17, <2>18, <3>1 DEF Step
<1>3. CASE UNCHANGED vars
  BY <1>3 DEF vars, kernelVars, runVars, localVars
<1>4. QED
  BY <1>1, <1>2, <1>3 DEF Next

\* However many loaders race for the pins and are killed meanwhile, one that
\* reused the pinned program reports from the pinned objects.
THEOREM ReuserCorrect == Spec => []ReuserHoldsPins
<1>1. Init => PinInv
  BY DEF Init, PinInv, HasProg, HasMap
<1>2. PinInv => ReuserHoldsPins
  BY DEF PinInv, ReuserHoldsPins, HasProg, HasMap
<1>3. QED
  BY <1>1, <1>2, TypeInvariant, PinStep, PTL DEF Spec


------------------------------------------------------------------------------
(* One loader at a time, killed and restarted.                             *)

\* What a single loader holds at each point, and what its predecessors left.
LoneLoader(l) ==
  /\ pc[l] \in {"load", "pinProg"} => prog_pin = NONE
  /\ pc[l] = "pinProg" => obj[l] = prog_fd[l]
  /\ pc[l] \in HasProg => /\ prog_pin # NONE
                         /\ prog_fd[l] \in {prog_pin, BAD} /\ obj[l] \in {prog_pin, NONE}
  /\ pc[l] \in {"findMap", "pinMap"} => map_pin = NONE
  /\ pc[l] \in {"pinMap"} \cup HasMap => map_fd[l] \in {prog_pin, BAD}
  /\ pc[l] \in HasMap /\ "map" \notin refused => map_fd[l] \in {map_pin, BAD}
  /\ pc[l] = "report" => attached = IF prog_fd[l] = BAD THEN NONE ELSE prog_fd[l]

LoneInv ==
  ~overlap /\ "prog" \notin refused =>
              /\ \A l, m \in Loader : pc[l] # "off" /\ pc[m] # "off" => l = m
              /\ map_pin # NONE => map_pin = prog_pin
              /\ \A l \in Loader : LoneLoader(l)

LEMMA LoneStep ==
  ASSUME TypeInv, PinInv, LoneInv, [Next]_vars
  PROVE  LoneInv'
<1> SUFFICES ASSUME ~overlap', "prog" \notin refused' PROVE LoneInv'
  BY DEF LoneInv
<1> USE NoObjectAssumption
    DEF TypeInv, TypeOK, PinInv, LoneInv, LoneLoader, HasProg, HasMap
<1>1. ASSUME NEW l \in Loader, Start(l)
      PROVE  LoneInv'
  <2>1. ~overlap /\ "prog" \notin refused /\ \A m \in Loader : pc[m] = "off"
    BY <1>1 DEF Start
  <2>2. QED
    BY <1>1, <2>1 DEF Start, Goto, kernelVars, localVars
<1>2. ASSUME NEW l \in Loader, Step(l) \/ int_exit(l) \/ Kill(l)
      PROVE  LoneInv'
  <2>1. ~overlap /\ "prog" \notin refused /\ refused \subseteq refused'
    BY <1>2, PcStep
  <2>2. \A m \in Loader \ {l} : pc[m] = "off"
    <3>1. pc[l] # "off"
      BY <1>2 DEF Step, AccessProg, GetProg, GetProgFails, Load, LoadFails,
                  PinProg, PinProgFails, AccessMap, GetMap, GetMapFails, FindMap,
                  FindMapWild, FindMapFaults, PinMap, PinMapFails, IfNameToIndex,
                  Attach, SetupFails, int_exit, Kill, Goto
    <3>2. QED
      BY <2>1, <3>1
  <2>3. CASE AccessProg(l)
    BY <2>1, <2>2, <2>3 DEF AccessProg, Goto, kernelVars, localVars
  <2>4. CASE GetProg(l)
    BY <2>1, <2>2, <2>4 DEF GetProg, Goto, kernelVars
  <2>5. CASE Load(l)
    BY <2>1, <2>2, <2>5 DEF Load, Goto
  <2>6. CASE PinProg(l)
    BY <2>1, <2>2, <2>6 DEF PinProg, Goto, localVars
  <2>7. CASE AccessMap(l)
    BY <2>1, <2>2, <2>7 DEF AccessMap, Goto, kernelVars, localVars
  <2>8. CASE GetMap(l)
    BY <2>1, <2>2, <2>8 DEF GetMap, Goto, kernelVars
  <2>9. CASE FindMap(l)
    BY <2>1, <2>2, <2>9 DEF FindMap, Goto, kernelVars
  <2>10. CASE FindMapWild(l)
    BY <2>1, <2>2, <2>10 DEF FindMapWild, Goto, kernelVars
  <2>11. CASE PinMap(l)
    BY <2>1, <2>2, <2>11 DEF PinMap, Goto, localVars
  <2>12. CASE IfNameToIndex(l)
    BY <2>1, <2>2, <2>12 DEF IfNameToIndex, Goto, kernelVars
  <2>13. CASE Attach(l)
    BY <2>1, <2>2, <2>13 DEF Attach, Goto, localVars
  <2>14. CASE Exit(l) /\ UNCHANGED <<prog_pin, map_pin>>
    BY <2>1, <2>2, <2>14 DEF Exit
  <2>15. CASE GetProgFails(l)
    BY <2>1, <2>2, <2>15 DEF GetProgFails, Goto, kernelVars
  <2>16. CASE PinProgFails(l)
    BY <2>1, <2>2, <2>16 DEF PinProgFails, Goto, kernelVars, localVars
  <2>17. CASE GetMapFails(l)
    BY <2>1, <2>2, <2>17 DEF GetMapFails, Goto, kernelVars
  <2>18. CASE PinMapFails(l)
    BY <2>1, <2>2, <2>18 DEF PinMapFails, Goto, kernelVars, localVars
  <2>19. QED
    <3>1. CASE LoadFails(l) \/ FindMapFaults(l) \/ SetupFails(l) \/ int_exit(l) \/ Kill(l)
      BY <2>14, <3>1 DEF LoadFails, FindMapFaults, SetupFails, int_exit, Kill, kernelVars
    <3>2. QED
      BY <1>2, <2>3, <2>4, <2>5, <2>6, <2>7, <2>8, <2>9, <2>10, <2>11, <2>12, <2>13,
         <2>15, <2>16, <2>17, <2>18, <3>1 DEF Step
<1>3. CASE UNCHANGED vars
  BY <1>3 DEF vars, kernelVars, runVars, localVars
<1>4. QED
  BY <1>1, <1>2, <1>3 DEF Next

LEMMA LoneInvariant == Spec => [](LoneInv /\ PinInv)
<1>1. Init => LoneInv /\ PinInv
  BY DEF Init, LoneInv, LoneLoader, PinInv, HasProg, HasMap
<1>2. QED
  BY <1>1, TypeInvariant, PinStep, LoneStep, PTL DEF Spec

\* With one loader at a time, killed and restarted anywhere (also between the two
\* pins), a program and a map that are both pinned belong together, unless a pin
\* of a program was refused (line 72 goes on regardless).
THEOREM PinsBelongTogether == Spec => []PinsAgree
<1>1. LoneInv => PinsAgree
  BY DEF LoneInv, PinsAgree
<1>2. QED
  BY <1>1, LoneInvariant, PTL

\* With one loader at a time and no refused pin of a program, a loader that reports
\* has its program on the hook and reads the pinned map of that program, or holds
\* no valid map, or no valid program and the hook is empty.
THEOREM ReportsAttached == Spec => []ReportsOnAttached
<1>1. LoneInv => ReportsOnAttached
  BY DEF LoneInv, LoneLoader, ReportsOnAttached, HasProg, HasMap
<1>2. QED
  BY <1>1, LoneInvariant, PTL

=============================================================================
