--------------------------- MODULE RolloutProofs ----------------------------
(***************************************************************************)
(* What a rollout promises, for any number of rollouts, ports, failed      *)
(* docker calls, crashes and shutdowns.                                    *)
(***************************************************************************)
EXTENDS Rollout, TLAPS

Pc == {"idle", "clean", "inspect", "vacate", "ports", "run", "discard", "connect", "verify",
       "retire", "rename", "abort"}

RunType == [pc : Pc, ver : Version \cup {NoCont}, live : BOOLEAN, exclusive : BOOLEAN,
            hadPrev : BOOLEAN, prev : Version \cup {NoCont}, held : Port \cup {NoPort},
            left : SUBSET Port, again : BOOLEAN, out : {"none", "ok", "failed"}, kept : BOOLEAN]

\* The parts of TypeOK.
HostOK == cont \in [Name -> Version \cup {NoCont}] /\ port \in [Name -> Port \cup {NoPort}]
CountOK ==
    /\ started \in 0..MaxRollout /\ verified \subseteq Version /\ served \subseteq Version
    /\ faults \in 0..MaxFaults /\ stops \in 0..MaxStops
PcOK ==
    /\ run.pc = "vacate" => run.exclusive
    /\ run.pc = "retire" => run.hadPrev
    /\ run.pc \in {"connect", "verify", "retire", "rename", "abort"} => cont["next"] = run.ver

\* No docker call has failed, and no worker was stopped.
Faultless == faults = MaxFaults /\ stops = MaxStops

\* A rollout in progress has a version, and the container it may hand the
\* production name to is its own and has been verified.
Progress ==
    /\ run.pc # "idle" => run.ver \in Version
    /\ run.pc # "idle" /\ stops = MaxStops => run.live
    /\ run.pc \in {"retire", "rename"} => run.ver \in verified

\* What the rollout knows of the old container is true until it removes it.
OldKnown ==
    /\ run.pc \in {"clean", "inspect"} => cont["final"] = run.prev /\ ~run.hadPrev
    /\ run.pc \notin {"idle", "rename"} /\ run.hadPrev => run.prev # NoCont /\ cont["final"] = run.prev

\* While nothing has failed, a project without fixed ports keeps its container
\* until it is retired, and the rename finds the production name free.
OldUntouched ==
    Faultless /\ ~run.exclusive /\ run.pc # "idle" =>
       /\ run.pc # "rename" => cont["final"] = run.prev
       /\ run.pc \notin {"clean", "inspect", "rename"} /\ ~run.hadPrev => cont["final"] = NoCont
       /\ run.pc = "rename" => cont["final"] = NoCont

\* Whatever fails, the container it began with keeps its name until it is retired.
OldStays ==
    ~run.exclusive /\ run.prev # NoCont /\ run.pc \notin {"idle", "rename"} => cont["final"] = run.prev

Inv ==
    /\ HostOK /\ run \in RunType /\ CountOK /\ PcOK
    /\ Progress /\ OldKnown /\ OldUntouched /\ OldStays
    /\ OnlyVerifiedServes /\ KeptIsServing /\ FailureLeavesOld

-----------------------------------------------------------------------------
(* Docker calls and steps of the rollout.                                  *)

LEMMA InvType == Inv => TypeOK
BY DEF Inv, TypeOK, HostOK, CountOK, PcOK, RunType, Pc

\* A call that succeeds leaves the count of faults; one that fails shows.
LEMMA OkMeans == Ok => run.live /\ faults' = faults
BY DEF Ok

LEMMA FailsMeans ==
    ASSUME Inv, Fails, run.pc # "idle", UNCHANGED stops
    PROVE  faults' \in 0..MaxFaults /\ ~Faultless'
BY RolloutAssumption DEF Inv, CountOK, Progress, Fails, Faultless

LEMMA RemoveMeans ==
    ASSUME HostOK, NEW name \in Name, Remove(name)
    PROVE  /\ HostOK' /\ cont'[name] = NoCont
           /\ \A other \in Name \ {name} : cont'[other] = cont[other]
BY DEF HostOK, Remove

\* What the steps of one rollout leave alone.
SameRun ==
    /\ run'.ver = run.ver /\ run'.live = run.live /\ run'.exclusive = run.exclusive /\ run'.prev = run.prev

LEMMA ToMeans ==
    ASSUME run \in RunType, NEW pc \in Pc, To(pc)
    PROVE  run' \in RunType /\ run'.pc = pc /\ run'.hadPrev = run.hadPrev /\ SameRun
BY DEF RunType, To, SameRun

LEMMA EndsMeans ==
    ASSUME run \in RunType, NEW out \in {"ok", "failed"}, NEW kept \in BOOLEAN, Ends(out, kept)
    PROVE  run' \in RunType /\ run'.pc = "idle" /\ run'.out = out /\ run'.kept = kept /\ SameRun
BY DEF RunType, Ends, SameRun, Pc

LEMMA StayCounts ==
    ASSUME CountOK, Stay, faults' \in 0..MaxFaults
    PROVE  CountOK' /\ stops' = stops /\ verified' = verified
BY DEF CountOK, Stay

-----------------------------------------------------------------------------
LEMMA InitInv == Init => Inv
<1> SUFFICES ASSUME Init PROVE Inv
  OBVIOUS
<1>1. run \in RunType /\ run.pc = "idle" /\ run.out = "none" /\ ~run.kept /\ run.prev = NoCont
  BY DEF Init, Idle, RunType, Pc, NoCont, NoPort
<1>2. HostOK /\ CountOK
  BY RolloutAssumption DEF Init, HostOK, CountOK, Name, NoCont, NoPort
<1>3. cont["final"] = NoCont
  BY DEF Init, Name
<1> QED
  BY <1>1, <1>2, <1>3 DEF Inv, PcOK, Progress, OldKnown, OldUntouched, OldStays, OnlyVerifiedServes, KeptIsServing,
     FailureLeavesOld

LEMMA NextInv == Inv /\ [Next]_vars => Inv'
<1> SUFFICES ASSUME Inv, [Next]_vars PROVE Inv'
  OBVIOUS
<1>0. HostOK /\ run \in RunType /\ CountOK /\ "final" \in Name /\ "next" \in Name /\ "final" # "next"
  BY DEF Inv, Name
<1>1. ASSUME NEW exclusive \in Exclusive, Begin(exclusive) PROVE Inv'
  <2>1. started + 1 \in Version /\ exclusive \in BOOLEAN /\ cont["final"] \in Version \cup {NoCont}
    BY <1>0, <1>1, RolloutAssumption DEF Begin, CountOK, HostOK, Version
  <2>2. /\ run' \in RunType /\ run'.pc = "clean" /\ run'.ver = started + 1 /\ run'.live /\ ~run'.hadPrev
        /\ run'.prev = cont["final"] /\ run'.out = "none" /\ ~run'.kept
    BY <1>1, <2>1 DEF Begin, Idle, RunType, Pc
  <2>3. HostOK' /\ CountOK' /\ UNCHANGED <<cont, verified>>
    BY <1>0, <1>1, RolloutAssumption DEF Begin, HostOK, CountOK
  <2> QED
    BY <2>1, <2>2, <2>3 DEF Inv, PcOK, Progress, OldKnown, OldUntouched, OldStays, Faultless, OnlyVerifiedServes,
       KeptIsServing, FailureLeavesOld, SameRun
<1>2. CASE Clean
  <2>1. run.pc = "clean" /\ run' \in RunType /\ run'.pc = "inspect" /\ run'.hadPrev = run.hadPrev /\ SameRun
    BY <1>0, <1>2, ToMeans DEF Clean, Pc
  <2>2. HostOK' /\ cont'["final"] = cont["final"]
    BY <1>0, <1>2, RemoveMeans DEF Clean, Rm, host, HostOK
  <2>3. faults' \in 0..MaxFaults /\ (Faultless' => Faultless)
    BY <1>0, <1>2, <2>1, FailsMeans, OkMeans DEF Clean, Rm, Stay, Faultless, CountOK
  <2>4. CountOK' /\ stops' = stops /\ verified' = verified
    BY <1>0, <1>2, <2>3, StayCounts DEF Clean
  <2> QED
    BY <2>1, <2>2, <2>3, <2>4 DEF Inv, PcOK, Progress, OldKnown, OldUntouched, OldStays, Faultless, OnlyVerifiedServes,
       KeptIsServing, FailureLeavesOld, SameRun
<1>3. CASE Inspect
  <2>1. run.pc = "inspect" /\ HostOK' /\ UNCHANGED cont
    BY <1>0, <1>3 DEF Inspect, host, HostOK
  <2>2. CASE Ok /\ run' = [run EXCEPT !.hadPrev = cont["final"] # NoCont,
                  !.pc = IF cont["final"] = NoCont THEN "run" ELSE IF run.exclusive THEN "vacate" ELSE "ports"]
    <3>1. faults' = faults /\ CountOK' /\ stops' = stops /\ verified' = verified
      BY <1>0, <1>3, <2>2, OkMeans, StayCounts DEF Inspect, CountOK
    <3>2. CASE cont["final"] = NoCont
      <4>1. run' = [run EXCEPT !.hadPrev = FALSE, !.pc = "run"]
        BY <2>2, <3>2
      <4>2. run' \in RunType /\ run'.pc = "run" /\ ~run'.hadPrev /\ SameRun
        BY <1>0, <4>1 DEF RunType, SameRun, Pc
      <4> QED
        BY <2>1, <3>1, <3>2, <4>2 DEF Inv, PcOK, Progress, OldKnown, OldUntouched, OldStays, Faultless, OnlyVerifiedServes,
       KeptIsServing, FailureLeavesOld, SameRun
    <3>3. CASE cont["final"] # NoCont
      <4> DEFINE pc == IF run.exclusive THEN "vacate" ELSE "ports"
      <4>1. run' = [run EXCEPT !.hadPrev = TRUE, !.pc = pc]
        BY <2>2, <3>3
      <4>2. run' \in RunType /\ run'.pc = pc /\ run'.hadPrev /\ SameRun
        BY <1>0, <4>1 DEF RunType, SameRun, Pc
      <4> QED
        BY <2>1, <3>1, <3>3, <4>2 DEF Inv, PcOK, Progress, OldKnown, OldUntouched, OldStays, Faultless, OnlyVerifiedServes,
       KeptIsServing, FailureLeavesOld, SameRun
    <3> QED
      BY <3>2, <3>3
  <2>3. CASE Fails /\ To("run")
    <3>1. faults' \in 0..MaxFaults /\ ~Faultless'
      BY <1>3, <2>1, <2>3, FailsMeans DEF Inspect, Stay
    <3>2. run' \in RunType /\ run'.pc = "run" /\ run'.hadPrev = run.hadPrev /\ SameRun
      BY <1>0, <2>3, ToMeans DEF Pc
    <3>3. CountOK' /\ stops' = stops /\ verified' = verified
      BY <1>0, <1>3, <3>1, StayCounts DEF Inspect
    <3> QED
      BY <2>1, <3>1, <3>2, <3>3 DEF Inv, PcOK, Progress, OldKnown, OldUntouched, OldStays, Faultless, OnlyVerifiedServes,
       KeptIsServing, FailureLeavesOld, SameRun
  <2> QED
    BY <1>3, <2>2, <2>3 DEF Inspect
<1>4. CASE Vacate
  <2>1. run.pc = "vacate" /\ run.exclusive /\ run' \in RunType /\ run'.pc = "run" /\ ~run'.hadPrev /\ SameRun
    BY <1>0, <1>4 DEF Vacate, RunType, Pc, SameRun, Inv, PcOK
  <2>2. HostOK' /\ (cont'["final"] = NoCont \/ cont'["final"] = cont["final"])
    BY <1>0, <1>4, RemoveMeans DEF Vacate, Rm, host, HostOK
  <2>3. faults' \in 0..MaxFaults
    BY <1>0, <1>4, <2>1, FailsMeans, OkMeans DEF Vacate, Rm, Stay, CountOK
  <2>4. CountOK' /\ stops' = stops /\ verified' = verified
    BY <1>0, <1>4, <2>3, StayCounts DEF Vacate
  <2> QED
    BY <2>1, <2>2, <2>4 DEF Inv, PcOK, Progress, OldKnown, OldUntouched, OldStays, Faultless, OnlyVerifiedServes,
       KeptIsServing, FailureLeavesOld, SameRun
<1>5. CASE Ports
  <2>1. run.pc = "ports" /\ HostOK' /\ UNCHANGED cont /\ port["final"] \in Port \cup {NoPort}
    BY <1>0, <1>5 DEF Ports, host, HostOK
  <2>2. run' \in RunType /\ run'.pc = "run" /\ run'.hadPrev = run.hadPrev /\ SameRun
    <3>1. CASE run' = [run EXCEPT !.pc = "run", !.held = port["final"]]
      BY <1>0, <2>1, <3>1 DEF RunType, SameRun, Pc
    <3>2. CASE To("run")
      BY <1>0, <3>2, ToMeans DEF Pc
    <3> QED
      BY <1>5, <3>1, <3>2 DEF Ports
  <2>3. faults' \in 0..MaxFaults /\ (Faultless' => Faultless)
    BY <1>0, <1>5, <2>1, FailsMeans, OkMeans DEF Ports, Stay, Faultless, CountOK
  <2>4. CountOK' /\ stops' = stops /\ verified' = verified
    BY <1>0, <1>5, <2>3, StayCounts DEF Ports
  <2> QED
    BY <2>1, <2>2, <2>3, <2>4 DEF Inv, PcOK, Progress, OldKnown, OldUntouched, OldStays, Faultless, OnlyVerifiedServes,
       KeptIsServing, FailureLeavesOld, SameRun
<1>6. CASE RunCandidate
  <2>1. run.pc = "run" /\ Stay
    BY <1>6 DEF RunCandidate
  <2>2. PICK p \in run.left :
          \/ /\ Ok /\ cont' = [cont EXCEPT !["next"] = run.ver]
             /\ \/ port' = [port EXCEPT !["next"] = p] /\ To("connect")
                \/ /\ run' = [run EXCEPT !.pc = "discard", !.left = run.left \ {p}, !.again = TRUE]
                   /\ UNCHANGED port
          \/ /\ Fails \/ Ok
             /\ run' = [run EXCEPT !.pc = "discard", !.again = FALSE]
             /\ UNCHANGED host
    BY <1>0, <1>6 DEF RunCandidate, RunType
  <2>3. run.ver \in Version /\ p \in Port
    BY <1>0, <2>1, <2>2 DEF Inv, Progress, RunType
  <2>4. HostOK' /\ cont'["final"] = cont["final"]
    BY <1>0, <2>2, <2>3 DEF HostOK, host
  <2>5. /\ run' \in RunType /\ run'.hadPrev = run.hadPrev /\ SameRun
        /\ run'.pc = "discard" \/ (run'.pc = "connect" /\ cont'["next"] = run.ver)
    <3>1. CASE cont' = [cont EXCEPT !["next"] = run.ver] /\ To("connect")
      <4>1. cont'["next"] = run.ver
        BY <1>0, <3>1 DEF HostOK
      <4> QED
        BY <1>0, <3>1, <4>1, ToMeans DEF Pc
    <3>2. CASE run' = [run EXCEPT !.pc = "discard", !.left = run.left \ {p}, !.again = TRUE]
      BY <1>0, <3>2 DEF RunType, SameRun, Pc
    <3>3. CASE run' = [run EXCEPT !.pc = "discard", !.again = FALSE]
      BY <1>0, <3>3 DEF RunType, SameRun, Pc
    <3> QED
      BY <2>2, <3>1, <3>2, <3>3
  <2>6. faults' \in 0..MaxFaults /\ (Faultless' => Faultless)
    BY <1>0, <2>1, <2>2, FailsMeans, OkMeans DEF Stay, Faultless, CountOK
  <2>7. CountOK' /\ stops' = stops /\ verified' = verified
    BY <1>0, <2>1, <2>6, StayCounts
  <2> QED
    BY <2>1, <2>4, <2>5, <2>6, <2>7 DEF Inv, PcOK, Progress, OldKnown, OldUntouched, OldStays, Faultless, OnlyVerifiedServes,
       KeptIsServing, FailureLeavesOld, SameRun
<1>7. CASE Discard
  <2>1. run.pc = "discard" /\ run.hadPrev \in BOOLEAN
    BY <1>0, <1>7 DEF Discard, RunType
  <2>2. /\ run' \in RunType /\ SameRun
        /\ \/ run'.pc = "run" /\ run'.hadPrev = run.hadPrev
           \/ run'.pc = "idle" /\ run'.out = "failed" /\ run'.kept = run.hadPrev
    BY <1>0, <1>7, <2>1, ToMeans, EndsMeans DEF Discard, Pc
  <2>3. HostOK' /\ cont'["final"] = cont["final"]
    BY <1>0, <1>7, RemoveMeans DEF Discard, Rm, host, HostOK
  <2>4. faults' \in 0..MaxFaults /\ (Faultless' => Faultless)
    BY <1>0, <1>7, <2>1, FailsMeans, OkMeans DEF Discard, Rm, Stay, Faultless, CountOK
  <2>5. CountOK' /\ stops' = stops /\ verified' = verified
    BY <1>0, <1>7, <2>4, StayCounts DEF Discard
  <2> QED
    BY <2>1, <2>2, <2>3, <2>4, <2>5 DEF Inv, PcOK, Progress, OldKnown, OldUntouched, OldStays, Faultless, OnlyVerifiedServes,
       KeptIsServing, FailureLeavesOld, SameRun
<1>8. CASE NoPortLeft
  <2>1. run.pc = "run" /\ run.hadPrev \in BOOLEAN
    BY <1>0, <1>8 DEF NoPortLeft, RunType
  <2>2. run' \in RunType /\ SameRun /\ run'.pc = "idle" /\ run'.out = "failed" /\ run'.kept = run.hadPrev
    BY <1>0, <1>8, <2>1, EndsMeans DEF NoPortLeft
  <2>3. HostOK' /\ CountOK' /\ UNCHANGED <<cont, verified, faults, stops>>
    BY <1>0, <1>8 DEF NoPortLeft, Stay, HostOK, CountOK
  <2> QED
    BY <2>1, <2>2, <2>3 DEF Inv, PcOK, Progress, OldKnown, OldUntouched, OldStays, Faultless, OnlyVerifiedServes,
       KeptIsServing, FailureLeavesOld, SameRun
<1>9. CASE Connect
  <2>1. run.pc = "connect" /\ run' \in RunType /\ run'.pc = "verify" /\ run'.hadPrev = run.hadPrev /\ SameRun
    BY <1>0, <1>9, ToMeans DEF Connect, Pc
  <2>2. HostOK' /\ UNCHANGED cont
    BY <1>0, <1>9 DEF Connect, host, HostOK
  <2>3. faults' \in 0..MaxFaults /\ (Faultless' => Faultless)
    BY <1>0, <1>9, <2>1, FailsMeans, OkMeans DEF Connect, Stay, Faultless, CountOK
  <2>4. CountOK' /\ stops' = stops /\ verified' = verified
    BY <1>0, <1>9, <2>3, StayCounts DEF Connect
  <2> QED
    BY <2>1, <2>2, <2>3, <2>4 DEF Inv, PcOK, Progress, OldKnown, OldUntouched, OldStays, Faultless, OnlyVerifiedServes,
       KeptIsServing, FailureLeavesOld, SameRun
<1>10. CASE Verify
  <2>1. run.pc = "verify" /\ run.ver \in Version
    BY <1>10 DEF Verify, Inv, Progress
  <2>2. HostOK' /\ CountOK' /\ UNCHANGED <<cont, faults, stops>>
    BY <1>0, <1>10, <2>1 DEF Verify, HostOK, CountOK
  <2>3. /\ run' \in RunType /\ run'.hadPrev = run.hadPrev /\ SameRun
        /\ \/ /\ run'.pc = (IF run.hadPrev THEN "retire" ELSE "rename")
              /\ verified' = verified \cup {run.ver}
           \/ run'.pc = "abort" /\ verified' = verified
    BY <1>0, <1>10, ToMeans DEF Verify, Pc
  <2> QED
    BY <2>1, <2>2, <2>3 DEF Inv, PcOK, Progress, OldKnown, OldUntouched, OldStays, Faultless, OnlyVerifiedServes,
       KeptIsServing, FailureLeavesOld, SameRun
<1>11. CASE Retire
  <2>1. run.pc = "retire" /\ Stay
    BY <1>11 DEF Retire
  <2>2. CASE Rm("final") /\ To("rename")
    <3>1. run' \in RunType /\ run'.pc = "rename" /\ run'.hadPrev = run.hadPrev /\ SameRun
      BY <1>0, <2>2, ToMeans DEF Pc
    <3>2. HostOK' /\ cont'["final"] = NoCont /\ cont'["next"] = cont["next"]
      BY <1>0, <2>2, RemoveMeans DEF Rm
    <3>3. faults' = faults /\ CountOK' /\ stops' = stops /\ verified' = verified
      BY <1>0, <2>1, <2>2, OkMeans, StayCounts DEF Rm, CountOK
    <3> QED
      BY <2>1, <3>1, <3>2, <3>3 DEF Inv, PcOK, Progress, OldKnown, OldUntouched, OldStays, Faultless, OnlyVerifiedServes,
       KeptIsServing, FailureLeavesOld, SameRun
  <2>3. CASE Fails /\ UNCHANGED host /\ To("abort")
    <3>1. run' \in RunType /\ run'.pc = "abort" /\ run'.hadPrev = run.hadPrev /\ SameRun
      BY <1>0, <2>3, ToMeans DEF Pc
    <3>2. faults' \in 0..MaxFaults /\ ~Faultless'
      BY <2>1, <2>3, FailsMeans DEF Stay
    <3>3. HostOK' /\ UNCHANGED cont
      BY <1>0, <2>3 DEF host, HostOK
    <3>4. CountOK' /\ stops' = stops /\ verified' = verified
      BY <1>0, <2>1, <3>2, StayCounts
    <3> QED
      BY <2>1, <3>1, <3>2, <3>3, <3>4 DEF Inv, PcOK, Progress, OldKnown, OldUntouched, OldStays, Faultless, OnlyVerifiedServes,
       KeptIsServing, FailureLeavesOld, SameRun
  <2> QED
    BY <1>11, <2>2, <2>3 DEF Retire
<1>12. CASE Rename
  <2>1. run.pc = "rename" /\ cont["next"] = run.ver /\ run.ver \in verified /\ run.ver \in Version
    BY <1>12 DEF Rename, Inv, PcOK, Progress
  <2>2. CASE cont["final"] = NoCont /\ Ok /\ Ends("ok", FALSE)
             /\ served' = served \cup {cont["next"]}
             /\ cont' = [cont EXCEPT !["final"] = cont["next"], !["next"] = NoCont]
             /\ port' = [port EXCEPT !["final"] = port["next"], !["next"] = NoPort]
    <3>1. run' \in RunType /\ SameRun /\ run'.pc = "idle" /\ run'.out = "ok" /\ run'.kept = FALSE
      BY <1>0, <2>2, EndsMeans
    <3>2. HostOK' /\ cont'["final"] = run.ver
      BY <1>0, <2>1, <2>2 DEF HostOK
    <3>3. CountOK' /\ verified' = verified
      BY <1>0, <1>12, <2>1, <2>2, OkMeans DEF Rename, CountOK
    <3> QED
      BY <2>1, <3>1, <3>2, <3>3 DEF Inv, PcOK, Progress, OldKnown, OldUntouched, OldStays, Faultless, OnlyVerifiedServes,
       KeptIsServing, FailureLeavesOld, SameRun
  <2>3. CASE (Fails \/ (Ok /\ cont["final"] # NoCont)) /\ Ends("failed", FALSE) /\ UNCHANGED <<cont, port, served>>
    <3>1. run' \in RunType /\ SameRun /\ run'.pc = "idle" /\ run'.out = "failed" /\ run'.kept = FALSE
      BY <1>0, <2>3, EndsMeans
    <3>2. stops' = stops /\ verified' = verified /\ started' = started
      BY <1>12 DEF Rename
    <3>3. faults' \in 0..MaxFaults /\ (Faultless' => Faultless /\ cont["final"] # NoCont)
      BY <1>0, <2>1, <2>3, <3>2, FailsMeans, OkMeans DEF Faultless, CountOK
    <3>4. HostOK' /\ CountOK'
      BY <1>0, <2>3, <3>2, <3>3 DEF HostOK, CountOK
    <3> QED
      BY <2>1, <2>3, <3>1, <3>2, <3>3, <3>4 DEF Inv, PcOK, Progress, OldKnown, OldUntouched, OldStays, Faultless, OnlyVerifiedServes,
       KeptIsServing, FailureLeavesOld, SameRun
  <2> QED
    BY <1>12, <2>2, <2>3 DEF Rename
<1>13. CASE Abort
  <2>1. run.pc = "abort" /\ run.hadPrev \in BOOLEAN
    BY <1>0, <1>13 DEF Abort, RunType
  <2>2. run' \in RunType /\ SameRun /\ run'.pc = "idle" /\ run'.out = "failed" /\ run'.kept = run.hadPrev
    BY <1>0, <1>13, <2>1, EndsMeans DEF Abort
  <2>3. HostOK' /\ cont'["final"] = cont["final"]
    BY <1>0, <1>13, RemoveMeans DEF Abort, Rm, host, HostOK
  <2>4. faults' \in 0..MaxFaults /\ (Faultless' => Faultless)
    BY <1>0, <1>13, <2>1, FailsMeans, OkMeans DEF Abort, Rm, Stay, Faultless, CountOK
  <2>5. CountOK' /\ stops' = stops /\ verified' = verified
    BY <1>0, <1>13, <2>4, StayCounts DEF Abort
  <2> QED
    BY <2>1, <2>2, <2>3, <2>4, <2>5 DEF Inv, PcOK, Progress, OldKnown, OldUntouched, OldStays, Faultless, OnlyVerifiedServes,
       KeptIsServing, FailureLeavesOld, SameRun
<1>14. CASE Crash
  <2>1. run' \in RunType /\ run'.pc = "idle" /\ run'.out = "none" /\ ~run'.kept /\ run'.prev = NoCont
    BY <1>14 DEF Crash, Idle, RunType, Pc
  <2>2. HostOK' /\ CountOK' /\ UNCHANGED <<cont, verified>>
    BY <1>0, <1>14, RolloutAssumption DEF Crash, HostOK, CountOK
  <2> QED
    BY <2>1, <2>2 DEF Inv, PcOK, Progress, OldKnown, OldUntouched, OldStays, Faultless, OnlyVerifiedServes,
       KeptIsServing, FailureLeavesOld, SameRun
<1>15. CASE Shutdown
  <2>1. /\ run.pc # "idle" /\ run' \in RunType /\ run'.pc = run.pc /\ run'.hadPrev = run.hadPrev
        /\ run'.ver = run.ver /\ run'.exclusive = run.exclusive /\ run'.prev = run.prev
    BY <1>0, <1>15 DEF Shutdown, RunType
  <2>2. HostOK' /\ CountOK' /\ UNCHANGED <<cont, verified>> /\ stops' # MaxStops
    BY <1>0, <1>15, RolloutAssumption DEF Shutdown, HostOK, CountOK
  <2> QED
    BY <2>1, <2>2 DEF Inv, PcOK, Progress, OldKnown, OldUntouched, OldStays, Faultless, OnlyVerifiedServes,
       KeptIsServing, FailureLeavesOld, SameRun
<1>16. CASE UNCHANGED vars
  BY <1>16 DEF vars, Inv, HostOK, CountOK, PcOK, Progress, OldKnown, OldUntouched, OldStays, Faultless,
     OnlyVerifiedServes, KeptIsServing, FailureLeavesOld
<1> QED
  BY <1>1, <1>2, <1>3, <1>4, <1>5, <1>6, <1>7, <1>8, <1>9, <1>10, <1>11, <1>12, <1>13, <1>14, <1>15, <1>16
     DEF Next, Rest

-----------------------------------------------------------------------------
(* The theorems.                                                           *)

LEMMA AlwaysInv == Spec => []Inv
BY InitInv, NextInv, PTL DEF Spec

\* Every state of a rollout is type correct, and each step finds the candidate
\* and the old container the steps before it left.
THEOREM RolloutTypeCorrect == Spec => []TypeOK
BY InvType, AlwaysInv, PTL

\* Whatever docker calls fail and whenever the worker dies, the production
\* name is only ever held by a version that passed verify.
THEOREM VerifiedServes == Spec => []OnlyVerifiedServes
<1>1. Inv => OnlyVerifiedServes
  BY DEF Inv
<1> QED
  BY <1>1, AlwaysInv, PTL

\* "The previous deployment keeps serving traffic" is said only when it does.
THEOREM KeptServes == Spec => []KeptIsServing
<1>1. Inv => KeptIsServing
  BY DEF Inv
<1> QED
  BY <1>1, AlwaysInv, PTL

\* A rollout of a project without fixed ports that begins with a version in production
\* never leaves none, wherever execute fails or the process dies; and when it fails for
\* a reason other than docker or a stop, the old container is as it was.
THEOREM FailureHarmless == Spec => []FailureLeavesOld
<1>1. Inv => FailureLeavesOld
  BY DEF Inv
<1> QED
  BY <1>1, AlwaysInv, PTL

\* Unless the project publishes fixed ports, the old container is removed only
\* once its successor runs and has been verified.
THEOREM OldKept == Spec => OldKeptUntilVerified
<1> DEFINE Safe == cont["final"] # NoCont /\ cont'["final"] = NoCont /\ ~run.exclusive
                     => cont["next"] = run.ver /\ run.ver \in verified
<1>1. ASSUME Inv, Next PROVE Safe
  <2>0. HostOK /\ "final" \in Name /\ "next" \in Name /\ "final" # "next" /\ CountOK
    BY <1>1 DEF Inv, Name
  <2>1. CASE cont'["final"] = cont["final"]
    BY <2>1
  <2>2. CASE Vacate
    BY <1>1, <2>2 DEF Vacate, Inv, PcOK
  <2>3. CASE Retire
    BY <1>1, <2>3 DEF Retire, Inv, PcOK, Progress
  <2>4. CASE Rename
    <3>1. run.ver \in Version /\ cont["next"] = run.ver
      BY <1>1, <2>4 DEF Rename, Inv, PcOK, Progress
    <3>2. cont'["final"] = run.ver \/ cont' = cont
      BY <2>0, <2>4, <3>1 DEF Rename, HostOK
    <3>3. run.ver # NoCont
      BY <3>1 DEF Version, NoCont
    <3> QED
      BY <3>2, <3>3
  <2>5. ASSUME Clean \/ Discard \/ Abort PROVE cont'["final"] = cont["final"]
    BY <2>0, <2>5, RemoveMeans DEF Clean, Discard, Abort, Rm, host
  <2>6. ASSUME RunCandidate PROVE cont'["final"] = cont["final"]
    BY <2>0, <2>6 DEF RunCandidate, host, HostOK
  <2>7. ASSUME \/ \E exclusive \in Exclusive : Begin(exclusive)
               \/ Inspect \/ Ports \/ NoPortLeft \/ Connect \/ Verify \/ Crash \/ Shutdown \/ Rest
        PROVE  cont' = cont
    BY <2>7 DEF Begin, Inspect, Ports, NoPortLeft, Connect, Verify, Crash, Shutdown, Rest, host, vars
  <2> QED
    BY <1>1, <2>1, <2>2, <2>3, <2>4, <2>5, <2>6, <2>7 DEF Next
<1>2. Inv /\ [Next]_vars => [Safe]_vars
  BY <1>1
<1> QED
  BY <1>2, AlwaysInv, PTL DEF Spec, OldKeptUntilVerified

=============================================================================
