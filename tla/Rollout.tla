------------------------------ MODULE Rollout -------------------------------
(***************************************************************************)
(* Blue-green replacement of a project's container: rollout in             *)
(* internal/service/health.go, one docker call per step.                   *)
(*                                                                         *)
(* Containers are named by the deployment (a number, in the order they are *)
(* started) they run.  A docker call that fails changes nothing; once the  *)
(* worker's context is cancelled every call fails.                         *)
(***************************************************************************)
EXTENDS Integers

CONSTANTS
    Exclusive,   \* whether a project may publish fixed ports (ExclusivePorts), a subset of BOOLEAN
    Port,        \* candidate host ports (HostPorts), numbers in order of preference
    MaxRollout,  \* bound: rollouts
    MaxFaults,   \* bound: docker calls that fail
    MaxStops     \* bound: crashes and shutdowns of the worker

NoCont == 0
NoPort == 0
Version == 1..MaxRollout
Name == {"final", "next"}

ASSUME RolloutAssumption ==
    /\ Exclusive \subseteq BOOLEAN
    /\ Port \subseteq Nat \ {NoPort}
    /\ MaxRollout \in Nat /\ MaxFaults \in Nat /\ MaxStops \in Nat

VARIABLES
    cont,      \* the container that has each name, NoCont when none has
    port,      \* the host port it holds
    run,       \* the rollout in progress, or the outcome of the last one
    started,   \* rollouts so far
    verified,  \* history variable: versions verify accepted
    served,    \* history variable: versions that got the production name
    faults, stops \* what is left of them

vars == <<cont, port, run, started, verified, served, faults, stops>>
host == <<cont, port>>

Idle == [pc |-> "idle", ver |-> NoCont, live |-> TRUE, exclusive |-> FALSE, hadPrev |-> FALSE,
         prev |-> NoCont, held |-> NoPort, left |-> {}, again |-> FALSE, out |-> "none", kept |-> FALSE]

-----------------------------------------------------------------------------
(* docker                                                                  *)

Ok == run.live /\ UNCHANGED faults
Fails == \/ run.live /\ faults > 0 /\ faults' = faults - 1
         \/ ~run.live /\ UNCHANGED faults

Remove(name) == cont' = [cont EXCEPT ![name] = NoCont] /\ port' = [port EXCEPT ![name] = NoPort]

PortFree(p) == \A name \in Name : port[name] # p

\* docker rm -f name: succeeds, also when there is no such container.
Rm(name) == Ok /\ Remove(name)

Stay == UNCHANGED <<started, verified, served, stops>>
To(pc) == run' = [run EXCEPT !.pc = pc]
Ends(out, kept) == run' = [run EXCEPT !.pc = "idle", !.out = out, !.kept = kept]

-----------------------------------------------------------------------------
(* execute                                                                 *)

\* A rollout begins; prev, what it finds, is a history field.
Begin(exclusive) ==
    /\ run.pc = "idle" /\ started < MaxRollout
    /\ started' = started + 1
    /\ run' = [Idle EXCEPT !.pc = "clean", !.ver = started + 1, !.exclusive = exclusive,
                 !.prev = cont["final"], !.left = Port]
    /\ UNCHANGED <<cont, port, verified, served, faults, stops>>

\* rm -f of a leftover candidate; an error is ignored.
Clean ==
    /\ run.pc = "clean"
    /\ Rm("next") \/ (Fails /\ UNCHANGED host)
    /\ To("inspect") /\ Stay

\* Mutant: the old container is always removed first.
InspectMutant ==
    /\ run.pc = "inspect" /\ UNCHANGED host
    /\ \/ Ok /\ run' = [run EXCEPT !.hadPrev = cont["final"] # NoCont,
                          !.pc = IF cont["final"] = NoCont THEN "run" ELSE "vacate"]
       \/ Fails /\ To("run")
    /\ Stay

\* exists: any error of docker inspect reads as "no previous container".
Inspect ==
    /\ run.pc = "inspect" /\ UNCHANGED host
    /\ \/ Ok /\ run' = [run EXCEPT !.hadPrev = cont["final"] # NoCont,
                          !.pc = IF cont["final"] = NoCont THEN "run" ELSE IF run.exclusive THEN "vacate" ELSE "ports"]
       \/ Fails /\ To("run")
    /\ Stay

\* Mutant: hadPrev is not cleared.
VacateMutant ==
    /\ run.pc = "vacate"
    /\ Rm("final") \/ (Fails /\ UNCHANGED host)
    /\ To("run") /\ Stay

\* ExclusivePorts: the old container is removed first; an error is ignored.
Vacate ==
    /\ run.pc = "vacate"
    /\ Rm("final") \/ (Fails /\ UNCHANGED host)
    /\ run' = [run EXCEPT !.pc = "run", !.hadPrev = FALSE] /\ Stay

\* docker port: the host port of the old container; an error reads as none.
Ports ==
    /\ run.pc = "ports" /\ UNCHANGED host
    /\ \/ Ok /\ run' = [run EXCEPT !.pc = "run", !.held = port["final"]]
       \/ Fails /\ To("run")
    /\ Stay

\* docker run of the candidate on the next port it does not know to be held.
\* When the port is in use, by this project or by anything else on the host,
\* docker leaves a container that was never started.
RunCandidate ==
    /\ run.pc = "run"
    /\ \E p \in run.left :
         /\ p # run.held /\ \A q \in run.left \ {run.held} : p <= q
         /\ \/ /\ Ok /\ cont["next"] = NoCont
               /\ cont' = [cont EXCEPT !["next"] = run.ver]
               /\ \/ PortFree(p) /\ port' = [port EXCEPT !["next"] = p] /\ To("connect")
                  \/ /\ run' = [run EXCEPT !.pc = "discard", !.left = @ \ {p}, !.again = TRUE]
                     /\ UNCHANGED port
            \/ /\ Fails \/ (Ok /\ cont["next"] # NoCont) \* an error, or the name is taken
               /\ run' = [run EXCEPT !.pc = "discard", !.again = FALSE]
               /\ UNCHANGED host
    /\ Stay

\* rm -f after a docker run that failed; the next port only if this one was in use.
Discard ==
    /\ run.pc = "discard"
    /\ Rm("next") \/ (Fails /\ UNCHANGED host)
    /\ IF run.again THEN To("run") ELSE Ends("failed", run.hadPrev)
    /\ Stay

\* No free host port is left.
NoPortLeft ==
    /\ run.pc = "run" /\ run.left \subseteq {run.held}
    /\ Ends("failed", run.hadPrev)
    /\ UNCHANGED <<cont, port, faults>> /\ Stay

\* docker network connect; an error is only logged.
Connect ==
    /\ run.pc = "connect" /\ UNCHANGED host
    /\ Ok \/ Fails
    /\ To("verify") /\ Stay

\* Mutant: a candidate whose check timed out is accepted.
VerifyMutant ==
    /\ run.pc = "verify" /\ UNCHANGED <<cont, port, faults>>
    /\ \/ run.live /\ verified' = verified \cup {run.ver} /\ To(IF run.hadPrev THEN "retire" ELSE "rename")
       \/ UNCHANGED verified /\ To(IF run.hadPrev THEN "retire" ELSE "rename")
    /\ UNCHANGED <<started, served, stops>>

\* verify: healthy (or up long enough), or crashed, timed out or cancelled.
Verify ==
    /\ run.pc = "verify" /\ UNCHANGED <<cont, port, faults>>
    /\ \/ run.live /\ verified' = verified \cup {run.ver} /\ To(IF run.hadPrev THEN "retire" ELSE "rename")
       \/ UNCHANGED verified /\ To("abort")
    /\ UNCHANGED <<started, served, stops>>

\* The old container is removed; on an error the rollout is aborted.
Retire ==
    /\ run.pc = "retire"
    /\ \/ Rm("final") /\ To("rename")
       \/ Fails /\ UNCHANGED host /\ To("abort")
    /\ Stay

\* Mutant: a candidate that cannot be renamed is removed like one that is not healthy.
RenameMutant ==
    /\ run.pc = "rename"
    /\ \/ /\ Ok /\ cont["final"] = NoCont
          /\ served' = served \cup {cont["next"]}
          /\ cont' = [cont EXCEPT !["final"] = cont["next"], !["next"] = NoCont]
          /\ port' = [port EXCEPT !["final"] = port["next"], !["next"] = NoPort]
          /\ Ends("ok", FALSE)
       \/ /\ Fails \/ (Ok /\ cont["final"] # NoCont)
          /\ run' = [run EXCEPT !.pc = "abort", !.hadPrev = FALSE] /\ UNCHANGED <<cont, port, served>>
    /\ UNCHANGED <<started, verified, stops>>

\* The candidate takes the production name; on an error it keeps its own.
Rename ==
    /\ run.pc = "rename"
    /\ \/ /\ Ok /\ cont["final"] = NoCont
          /\ served' = served \cup {cont["next"]}
          /\ cont' = [cont EXCEPT !["final"] = cont["next"], !["next"] = NoCont]
          /\ port' = [port EXCEPT !["final"] = port["next"], !["next"] = NoPort]
          /\ Ends("ok", FALSE)
       \/ /\ Fails \/ (Ok /\ cont["final"] # NoCont) \* an error, or the name is taken
          /\ Ends("failed", FALSE) /\ UNCHANGED <<cont, port, served>>
    /\ UNCHANGED <<started, verified, stops>>

\* abort: remove the candidate; an error is ignored.
Abort ==
    /\ run.pc = "abort"
    /\ Rm("next") \/ (Fails /\ UNCHANGED host)
    /\ Ends("failed", run.hadPrev) /\ Stay

-----------------------------------------------------------------------------
\* The process dies during a rollout.
Crash ==
    /\ run.pc # "idle" /\ stops > 0 /\ stops' = stops - 1
    /\ run' = Idle
    /\ UNCHANGED <<cont, port, started, verified, served, faults>>

\* The worker's context is cancelled during a rollout.
Shutdown ==
    /\ run.pc # "idle" /\ run.live /\ stops > 0 /\ stops' = stops - 1
    /\ run' = [run EXCEPT !.live = FALSE]
    /\ UNCHANGED <<cont, port, started, verified, served, faults>>

\* Nothing is left to roll out.
Rest == run.pc = "idle" /\ started = MaxRollout /\ UNCHANGED vars

Init ==
    /\ cont = [name \in Name |-> NoCont]
    /\ port = [name \in Name |-> NoPort]
    /\ run = Idle
    /\ started = 0
    /\ verified = {}
    /\ served = {}
    /\ faults = MaxFaults
    /\ stops = MaxStops

Next ==
    \/ \E exclusive \in Exclusive : Begin(exclusive)
    \/ Clean \/ Inspect \/ Vacate \/ Ports \/ RunCandidate \/ Discard \/ NoPortLeft \/ Connect \/ Verify
    \/ Retire \/ Rename \/ Abort
    \/ Crash \/ Shutdown \/ Rest

Spec == Init /\ [][Next]_vars

-----------------------------------------------------------------------------
(* Properties.                                                             *)

\* Every variable has its type, and a step finds what the steps before it
\* left: an old container to retire was seen, the candidate is there from its
\* start to the end of the rollout.
TypeOK ==
    /\ cont \in [Name -> Version \cup {NoCont}]
    /\ port \in [Name -> Port \cup {NoPort}]
    /\ run \in [pc : {"idle", "clean", "inspect", "vacate", "ports", "run", "discard", "connect", "verify",
                      "retire", "rename", "abort"},
                ver : Version \cup {NoCont}, live : BOOLEAN, exclusive : BOOLEAN,
                hadPrev : BOOLEAN, prev : Version \cup {NoCont}, held : Port \cup {NoPort},
                left : SUBSET Port, again : BOOLEAN, out : {"none", "ok", "failed"}, kept : BOOLEAN]
    /\ started \in 0..MaxRollout
    /\ verified \subseteq Version
    /\ served \subseteq Version
    /\ faults \in 0..MaxFaults
    /\ stops \in 0..MaxStops
    /\ run.pc = "vacate" => run.exclusive
    /\ run.pc = "retire" => run.hadPrev
    /\ run.pc \in {"connect", "verify", "retire", "rename", "abort"} => cont["next"] = run.ver

\* Only a version that passed verify ever gets the production name, whatever
\* leftovers, failed calls and crashes there were.
OnlyVerifiedServes == cont["final"] # NoCont => cont["final"] \in verified

\* Without ExclusivePorts the old container is removed only when the new one
\* is there and has been verified.
OldKeptUntilVerified ==
    [][cont["final"] # NoCont /\ cont'["final"] = NoCont /\ ~run.exclusive
       => cont["next"] = run.ver /\ run.ver \in verified]_vars

\* A failure reported as "the previous deployment keeps serving traffic" is
\* one: the container found at the beginning still has the production name.
KeptIsServing ==
    run.pc = "idle" /\ run.kept => run.prev # NoCont /\ cont["final"] = run.prev

\* A rollout without ExclusivePorts that begins with a version in production never
\* leaves none, whichever calls fail and wherever it stops: from its first step on,
\* also when the rename fails or the process dies after the old container was removed,
\* one of the two names belongs to a verified version.  And while docker works, "on any
\* failure remove the new one and leave the old container untouched".
FailureLeavesOld ==
    ~run.exclusive =>
       /\ run.prev # NoCont => cont["final"] \in verified \/ cont["next"] \in verified
       /\ run.pc = "idle" /\ run.out = "failed" /\ faults = MaxFaults /\ stops = MaxStops
             => cont["final"] = run.prev

\* "the only gap is the instant between removing the old container and
\* renaming the new one": once a version has served, and no project publishes
\* fixed ports, there is at any time a verified container, under one of the
\* two names.
SomeVersionAlive ==
    served # {} =>
       \E name \in Name : cont[name] \in verified

=============================================================================
