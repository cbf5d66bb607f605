-------------------------- MODULE ControllerUpgrade --------------------------
(***************************************************************************)
(* upgrade_tunnel_controller_readwrite and ..._full_control: the ceiling   *)
(* of the controller whose key controller.json names is raised in the      *)
(* trust list, then the configuration asks for it, then (full control) the *)
(* service allows process execution.  A failure rolls back what changed.   *)
(***************************************************************************)
EXTENDS TrustMaintenance

GoalPastTheEnd(tool) == IF tool = "fullcontrol" THEN 4 ELSE 2

\* TARGET_CAPABILITIES, and the ceilings an upgrade may start from.
Goal(tool)    == IF tool = "fullcontrol" THEN 3 ELSE 2
Sources(tool) == 1..Goal(tool)

ConfigFirst(tool) == IF tool = "fullcontrol" THEN << "config", "trust", "service" >>
                                             ELSE << "config", "trust" >>

\* The order in which they are replaced, and rolled back.
Targets(tool) == IF tool = "fullcontrol" THEN << "trust", "config", "service" >>
                                         ELSE << "trust", "config" >>

StartUpgrade(r) ==
    /\ run[r].pc = "idle"
    /\ \E tool \in {"readwrite", "fullcontrol"} :
          run' = [run EXCEPT ![r] = [Idle EXCEPT !.tool = tool, !.pc = "service"]]
    /\ UNCHANGED disk

\* A check that fails, and a file that cannot be read, is Crash.
ReadService(r) ==
    /\ run[r].pc = "service"
    /\ ServiceLoads
    /\ run[r].tool = "readwrite" => ~exec
    /\ Goto(r, "config")
    /\ UNCHANGED disk

ReadConfig(r) ==
    /\ run[r].pc = "config"
    /\ ConfigLoads
    /\ Whole(config.key)
    /\ config.req \in Sources(run[r].tool)
    /\ run' = [run EXCEPT ![r].pc = "ident", ![r].key = holds[config.key]]
    /\ UNCHANGED disk

ReadIdentity(r) ==
    /\ run[r].pc = "ident"
    /\ IdentityLoads
    /\ trust[run[r].key] \in Sources(run[r].tool)
    /\ run' = [run EXCEPT ![r].pc = "trust", ![r].level = trust[run[r].key]]
    /\ UNCHANGED disk

\* The list as JSON must agree with the policy loaded before.
ReadTrust(r) ==
    /\ run[r].pc = "trust"
    /\ Whole("trust")
    /\ trust[run[r].key] = run[r].level
    /\ run' = [run EXCEPT ![r].pc = "config2", ![r].was.trust = trust]
    /\ UNCHANGED disk

ReadConfigAgain(r) ==
    /\ run[r].pc = "config2"
    /\ Whole("config")
    /\ run' = [run EXCEPT ![r].pc = IF run[r].tool = "fullcontrol" THEN "service2" ELSE "lock",
                          ![r].was.config = config]
    /\ UNCHANGED disk

ReadServiceAgain(r) ==
    /\ run[r].pc = "service2"
    /\ Whole("service")
    /\ run' = [run EXCEPT ![r].pc = "lock", ![r].was.exec = exec]
    /\ UNCHANGED disk

RecheckNothing(r) ==
    /\ run[r].pc = "recheck"
    /\ Goto(r, "backup")
    /\ UNCHANGED disk

\* Under the lock: nothing that was read has changed.
Recheck(r) ==
    /\ run[r].pc = "recheck"
    /\ trust = run[r].was.trust
    /\ config = run[r].was.config
    /\ run[r].tool = "fullcontrol" => exec = run[r].was.exec
    /\ Goto(r, "backup")
    /\ UNCHANGED disk

\* One backup after the other, each of the bytes that were read.
BackupNext(r) ==
    LET tool == run[r].tool
        next == IF run[r].at = Len(Targets(tool))
                THEN [run EXCEPT ![r].pc = "put", ![r].at = 1]
                ELSE [run EXCEPT ![r].at = @ + 1]
    IN /\ tool \in {"readwrite", "fullcontrol"}
       /\ run[r].pc = "backup"
       /\ LET kind == Targets(tool)[run[r].at]
          IN CASE kind = "trust"   -> Keep(r, kind, run[r].was.trust, next)
               [] kind = "config"  -> Keep(r, kind, run[r].was.config, next)
               [] kind = "service" -> Keep(r, kind, run[r].was.exec, next)

\* A failure before anything is replaced: there is nothing to roll back.
UpgradeFails(r) ==
    /\ run[r].tool \in {"readwrite", "fullcontrol"}
    /\ run[r].pc \in {"recheck", "backup"}
    /\ Leave(r, "failed")
    /\ UNCHANGED disk

\* The documents as they were read, with the one entry and the operations added.
Wanted(r) ==
    LET g == Goal(run[r].tool)
    IN [trust  |-> [run[r].was.trust EXCEPT ![run[r].key] = g],
        config |-> [run[r].was.config EXCEPT !.req = g, !.ops = IF @ < g THEN g ELSE @],
        exec   |-> TRUE]

Says(kind, d) == CASE kind = "trust"   -> d.trust = trust
                   [] kind = "config"  -> d.config = config
                   [] kind = "service" -> d.exec = exec

Advance(r, f) ==
    run' = IF run[r].at = Len(Targets(run[r].tool))
           THEN [run EXCEPT ![r].pc = "verify", ![r].at = 1, ![r].changed = @ \cup f]
           ELSE [run EXCEPT ![r].at = @ + 1, ![r].changed = @ \cup f]

RollBack(r, f) ==
    run' = [run EXCEPT ![r].pc = "undo", ![r].at = 1, ![r].slip = f, ![r].undid = TRUE]

\* Replaced and noted as changed; or replaced, and an error before it is noted;
\* or an error before the replacement.
Put(r) ==
    LET f == Targets(run[r].tool)[run[r].at]
    IN /\ run[r].tool \in {"readwrite", "fullcontrol"}
       /\ run[r].pc = "put"
       /\ \/ Says(f, Wanted(r)) /\ Advance(r, {}) /\ UNCHANGED disk
          \/ /\ ~Says(f, Wanted(r))
             /\ \/ Install(f, Wanted(r)) /\ (Advance(r, {f}) \/ RollBack(r, {f}))
                \/ RollBack(r, {}) /\ UNCHANGED disk

\* Everything is loaded again, and is exactly what was meant.
Exact(r) ==
    LET g == Goal(run[r].tool)
    IN /\ ServiceLoads /\ IdentityLoads /\ ConfigLoads
       /\ trust[run[r].key] = g
       /\ config.req = g /\ config.ops = g
       /\ run[r].tool = "fullcontrol" => exec

\* Otherwise, and when a file cannot be read, it is rolled back.
VerifyUpgrade(r) ==
    /\ run[r].tool \in {"readwrite", "fullcontrol"}
    /\ run[r].pc = "verify"
    /\ \/ Exact(r) /\ Leave(r, "done")
       \/ RollBack(r, {})
    /\ UNCHANGED disk

UndoForgetsService(r) ==
    LET f == Targets(run[r].tool)[run[r].at]
        next == IF run[r].at = 2
                THEN [run EXCEPT ![r] = Leaving(r, "failed")]
                ELSE [run EXCEPT ![r].at = @ + 1]
    IN /\ run[r].pc = "undo"
       /\ IF f \in run[r].changed
          THEN Install(f, run[r].was) /\ run' = next
          ELSE run' = next /\ UNCHANGED disk

\* The except clause, in the same order; an error in it asks for the operator.
Undo(r) ==
    LET f == Targets(run[r].tool)[run[r].at]
        next == IF run[r].at = Len(Targets(run[r].tool))
                THEN [run EXCEPT ![r] = Leaving(r, "failed")]
                ELSE [run EXCEPT ![r].at = @ + 1]
    IN /\ run[r].pc = "undo"
       /\ IF f \in run[r].changed
          THEN \/ Install(f, run[r].was) /\ (run' = next \/ Leave(r, "manual"))
               \/ Leave(r, "manual") /\ UNCHANGED disk
          ELSE run' = next /\ UNCHANGED disk

UpgradeStep(r) ==
    \/ StartUpgrade(r) \/ ReadService(r) \/ ReadConfig(r) \/ ReadIdentity(r) \/ ReadTrust(r)
    \/ ReadConfigAgain(r) \/ ReadServiceAgain(r) \/ Recheck(r) \/ BackupNext(r)
    \/ UpgradeFails(r) \/ Put(r) \/ VerifyUpgrade(r) \/ Undo(r)

=============================================================================
