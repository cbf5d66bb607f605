---------------------------- MODULE Installation ----------------------------
(***************************************************************************)
(* An installation over its life: runs of the tools that make it and of    *)
(* those that change it, side by side, each of which may die at any step.  *)
(***************************************************************************)
EXTENDS Provisioning, ControllerUpgrade

\* Nothing is there yet.
Blank ==
    /\ file = [f \in File |-> "absent"]
    /\ holds = [f \in File |-> None]
    /\ trust = NoTrust
    /\ config = NoConfig
    /\ exec = FALSE

\* p prepared it as a workstation, q recovered a controller, and it was attached.
AttachedBy(p, q) ==
    LET made == ((Identity \ {"ckey", "cpub"}) \cup Export \cup {"service", "manifest", "mwpub", "mca"})
    IN /\ file = [f \in File |->
                    IF f \in made \cup {"dirs", "gkey", "marker", "config", "tunnel", "receipt"}
                    THEN "whole" ELSE "absent"]
       /\ holds = [f \in File |-> IF f \in made THEN p
                                  ELSE IF f \in {"gkey", "marker"} THEN q ELSE None]
       /\ trust = [NoTrust EXCEPT ![p] = 2, ![q] = 1]
       /\ config = [by |-> "attach", key |-> "gkey", req |-> 1, ops |-> 1]
       /\ exec = FALSE

\* p bootstrapped it, without process capabilities.
BootstrappedBy(p) ==
    LET made == Identity \cup {"service", "manifest", "dirs", "config", "tunnel"}
    IN /\ file = [f \in File |-> IF f \in made THEN "whole" ELSE "absent"]
       /\ holds = [f \in File |-> IF f \in made \ {"dirs"} THEN p ELSE None]
       /\ trust = [NoTrust EXCEPT ![p] = 2]
       /\ config = [by |-> "bootstrap", key |-> "ckey", req |-> 2, ops |-> 2]
       /\ exec = FALSE

Init ==
    /\ \/ Blank
       \/ \E p \in Past : BootstrappedBy(p)
       \/ \E p, q \in Past : p # q /\ AttachedBy(p, q)
    /\ lock = None
    /\ backups = [kind \in Target |-> {}]
    /\ run = [r \in Run |-> Idle]

Next ==
    \/ \E r \in Run :
          \/ Provision(r) \/ Recover(r) \/ Attach(r) \/ UpgradeStep(r)
          \/ _acquire_recovery_lock(r) \/ _release_recovery_lock(r)
          \/ Crash(r)
    \/ Reconcile

Spec == Init /\ [][Next]_vars

----------------------------------------------------------------------------
(* What is checked.                                                        *)

TypeOK ==
    /\ file \in [File -> {"absent", "torn", "whole"}]
    /\ holds \in [File -> Key \cup {None}]
    /\ trust \in [Key -> Level]
    /\ config \in Config
    /\ exec \in BOOLEAN
    /\ lock \in Run \cup {None}
    /\ run \in [Run -> State]

\* The files of an identity (provision.py) all come from one run, whichever
\* runs raced for the directory and whichever died half-way: exclusive
\* creation of the first file decides.
OneIdentity ==
    \A f, g \in Identity :
        file[f] # "absent" /\ file[g] # "absent" => holds[f] = holds[g]

\* Whoever is enrolled has its private key in a file: the trust list never
\* names a controller before its key is written, and prepare_workstation and
\* recovery never lose the last copy of one.
EnrolledKeysExist ==
    Whole("trust") =>
        \A k \in Key : trust[k] > 0 =>
            \E f \in {"ckey", "gkey", "xckey"} : Whole(f) /\ holds[f] = k

\* Two tools never overwrite each other's entries: a replaced trust list
\* differs from the one before in the entry of the tool's own controller
\* only, although an upgrade writes back a list it read before it had the
\* lock; and nobody who is enrolled disappears.
OnlyOwnEntryChanges ==
    [][ Whole("trust") =>
          /\ \A k \in Key : trust[k] > 0 => trust'[k] > 0
          /\ \A k \in Key : trust'[k] # trust[k] =>
                \E r \in Run : lock = r /\ run[r].key = k ]_vars

\* Until some rollback begins, nothing relies on a ceiling that is not yet
\* granted, whichever run dies: the configuration asks for no more than the
\* trust list gives its key, and the service runs processes only when some
\* controller may.
GrantedBeforeUsed ==
    (\A r \in Run : ~run[r].undid) =>
        /\ Whole("config") /\ Whole(config.key) => config.req <= trust[holds[config.key]]
        /\ Whole("service") /\ exec => \E k \in Key : trust[k] = 3

\* A failed upgrade that does not ask for manual reconciliation has put back
\* what it changed, except for a file whose replacement took effect and then
\* raised an error.
FailedUpgradeRestores ==
    [][ \A r \in Run :
          run[r].pc = "undo" /\ run'[r].pc = "release" /\ run'[r].end = "failed" =>
              \A kind \in Target \ run[r].slip :
                  CASE kind = "trust"   -> trust' = run[r].was.trust
                    [] kind = "config"  -> config' = run[r].was.config
                    [] kind = "service" -> run[r].tool = "fullcontrol" => exec' = run[r].was.exec ]_vars

\* What is replaced in place is never lost: its content, or the content that
\* replaces it, is in a complete backup.
PreimageKept ==
    [][ \A kind \in Target :
          CASE kind = "trust"   -> Whole("trust") /\ trust' # trust =>
                                       \E b \in backups.trust : b.whole /\ b.was \in {trust, trust'}
            [] kind = "config"  -> Whole("config") /\ config' # config =>
                                       \E b \in backups.config : b.whole /\ b.was \in {config, config'}
            [] kind = "service" -> Whole("service") /\ exec' # exec =>
                                       \E b \in backups.service : b.whole /\ b.was \in {exec, exec'} ]_vars

=============================================================================
