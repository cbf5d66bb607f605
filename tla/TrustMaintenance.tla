-------------------------- MODULE TrustMaintenance --------------------------
(***************************************************************************)
(* The tools that change an installation: controller_recovery.py enrolls a *)
(* read-only controller, existing_install_attach.py writes a controller's  *)
(* configuration, and the two upgrades (controller_capability_upgrade.py,  *)
(* controller_full_control_upgrade.py) raise a controller's ceiling and    *)
(* what its configuration asks for.                                        *)
(*                                                                         *)
(* Recovery and the upgrades share the trust file's lock.  Recovery holds  *)
(* it throughout.  An upgrade reads first, one file after the other, and   *)
(* only compares under the lock.  Attach takes no lock.                    *)
(***************************************************************************)
EXTENDS InstallFiles

Goto(r, pc) == run' = [run EXCEPT ![r].pc = pc]

Leave(r, end) == run' = [run EXCEPT ![r] = Leaving(r, end)]

----------------------------------------------------------------------------
(* The lock: a file made exclusively.                                      *)

\* A lock that exists refuses the run, which is Crash.
_acquire_recovery_lock(r) ==
    /\ run[r].pc = "lock"
    /\ lock = None
    /\ lock' = r
    /\ Goto(r, IF run[r].tool = "recover" THEN "look" ELSE "recheck")
    /\ UNCHANGED <<file, holds, trust, config, exec, backups>>

\* The finally clause; when the unlink fails the lock is left behind.
_release_recovery_lock(r) ==
    /\ run[r].pc = "release"
    /\ lock' \in {None, lock}
    /\ End(r)
    /\ UNCHANGED <<file, holds, trust, config, exec, backups>>

\* The operator's explicit reconciliation of a lock whose run is gone.
Reconcile ==
    /\ lock # None
    /\ ~Live(lock)
    /\ lock' = None
    /\ UNCHANGED <<file, holds, trust, config, exec, backups, run>>

----------------------------------------------------------------------------
(* Backups are named after the tool and the content they keep.             *)

Kept(kind, tool, content, whole) ==
    [tool |-> tool, was |-> content, whole |-> whole] \in backups[kind]

KeepUnverified(r, kind, content, next) ==
    LET tool == run[r].tool
        Add(whole) == backups' = [backups EXCEPT ![kind] =
                            @ \cup {[tool |-> tool, was |-> content, whole |-> whole]}]
    IN /\ IF Kept(kind, tool, content, FALSE)
          THEN run' = next /\ UNCHANGED backups
          ELSE \/ Add(TRUE) /\ run' = next
               \/ ~Kept(kind, tool, content, TRUE) /\ Add(FALSE) /\ End(r)
       /\ UNCHANGED <<file, holds, trust, config, exec, lock>>

\* _write_or_verify(backup, raw), also when the run dies while it writes.
Keep(r, kind, content, next) ==
    LET tool == run[r].tool
        Add(whole) == backups' = [backups EXCEPT ![kind] =
                            @ \cup {[tool |-> tool, was |-> content, whole |-> whole]}]
    IN /\ ~Kept(kind, tool, content, FALSE)
       /\ \/ Add(TRUE) /\ run' = next
          \/ ~Kept(kind, tool, content, TRUE) /\ Add(FALSE) /\ End(r)
       /\ UNCHANGED <<file, holds, trust, config, exec, lock>>

\* _atomic_replace of trust, config or service by what d says.
Install(kind, d) ==
    /\ trust' = IF kind = "trust" THEN d.trust ELSE trust
    /\ config' = IF kind = "config" THEN d.config ELSE config
    /\ exec' = IF kind = "service" THEN d.exec ELSE exec
    /\ UNCHANGED <<file, holds, lock, backups>>

----------------------------------------------------------------------------
(* ensure_readonly_controller                                              *)

StartRecover(r) ==
    /\ run[r].pc = "idle"
    /\ Whole("service")
    /\ run' = [run EXCEPT ![r] = [Idle EXCEPT !.tool = "recover", !.pc = "lock"]]
    /\ UNCHANGED disk

Looking(r) == run[r].pc = "look" /\ run[r].tool = "recover" /\ ServiceLoads /\ IdentityLoads

\* The preferred key must be readable if it is there.
PreferredReads == file["ckey"] # "torn"

PreferredServes == Whole("ckey") /\ trust[holds["ckey"]] = 1

\* A key that is enrolled for exactly fs.read is used as it is.
ReuseEnrolled(r) ==
    /\ Looking(r)
    /\ PreferredReads
    /\ PreferredServes \/ (Whole("gkey") /\ trust[holds["gkey"]] = 1)
    /\ Leave(r, "done")
    /\ UNCHANGED disk

\* The marker names the generated key.
_validate_marker == Whole("marker") /\ holds["marker"] = holds["gkey"]

\* A generated key that is not enrolled needs the marker.
ResumeGenerated(r) ==
    /\ Looking(r)
    /\ PreferredReads /\ ~PreferredServes
    /\ Whole("gkey") /\ trust[holds["gkey"]] = 0
    /\ _validate_marker
    /\ run' = [run EXCEPT ![r].pc = "backup", ![r].key = holds["gkey"], ![r].was.trust = trust]
    /\ UNCHANGED disk

GenerateKey(r) ==
    /\ Looking(r)
    /\ PreferredReads /\ ~PreferredServes
    /\ file["gkey"] = "absent" /\ file["marker"] = "absent"
    /\ run' = [run EXCEPT ![r].pc = "create", ![r].key = r, ![r].was.trust = trust]
    /\ UNCHANGED disk

RecoveryFiles == << "gkey", "marker" >>

WriteRecoveryFile(r) ==
    /\ run[r].tool = "recover"
    /\ run[r].pc \in {"create", "fill"}
    /\ LET f == RecoveryFiles[run[r].at]
       IN \/ Create(r, f)
          \/ /\ Fill(r, f, r, IF f = "marker" THEN "backup" ELSE "create")
             /\ UNCHANGED <<trust, config, exec>>
          \/ FillFails(r, f)

\* The trust list is still the one that was read; it is backed up.
BackupTrust(r) ==
    /\ run[r].tool = "recover"
    /\ run[r].pc = "backup"
    /\ trust = run[r].was.trust
    /\ Keep(r, "trust", trust, [run EXCEPT ![r].pc = "put"])

\* The entry is appended to the list that was read.
Enrolled(r) == [run[r].was EXCEPT !.trust = [@ EXCEPT ![run[r].key] = 1]]

\* The replacement; when the file's protection fails afterwards it stays.
Enroll(r) ==
    /\ run[r].tool = "recover"
    /\ run[r].pc = "put"
    /\ Install("trust", Enrolled(r))
    /\ Goto(r, "verify") \/ Leave(r, "failed")

\* The new list has the entry and every entry of the old one.
VerifyEnrolled(r) ==
    /\ run[r].tool = "recover"
    /\ run[r].pc = "verify"
    /\ IdentityLoads
    /\ trust[run[r].key] = 1
    /\ \A k \in Key : run[r].was.trust[k] > 0 => trust[k] > 0
    /\ Leave(r, "done")
    /\ UNCHANGED disk

\* Any of its checks fails, or any system call does: the lock is released.
RecoverFails(r) ==
    /\ run[r].tool = "recover"
    /\ run[r].pc \in {"look", "create", "backup", "put", "verify"}
    /\ Leave(r, "failed")
    /\ UNCHANGED disk

Recover(r) ==
    \/ StartRecover(r) \/ ReuseEnrolled(r) \/ ResumeGenerated(r) \/ GenerateKey(r)
    \/ WriteRecoveryFile(r) \/ BackupTrust(r) \/ Enroll(r) \/ VerifyEnrolled(r)
    \/ RecoverFails(r)

----------------------------------------------------------------------------
(* prepare_existing_install_tunnel_attach                                  *)

StartAttach(r) ==
    /\ run[r].pc = "idle"
    /\ \E path \in {"ckey", "gkey"} :
          run' = [run EXCEPT ![r] = [Idle EXCEPT !.tool = "attach", !.pc = "look", !.path = path]]
    /\ UNCHANGED disk

\* The selected key is enrolled for fs.read at least.
AttachLooks(r) ==
    /\ run[r].tool = "attach"
    /\ run[r].pc = "look"
    /\ ServiceLoads /\ IdentityLoads
    /\ Whole(run[r].path)
    /\ trust[holds[run[r].path]] > 0
    /\ Goto(r, "create")
    /\ UNCHANGED disk

AttachFiles == << "mwpub", "mca", "config", "tunnel", "receipt" >>

Attached(r) == [by |-> "attach", key |-> run[r].path, req |-> 1, ops |-> 1]

\* Whose keys the file is to hold; the receipt holds none.
AttachHolds(f) == CASE f = "mwpub" -> holds["wkey"]
                    [] f = "mca"   -> holds["tlscert"]
                    [] OTHER       -> None

\* The existing file says what this run would write.  Of the receipt and the
\* tunnel's configuration, which name executables, either may be true.
Same(r, f) == CASE f \in {"mwpub", "mca"} -> holds[f] = AttachHolds(f)
                [] f = "config"           -> config = Attached(r)
                [] OTHER                  -> TRUE

WriteAttachFile(r) ==
    /\ run[r].tool = "attach"
    /\ run[r].pc \in {"create", "fill"}
    /\ LET f    == AttachFiles[run[r].at]
           next == IF f = "receipt" THEN "over" ELSE "create"
       IN \/ Create(r, f)
          \/ Same(r, f) /\ Reuse(r, f, next)
          \/ /\ Fill(r, f, AttachHolds(f), next)
             /\ config' = IF f = "config" THEN Attached(r) ELSE config
             /\ UNCHANGED <<trust, exec>>
          \/ FillFails(r, f)

Attach(r) == StartAttach(r) \/ AttachLooks(r) \/ WriteAttachFile(r)

=============================================================================
