---------------------------- MODULE Provisioning ----------------------------
(***************************************************************************)
(* The tools that make an installation: provision.py, bootstrap.py (agent, *)
(* controller and tunnel on one machine) and prepare_workstation.py (the   *)
(* controller's half is exported, and its private key then removed here).  *)
(* Each writes its files in a fixed order, none over an existing one, and  *)
(* cleans up nothing but the file it is writing.                           *)
(***************************************************************************)
EXTENDS InstallFiles

TrustFirst == << "wkey", "wpub", "trust", "ckey", "cpub", "tlskey", "tlscert", "tlsca",
                 "idmanifest" >>

\* provision_local_pair: files, in order, and the manifest.
IdentityFiles == << "wkey", "wpub", "ckey", "cpub", "trust", "tlskey", "tlscert", "tlsca",
                    "idmanifest" >>

\* prepare_local_bootstrap: the identity, three configurations, the manifest.
BootstrapFiles == IdentityFiles \o << "service", "config", "tunnel", "manifest" >>

\* prepare_workstation_service: the identity, the export, the configurations;
\* then two files are removed, and the manifest is written.
PrepareFiles == IdentityFiles \o << "xckey", "xcpub", "xwpub", "xca", "service", "xconfig",
                                    "ckey", "cpub", "manifest" >>

Program(tool) ==
    CASE tool = "provision" -> IdentityFiles
      [] tool = "bootstrap" -> BootstrapFiles
      [] tool = "prepare"   -> PrepareFiles

Provisioner == {"provision", "bootstrap", "prepare"}

Current(r) == Program(run[r].tool)[run[r].at]

AfterThis(r) == IF run[r].at = Len(Program(run[r].tool)) THEN "over" ELSE "create"

\* Steps 16 and 17 of PrepareFiles unlink.
Unlinking(r) == run[r].tool = "prepare" /\ run[r].at \in {16, 17}

Begin(r, tool, level) ==
    /\ run[r].pc = "idle"
    /\ file' = [file EXCEPT !["dirs"] = "whole"]
    /\ run' = [run EXCEPT ![r] = [Idle EXCEPT !.tool = tool, !.pc = "create", !.level = level]]
    /\ UNCHANGED <<holds, trust, config, exec, lock, backups>>

\* Refused over any file of an identity; the directory is made; fresh keys.
StartProvision(r) ==
    /\ \A f \in Identity : file[f] = "absent"
    /\ \E level \in {2, 3} : Begin(r, "provision", level)

StartBootstrap(r) ==
    /\ \A f \in Identity : file[f] = "absent"
    /\ \E level \in {2, 3} : Begin(r, "bootstrap", level)

\* Nothing but the runtime directory below the root, nothing in the export;
\* between this look and its own mkdir another run may make directories.
StartPrepare(r) ==
    /\ \A f \in File \ {"dirs"} : file[f] = "absent"
    /\ \/ file["dirs"] = "absent"
       \/ \E q \in Run : run[q].tool \in Provisioner /\ run[q].pc = "create" /\ run[q].at = 1
    /\ \E level \in {2, 3} : Begin(r, "prepare", level)

CreateNext(r) ==
    /\ run[r].tool \in Provisioner
    /\ run[r].pc = "create"
    /\ ~Unlinking(r)
    /\ Create(r, Current(r))

\* The manifests vouch for what was validated before: everything loads.
Validated(r) ==
    run[r].tool # "provision" /\ Current(r) = "manifest" =>
        /\ ServiceLoads
        /\ run[r].tool = "bootstrap" => ConfigLoads /\ Whole("tunnel")

\* What is written: this run's keys, the controller's entry with the whole of
\* the requested capabilities, configurations that ask for as much.
Write(r) ==
    LET f == Current(r)
    IN /\ trust' = IF f = "trust" THEN [NoTrust EXCEPT ![r] = run[r].level] ELSE trust
       /\ exec' = IF f = "service" THEN run[r].level = 3 ELSE exec
       /\ config' = IF f = "config"
                    THEN [by |-> "bootstrap", key |-> "ckey",
                          req |-> run[r].level, ops |-> run[r].level]
                    ELSE config

\* The exports are copies of identity files.
Source(f) == CASE f = "xckey" -> "ckey" [] f = "xcpub" -> "cpub"
               [] f = "xwpub" -> "wpub" [] f = "xca" -> "tlsca"

FillNext(r) ==
    LET f == Current(r)
    IN /\ run[r].tool \in Provisioner
       /\ run[r].pc = "fill"
       /\ Validated(r)
       /\ Write(r)
       /\ Fill(r, f, IF f \in {"xckey", "xcpub", "xwpub", "xca"} THEN holds[Source(f)] ELSE r,
               AfterThis(r))

FillNextFails(r) ==
    /\ run[r].tool \in Provisioner
    /\ run[r].pc = "fill"
    /\ FillFails(r, Current(r))

\* The controller's private key leaves the service's identity once its export
\* is the same; then its public key does.
Unlink(r) ==
    /\ run[r].pc = "create"
    /\ Unlinking(r)
    /\ ServiceLoads /\ Whole("xconfig")
    /\ Current(r) = "ckey" => Whole("ckey") /\ Whole("xckey") /\ holds["ckey"] = holds["xckey"]
    /\ SetFile(Current(r), "absent", None)
    /\ run' = [run EXCEPT ![r].at = @ + 1]
    /\ UNCHANGED <<trust, config, exec, lock, backups>>

Provision(r) ==
    \/ StartProvision(r) \/ StartBootstrap(r) \/ StartPrepare(r)
    \/ CreateNext(r) \/ FillNext(r) \/ FillNextFails(r) \/ Unlink(r)

=============================================================================
