---------------------------- MODULE InstallFiles ----------------------------
(***************************************************************************)
(* The files of one VeraPort installation, and the two ways in which every *)
(* tool writes them: exclusive creation (_write_new) and write-or-verify   *)
(* (_write_or_verify).                                                     *)
(*                                                                         *)
(* A run of a tool is a process of its own.  It may be killed between any  *)
(* two system calls, and an exception that no handler of the tool undoes   *)
(* has the same effect: both are Crash.  A file that was created and not   *)
(* yet written through is "torn"; no loader accepts it.                    *)
(*                                                                         *)
(* Keys are fresh: what a run generates is named after the run.  A file is *)
(* described by its state, by the run whose key material it holds, and     *)
(* where its text is rewritten later by what it says.                      *)
(***************************************************************************)
EXTENDS Naturals, Sequences, FiniteSets

CONSTANTS
    Run,     \* runs of tools, each of one tool
    Past,    \* runs that ended before this history begins
    None     \* no run

Key == Run \cup Past

ASSUME RunAssumption == Run \cap Past = {} /\ None \notin Key

\* Capability ceilings: 0 not enrolled, 1 fs.read, 2 also fs.write,
\* 3 also the process capabilities.
Level == 0..3

Identity == {"wkey", "wpub", "ckey", "cpub", "trust", "tlskey", "tlscert", "tlsca",
             "idmanifest"}
Export   == {"xckey", "xcpub", "xwpub", "xca", "xconfig"}
Root     == {"dirs", "service", "config", "tunnel", "manifest", "gkey", "marker",
             "mwpub", "mca", "receipt"}
File     == Identity \cup Export \cup Root

VARIABLES
    file,      \* each file: "absent", "torn" or "whole"
    holds,     \* the run whose keys it holds
    trust,     \* controller-trust.json: the ceiling of each controller's key
    config,    \* controller.json
    exec,      \* allow_process_exec of veraport.json
    lock,      \* the trust file's .recovery.lock: the run that made it
    backups,   \* the .bak files
    run        \* the tools' runs

disk == <<file, holds, trust, config, exec, lock, backups>>
vars == <<disk, run>>

\* by: who wrote it; key: the private key file it names; req: its
\* requested_capabilities; ops: the highest class of its gateway_operations.
Config == [by : {"bootstrap", "attach"}, key : {"ckey", "gkey"}, req : 1..3, ops : 1..3]

Tool == {"provision", "bootstrap", "prepare", "recover", "attach", "readwrite", "fullcontrol"}

Reading == {"service", "config", "ident", "trust", "config2", "service2"}

\* The files that are replaced in place.
Target == {"trust", "config", "service"}

\* What a run has read (was), what it has changed, and whose entry it is about.
State == [tool    : Tool,
          pc      : {"idle", "create", "fill", "look", "lock", "recheck", "backup", "put",
                     "verify", "undo", "release", "over"} \cup Reading,
          at      : Nat,
          level   : Level,
          path    : {"ckey", "gkey"},
          key     : Key \cup {None},
          was     : [trust : [Key -> Level], config : Config, exec : BOOLEAN],
          changed : SUBSET Target,
          slip    : SUBSET Target,    \* history: replaced, and then an error
          undid   : BOOLEAN,          \* history: it began to roll back
          end     : {"done", "failed", "manual"}]   \* what it is about to report

NoTrust  == [k \in Key |-> 0]
NoConfig == [by |-> "bootstrap", key |-> "ckey", req |-> 1, ops |-> 1]
Nothing  == [trust |-> NoTrust, config |-> NoConfig, exec |-> FALSE]

Idle == [tool |-> "provision", pc |-> "idle", at |-> 1, level |-> 0, path |-> "ckey",
         key |-> None, was |-> Nothing, changed |-> {}, slip |-> {}, undid |-> FALSE,
         end |-> "failed"]

\* The run ends; of what it knew nothing is left.
Over(r) == [Idle EXCEPT !.pc = "over", !.undid = run[r].undid]

End(r) == run' = [run EXCEPT ![r] = Over(r)]

\* The run, which has the lock, goes to the finally clause that releases it.
Leaving(r, end) == [Idle EXCEPT !.pc = "release", !.undid = run[r].undid, !.end = end]

\* On to the next file of the run's program, or what follows the last one.
NextFile(r, next) ==
    run' = IF next = "over" THEN [run EXCEPT ![r] = Over(r)]
                            ELSE [run EXCEPT ![r].pc = next, ![r].at = @ + 1]

Live(r) == run[r].pc \notin {"idle", "over"}

\* A kill, or an exception that nothing in the tool undoes.  A lock stays.
Crash(r) ==
    /\ Live(r)
    /\ End(r)
    /\ UNCHANGED disk

Whole(f) == file[f] = "whole"

----------------------------------------------------------------------------
(* Writing one file.                                                       *)

SetFile(f, state, whose) ==
    /\ file' = [file EXCEPT ![f] = state]
    /\ holds' = [holds EXCEPT ![f] = whose]

CreateOver(r, f) ==
    /\ run[r].pc = "create"
    /\ SetFile(f, "torn", r)
    /\ run' = [run EXCEPT ![r].pc = "fill"]
    /\ UNCHANGED <<trust, config, exec, lock, backups>>

\* os.open with O_CREAT and O_EXCL: no file is opened that exists.
Create(r, f) ==
    /\ run[r].pc = "create"
    /\ file[f] = "absent"
    /\ SetFile(f, "torn", r)
    /\ run' = [run EXCEPT ![r].pc = "fill"]
    /\ UNCHANGED <<trust, config, exec, lock, backups>>

\* write, flush, fsync; then the next file of the program, or what follows it.
Fill(r, f, whose, next) ==
    /\ run[r].pc = "fill"
    /\ SetFile(f, "whole", whose)
    /\ NextFile(r, next)
    /\ UNCHANGED <<lock, backups>>

\* The except clause of _write_new: the file is unlinked, the error is raised.
FillFails(r, f) ==
    /\ run[r].pc = "fill"
    /\ SetFile(f, "absent", None)
    /\ run' = [run EXCEPT ![r] = IF lock = r THEN Leaving(r, "failed") ELSE Over(r)]
    /\ UNCHANGED <<trust, config, exec, lock, backups>>

\* _write_or_verify on a file that exists with the required content.
Reuse(r, f, next) ==
    /\ run[r].pc = "create"
    /\ Whole(f)
    /\ NextFile(r, next)
    /\ UNCHANGED disk

----------------------------------------------------------------------------
(* Loading.                                                                *)

\* WindowsServiceConfig.load and validate_runtime_files: the files exist.
ServiceLoads ==
    /\ Whole("service")
    /\ \A f \in {"tlscert", "tlskey", "wkey", "trust"} : file[f] # "absent"

\* load_identity: the workstation's key and the trust list can be read.
IdentityLoads == Whole("wkey") /\ Whole("trust")

\* ControllerConfig: every operation has the capability it requires.
ConfigLoads == Whole("config") /\ config.ops <= config.req

=============================================================================
