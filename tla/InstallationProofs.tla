------------------------ MODULE InstallationProofs ------------------------
(***************************************************************************)
(* Theorems about an installation, for any number of runs of the tools.    *)
(***************************************************************************)
EXTENDS Installation, TLAPS

----------------------------------------------------------------------------
(* The phases of a run: what its place says about its other fields.        *)

Upgrader == {"readwrite", "fullcontrol"}

\* The files a tool writes with exclusive creation.
Files(tool) == IF tool \in Provisioner THEN Program(tool)
               ELSE IF tool = "recover" THEN RecoveryFiles ELSE AttachFiles

Last(tool) == CASE tool = "provision" -> 9 [] tool = "bootstrap" -> 13 [] tool = "prepare" -> 18
                [] tool = "recover" -> 2 [] OTHER -> 5

FileOf(s) == Files(s.tool)[s.at]

Writing(s) == s.pc \in {"create", "fill"}

\* The places of an upgrade once it has read the trust list.
HasTrust(s) == s.tool \in Upgrader /\
    s.pc \in {"config2", "service2", "lock", "recheck", "backup", "put", "verify", "undo"}

Phased(s) ==
    /\ s.pc = "idle" => s = Idle
    /\ Writing(s) => /\ s.tool \in Provisioner \cup {"recover", "attach"}
                     /\ s.at \in 1..Last(s.tool)
    /\ Writing(s) /\ s.tool \in Provisioner => s.level \in {2, 3}
    /\ s.pc = "fill" /\ s.tool = "prepare" => s.at \notin {16, 17}
    /\ s.pc = "look" => s.tool \in {"recover", "attach"} /\ s.at = 1
    /\ s.pc = "lock" => s.tool \in Upgrader \cup {"recover"} /\ s.at = 1
    /\ s.pc \in Reading \cup {"recheck"} => s.tool \in Upgrader /\ s.at = 1
    /\ s.pc \in {"backup", "put", "verify"} => s.tool \in Upgrader \cup {"recover"}
    /\ s.pc \in {"backup", "put"} /\ s.tool \in Upgrader => s.at \in 1..Len(Targets(s.tool))
    /\ s.pc = "undo" => s.tool \in Upgrader /\ s.at \in 1..Len(Targets(s.tool)) /\ s.undid

\* The places under the trust file's lock.
Locks(s) ==
    \/ s.tool = "recover" /\ s.pc \in {"look", "create", "fill"}
    \/ s.pc \in {"recheck", "backup", "put", "verify", "undo", "release"}

\* The types of what is on the disk.
DiskOK ==
    /\ file \in [File -> {"absent", "torn", "whole"}]
    /\ holds \in [File -> Key \cup {None}]
    /\ trust \in [Key -> Level]
    /\ config \in Config
    /\ exec \in BOOLEAN
    /\ lock \in Run \cup {None}

Phases ==
    \A r \in Run : Phased(run[r]) /\ (Locks(run[r]) => lock = r)

----------------------------------------------------------------------------
(* Files                                                                   *)

\* A file that is being written is torn, and it is the writer's.
Filling ==
    \A r \in Run : run[r].pc = "fill" =>
        file[FileOf(run[r])] = "torn" /\ holds[FileOf(run[r])] = r

\* There is no identity without its first file, and all of it is of one run.
FirstFile ==
    \A f \in Identity : file[f] # "absent" =>
        file["wkey"] # "absent" /\ holds[f] = holds["wkey"]

\* A run that made the first file of an identity.
Owns(s) == s.tool \in Provisioner /\ (s.pc = "fill" \/ (s.pc = "create" /\ s.at > 1))

Removed(s) == s.tool = "prepare" /\ s.at > 16

\* It is alone, and the files are there as far as it has come.
Owned ==
    \A r \in Run : Owns(run[r]) =>
        /\ file["wkey"] # "absent" /\ holds["wkey"] = r
        /\ run[r].at = 1 => \A f \in Identity \ {"wkey"} : file[f] = "absent"
        /\ run[r].at > 3 /\ ~Removed(run[r]) => Whole("ckey") /\ holds["ckey"] = r
        /\ run[r].at < 5 \/ (run[r].at = 5 /\ run[r].pc = "create") => file["trust"] = "absent"
        /\ run[r].at > 5 => Whole("trust")

\* A private key's file holds a key; no run's but a provisioner's are in the identity.
Keys ==
    /\ \A f \in {"ckey", "gkey"} : Whole(f) => holds[f] \in Key
    /\ \A r \in Run : run[r].pc = "idle" \/ run[r].tool \notin Provisioner =>
          holds["ckey"] # r /\ holds["xckey"] # r

\* What was built on the trust list came after it.
BuiltRun(s) ==
    /\ s.tool = "attach" /\ Writing(s) => Whole("trust")
    /\ s.tool = "recover" /\ s.pc \in {"create", "fill", "backup", "put", "verify"} => Whole("trust")
    /\ s.tool \in Upgrader /\ s.pc # "service" => Whole("service")
    /\ s.tool \in Upgrader /\ s.pc \notin {"service", "config"} => Whole("config")

Built ==
    /\ Whole("service") => Whole("trust")
    /\ file["config"] # "absent" => Whole("trust")
    /\ \A r \in Run : BuiltRun(run[r])

FileInv == Filling /\ FirstFile /\ Owned /\ Keys /\ Built

----------------------------------------------------------------------------
(* Keys                                                                    *)

Exists(k) == \E f \in {"ckey", "gkey", "xckey"} : Whole(f) /\ holds[f] = k

\* Whose entry a run means to change, and what it read of it.
Meant(r, s) ==
    /\ s.tool = "recover" /\ (s.pc \in {"backup", "put"} \/ Writing(s)) =>
          s.key \in Key /\ s.was.trust[s.key] = 0
    /\ s.tool = "recover" /\ Writing(s) => s.key = r
    /\ s.tool \in Upgrader /\ s.pc \notin {"service", "config"} => s.key \in Key
    /\ s.tool \in Upgrader /\ s.pc = "trust" => s.level \in Sources(s.tool)
    /\ HasTrust(s) => s.was.trust[s.key] \in Sources(s.tool)

\* A recovery that has its generated key in the file.
NeedsKey(s) == s.tool = "recover" /\ (s.pc \in {"backup", "put"} \/ (Writing(s) /\ s.at = 2))

\* What a run means to put into the trust list has its key in a file.
Aims(r, s) ==
    /\ \A k \in Key : s.was.trust[k] > 0 => Exists(k)
    /\ Meant(r, s)
    /\ NeedsKey(s) => Whole("gkey") /\ holds["gkey"] = s.key

KeyInv == EnrolledKeysExist /\ \A r \in Run : Aims(r, run[r])

----------------------------------------------------------------------------
(* What is read, backed up, replaced and rolled back under the lock        *)

Saved(s, was, kept) == [tool |-> s.tool, was |-> was, whole |-> TRUE] \in kept

\* One target, the i-th of an upgrade: what it says now, what was read of it,
\* and its backups.
TargetHeld(s, kind, i, now, was, kept) ==
    /\ s.pc = "backup" => now = was /\ (i < s.at => Saved(s, was, kept))
    /\ s.pc \in {"put", "verify", "undo"} =>
          Saved(s, was, kept) /\ (kind \notin s.changed \cup s.slip => now = was)
    /\ s.pc = "put" /\ i >= s.at => kind \notin s.changed
    /\ s.pc = "undo" /\ i < s.at /\ kind \notin s.slip => now = was

\* The list an upgrade puts.
Raised(s) == [s.was.trust EXCEPT ![s.key] = Goal(s.tool)]

\* What an upgrade has noted as changed, and the list as far as it has come.
Noted(s, now) ==
    /\ s.pc \in Reading \cup {"lock", "recheck", "backup"} => s.changed = {}
    /\ s.pc \in Reading \cup {"lock", "recheck", "backup", "put", "verify"} => s.slip = {}
    /\ (s.pc = "put" /\ s.at > 1) \/ s.pc = "verify" => now = Raised(s)
    /\ s.pc = "undo" => now \in {s.was.trust, Raised(s)}

UpgradeHeld(s, list, conf, runs, kept) ==
    /\ TargetHeld(s, "trust", 1, list, s.was.trust, kept["trust"])
    /\ TargetHeld(s, "config", 2, conf, s.was.config, kept["config"])
    /\ s.tool = "fullcontrol" =>
          TargetHeld(s, "service", 3, runs, s.was.exec, kept["service"])
    /\ Noted(s, list)

RecoverHeld(s, list, kept) ==
    s.pc = "put" => list = s.was.trust /\ Saved(s, s.was.trust, kept["trust"])

HeldBy(s, list, conf, runs, kept) ==
    /\ s.tool \in Upgrader => UpgradeHeld(s, list, conf, runs, kept)
    /\ s.tool = "recover" => RecoverHeld(s, list, kept)

\* Nobody has come between the lock's owner and what it read.
HeldInv ==
    /\ backups = [kind \in Target |-> backups[kind]]
    /\ \A r \in Run : HeldBy(run[r], trust, config, exec, backups)

----------------------------------------------------------------------------
(* Ceilings                                                                *)

NobodyUndid == \A r \in Run : ~run[r].undid

\* An upgrade that has read the configuration it is to replace.
HasConfig(s) == s.tool \in Upgrader /\
    s.pc \in {"service2", "lock", "recheck", "backup", "put", "verify", "undo"}

\* The key a run relies on is the one the configuration names.
Configures(s) ==
    /\ s.tool = "attach" /\ Writing(s) /\ s.path = "gkey" => Whole("gkey")
    /\ s.tool \in Upgrader /\ s.pc \notin {"service", "config"} =>
          (Whole(config.key) => holds[config.key] = s.key)
    /\ HasConfig(s) => s.was.config.key = config.key

\* The configured key, once it is there, keeps its run.
ConfiguredKey ==
    /\ Whole("config") /\ config.key = "gkey" => Whole("gkey")
    /\ \A r \in Run : Configures(run[r])

\* What a run is about to ask for is granted.
Entitled(r, s) ==
    /\ Owns(s) /\ s.at > 5 => trust[r] >= s.level
    /\ s.tool = "attach" /\ Writing(s) /\ s.path = "gkey" => trust[holds["gkey"]] >= 1

Ceilings ==
    /\ Whole("ckey") /\ Whole("trust") => trust[holds["ckey"]] >= 1
    /\ Whole("config") /\ Whole(config.key) => config.req <= trust[holds[config.key]]
    /\ Whole("service") /\ exec => \E k \in Key : trust[k] = 3
    /\ \A r \in Run : Entitled(r, run[r])

GrantInv == ConfiguredKey /\ (NobodyUndid => Ceilings)

\* What holds whoever rolls back, and all of it.
RunInv == TypeOK /\ Phases /\ FileInv /\ KeyInv /\ HeldInv

Inv == RunInv /\ GrantInv

----------------------------------------------------------------------------
(* Where the programs write                                                *)

\* The programs of provision.py, bootstrap.py and prepare_workstation.py:
\* all write the nine files of an identity first, in one order, wkey first.
LEMMA IdentityOrder ==
    /\ Len(IdentityFiles) = 9 /\ Len(BootstrapFiles) = 13 /\ Len(PrepareFiles) = 18
    /\ \A i \in 1..9 : BootstrapFiles[i] = IdentityFiles[i] /\ PrepareFiles[i] = IdentityFiles[i]
    /\ IdentityFiles[1] = "wkey" /\ IdentityFiles[3] = "ckey" /\ IdentityFiles[5] = "trust"
    /\ \A i \in 1..9 : /\ IdentityFiles[i] \in Identity
                       /\ IdentityFiles[i] = "wkey" => i = 1
                       /\ IdentityFiles[i] = "ckey" => i = 3
                       /\ IdentityFiles[i] = "trust" => i = 5
    /\ BootstrapFiles[10] = "service" /\ BootstrapFiles[11] = "config"
    /\ BootstrapFiles[12] = "tunnel" /\ BootstrapFiles[13] = "manifest"
    /\ PrepareFiles[10] = "xckey" /\ PrepareFiles[11] = "xcpub" /\ PrepareFiles[12] = "xwpub"
    /\ PrepareFiles[13] = "xca" /\ PrepareFiles[14] = "service" /\ PrepareFiles[15] = "xconfig"
    /\ PrepareFiles[16] = "ckey" /\ PrepareFiles[17] = "cpub" /\ PrepareFiles[18] = "manifest"
<1>1. /\ Len(IdentityFiles) = 9
      /\ IdentityFiles[1] = "wkey" /\ IdentityFiles[3] = "ckey" /\ IdentityFiles[5] = "trust"
      /\ \A i \in 1..9 : /\ IdentityFiles[i] \in Identity
                         /\ IdentityFiles[i] = "wkey" => i = 1
                         /\ IdentityFiles[i] = "ckey" => i = 3
                         /\ IdentityFiles[i] = "trust" => i = 5
  BY DEF IdentityFiles, Identity
<1>2. Len(BootstrapFiles) = 13 /\ Len(PrepareFiles) = 18
  BY DEF IdentityFiles, BootstrapFiles, PrepareFiles
<1>3. \A i \in 1..9 : BootstrapFiles[i] = IdentityFiles[i] /\ PrepareFiles[i] = IdentityFiles[i]
  BY DEF IdentityFiles, BootstrapFiles, PrepareFiles
<1>4. /\ BootstrapFiles[10] = "service" /\ BootstrapFiles[11] = "config"
      /\ BootstrapFiles[12] = "tunnel" /\ BootstrapFiles[13] = "manifest"
  BY DEF IdentityFiles, BootstrapFiles
<1>5. /\ PrepareFiles[10] = "xckey" /\ PrepareFiles[11] = "xcpub" /\ PrepareFiles[12] = "xwpub"
      /\ PrepareFiles[13] = "xca" /\ PrepareFiles[14] = "service" /\ PrepareFiles[15] = "xconfig"
      /\ PrepareFiles[16] = "ckey" /\ PrepareFiles[17] = "cpub" /\ PrepareFiles[18] = "manifest"
  BY DEF IdentityFiles, PrepareFiles
<1> QED
  BY <1>1, <1>2, <1>3, <1>4, <1>5

\* What a provisioner's program writes, and where in it.
Places(tool, i, f) ==
    /\ f \in File \ {"gkey", "dirs"}
    /\ f = "wkey" <=> i = 1
    /\ f = "trust" <=> i = 5
    /\ f = "ckey" <=> i = 3 \/ (tool = "prepare" /\ i = 16)
    /\ f \in Identity <=> i <= 9 \/ (tool = "prepare" /\ i \in {16, 17})
    /\ f = "xckey" => tool = "prepare" /\ i = 10
    /\ f \in {"service", "config"} => i > 5
    /\ f = "config" => tool = "bootstrap"
    /\ tool = "prepare" /\ i = 17 => f = "cpub"

\* A provisioner's i-th file determines where it stands in its program.
LEMMA ProgramFiles ==
    ASSUME NEW tool \in Provisioner, NEW i \in 1..Len(Program(tool))
    PROVE  Places(tool, i, Program(tool)[i])
<1> DEFINE f == Program(tool)[i]
<1>1. CASE i \in 1..9
  <2>1. f = IdentityFiles[i]
    BY <1>1, IdentityOrder DEF Program, Provisioner
  <2> HIDE DEF f
  <2>2. f \in Identity /\ (f = "wkey" <=> i = 1) /\ (f = "trust" <=> i = 5) /\ (f = "ckey" <=> i = 3)
    BY <1>1, <2>1, IdentityOrder
  <2>3. f \in File /\ f \notin {"xckey", "service", "config", "gkey", "dirs"}
    BY <2>2 DEF Identity, File
  <2>4. Places(tool, i, f)
    BY <1>1, <2>2, <2>3 DEF Places
  <2> QED
    BY <2>4 DEF f
<1>2. CASE tool = "bootstrap" /\ i \notin 1..9
  <2>1. i \in 1..13 /\ f = BootstrapFiles[i]
    BY <1>2, IdentityOrder DEF Program
  <2> HIDE DEF f
  <2>2. i = 10 \/ i = 11 \/ i = 12 \/ i = 13
    BY <1>2, <2>1
  <2>3. f \in {"service", "config", "tunnel", "manifest"}
    BY <2>1, <2>2, IdentityOrder
  <2>4. f \in File /\ f \notin Identity \cup {"xckey", "gkey", "dirs"}
    BY <2>3 DEF File, Root, Identity
  <2>5. f \notin {"wkey", "ckey", "trust"}
    BY <2>4 DEF Identity
  <2>6. Places(tool, i, f)
    BY <1>2, <2>2, <2>4, <2>5 DEF Places
  <2> QED
    BY <2>6 DEF f
<1>3. CASE tool = "prepare" /\ i \notin 1..9
  <2>1. i \in 1..18 /\ f = PrepareFiles[i]
    BY <1>3, IdentityOrder DEF Program
  <2> HIDE DEF f
  <2>2. CASE i \in {16, 17}
    <3>1. (i = 16 /\ f = "ckey") \/ (i = 17 /\ f = "cpub")
      BY <2>1, <2>2, IdentityOrder
    <3> QED
      BY <1>3, <3>1 DEF Places, Identity, File, f
  <2>3. CASE i \notin {16, 17}
    <3>1. i = 10 \/ i = 11 \/ i = 12 \/ i = 13 \/ i = 14 \/ i = 15 \/ i = 18
      BY <1>3, <2>1, <2>3
    <3>2. /\ f \in {"xckey", "xcpub", "xwpub", "xca", "service", "xconfig", "manifest"}
          /\ f = "xckey" => i = 10
      BY <2>1, <3>1, IdentityOrder
    <3>3. f \in File /\ f \notin Identity \cup {"gkey", "config", "dirs"}
      BY <3>2 DEF File, Root, Export, Identity
    <3>4. f \notin {"wkey", "ckey", "trust"}
      BY <3>3 DEF Identity
    <3>5. Places(tool, i, f)
      BY <1>3, <3>1, <3>2, <3>3, <3>4 DEF Places
    <3> QED
      BY <3>5 DEF f
  <2> QED
    BY <2>2, <2>3
<1>4. CASE tool = "provision"
  BY <1>1, <1>4, IdentityOrder DEF Program
<1> QED
  BY <1>1, <1>2, <1>3, <1>4 DEF Provisioner

\* How many files each tool writes.
LEMMA Lengths ==
    /\ \A tool \in Provisioner : Len(Program(tool)) = Last(tool) /\ Files(tool) = Program(tool)
    /\ Last("provision") = 9 /\ Last("bootstrap") = 13 /\ Last("prepare") = 18
    /\ Last("recover") = 2 /\ Last("attach") = 5
    /\ Files("recover") = RecoveryFiles /\ Files("attach") = AttachFiles
<1>1. /\ Program("provision") = IdentityFiles /\ Program("bootstrap") = BootstrapFiles
      /\ Program("prepare") = PrepareFiles
  BY DEF Program
<1>2. /\ Last("provision") = 9 /\ Last("bootstrap") = 13 /\ Last("prepare") = 18
      /\ Last("recover") = 2 /\ Last("attach") = 5
  BY DEF Last
<1>3. /\ Len(Program("provision")) = 9 /\ Len(Program("bootstrap")) = 13
      /\ Len(Program("prepare")) = 18
  BY <1>1, IdentityOrder
<1>4. \A tool \in Provisioner : Len(Program(tool)) = Last(tool)
  BY <1>2, <1>3 DEF Provisioner
<1> QED
  BY <1>2, <1>4 DEF Files, Provisioner

\* Which file a run of a tool is at: the one its program names, never the
\* directories that are made without exclusion.
LEMMA FilesInOrder ==
    ASSUME NEW s, Phased(s), Writing(s)
    PROVE  /\ FileOf(s) \in File \ {"dirs"}
           /\ s.tool \in Provisioner =>
                 /\ FileOf(s) = Program(s.tool)[s.at] /\ s.at \in 1..Len(Program(s.tool))
                 /\ Places(s.tool, s.at, FileOf(s))
           /\ s.tool = "recover" =>
                 /\ FileOf(s) = RecoveryFiles[s.at] /\ s.at \in {1, 2}
                 /\ FileOf(s) = IF s.at = 1 THEN "gkey" ELSE "marker"
           /\ s.tool = "attach" =>
                 /\ FileOf(s) = AttachFiles[s.at] /\ s.at \in 1..5
                 /\ FileOf(s) \in {"mwpub", "mca", "config", "tunnel", "receipt"}
                 /\ FileOf(s) = "receipt" <=> s.at = 5
           /\ s.tool \in Provisioner \cup {"recover", "attach"}
<1>1. s.tool \in Provisioner \cup {"recover", "attach"} /\ s.at \in 1..Last(s.tool)
  BY DEF Phased
<1>2. CASE s.tool \in Provisioner
  <2>1. FileOf(s) = Program(s.tool)[s.at] /\ s.at \in 1..Len(Program(s.tool))
    BY <1>1, <1>2, Lengths DEF FileOf
  <2>2. Places(s.tool, s.at, FileOf(s))
    BY <1>2, <2>1, ProgramFiles
  <2>3. FileOf(s) \in File \ {"dirs"}
    BY <2>2 DEF Places
  <2> QED
    BY <1>2, <2>1, <2>2, <2>3 DEF Provisioner
<1>5. CASE s.tool = "recover"
  <2>1. FileOf(s) = RecoveryFiles[s.at] /\ s.at \in 1..2
    BY <1>1, <1>5, Lengths DEF FileOf
  <2>2. s.at = 1 \/ s.at = 2
    BY <2>1
  <2>3. FileOf(s) = IF s.at = 1 THEN "gkey" ELSE "marker"
    BY <2>1, <2>2 DEF RecoveryFiles
  <2>4. FileOf(s) \in File \ {"dirs"}
    BY <2>3 DEF File, Root
  <2> QED
    BY <1>5, <2>1, <2>2, <2>3, <2>4 DEF Provisioner
<1>6. CASE s.tool = "attach"
  <2>1. FileOf(s) = AttachFiles[s.at] /\ s.at \in 1..5
    BY <1>1, <1>6, Lengths DEF FileOf
  <2>2. s.at = 1 \/ s.at = 2 \/ s.at = 3 \/ s.at = 4 \/ s.at = 5
    BY <2>1
  <2>3. /\ FileOf(s) \in {"mwpub", "mca", "config", "tunnel", "receipt"}
        /\ FileOf(s) = "receipt" <=> s.at = 5
    BY <2>1, <2>2 DEF AttachFiles
  <2>4. FileOf(s) \in File \ {"dirs"}
    BY <2>3 DEF File, Root
  <2> QED
    BY <1>6, <2>1, <2>3, <2>4 DEF Provisioner
<1> QED
  BY <1>1, <1>2, <1>5, <1>6

----------------------------------------------------------------------------
(* Types, phases and the lock                                              *)

\* A run that has not started holds nothing.
LEMMA IdleIsPhased ==
    /\ Idle \in State /\ Phased(Idle) /\ Idle.pc = "idle" /\ Idle.at = 1 /\ Idle.key = None
    /\ Idle.tool = "provision" /\ ~Idle.undid /\ Idle.changed = {} /\ Idle.slip = {}
    /\ Idle.was.trust = NoTrust
<1>1. NoTrust \in [Key -> Level] /\ NoConfig \in Config
  BY DEF NoTrust, NoConfig, Level, Config
<1>2. Idle \in State
  BY <1>1 DEF Idle, State, Nothing, Level, Tool
<1> QED
  BY <1>2 DEF Idle, Phased, Writing, Reading, Nothing

\* A run that is over, or about to release the trust file's lock in its
\* finally clause, knows nothing any more.
LEMMA Endings ==
    ASSUME NEW s, NEW undid \in BOOLEAN, NEW end \in {"done", "failed", "manual"},
           \/ s = [Idle EXCEPT !.pc = "over", !.undid = undid]
           \/ s = [Idle EXCEPT !.pc = "release", !.undid = undid, !.end = end]
    PROVE  /\ s \in State /\ Phased(s) /\ s.tool = "provision" /\ s.key = None
           /\ s.pc \in {"over", "release"}
           /\ Locks(s) => s.pc = "release"
           /\ s.undid = undid /\ s.was.trust = NoTrust
<1>1. Idle \in State /\ Idle.tool = "provision" /\ Idle.key = None /\ Idle.was.trust = NoTrust
  BY IdleIsPhased
<1>3. /\ s \in State /\ s.tool = "provision" /\ s.pc \in {"over", "release"}
      /\ s.key = None /\ s.undid = undid /\ s.was.trust = NoTrust
  <2>1. CASE s = [Idle EXCEPT !.pc = "over", !.undid = undid]
    BY <1>1, <2>1 DEF State
  <2>2. CASE s = [Idle EXCEPT !.pc = "release", !.undid = undid, !.end = end]
    BY <1>1, <2>2 DEF State
  <2> QED
    BY <2>1, <2>2
<1> QED
  BY <1>3 DEF Phased, Writing, Reading, Locks

\* One run moves and the others stay: if the lock was nobody else's, types and
\* phases are kept.
LEMMA Moves ==
    ASSUME TypeOK, Phases, NEW r \in Run,
           run' \in [Run -> State], \A q \in Run \ {r} : run'[q] = run[q],
           Phased(run'[r]), DiskOK', Locks(run'[r]) => lock' = r,
           lock' = lock \/ lock \in {None, r}
    PROVE  TypeOK' /\ Phases'
<1>1. TypeOK'
  BY DEF TypeOK, DiskOK
<1>2. ASSUME NEW q \in Run \ {r}, Locks(run[q]) PROVE lock' = q
  BY <1>2, RunAssumption DEF Phases, Key
<1>3. \A q \in Run : Phased(run'[q]) /\ (Locks(run'[q]) => lock' = q)
  BY <1>2 DEF Phases
<1> QED
  BY <1>1, <1>3 DEF Phases

\* A run moves to another place, and what the others know stays.
LEMMA RunTypes ==
    ASSUME TypeOK, NEW r \in Run
    PROVE  /\ run[r] \in State /\ run[r].undid \in BOOLEAN /\ run[r].at \in Nat
           /\ \A new \in State : /\ [run EXCEPT ![r] = new] \in [Run -> State]
                                 /\ [run EXCEPT ![r] = new][r] = new
                                 /\ \A q \in Run \ {r} : [run EXCEPT ![r] = new][q] = run[q]
BY DEF TypeOK, State

\* A run that ends, killed or done, keeps types and phases.
LEMMA RunEnds ==
    ASSUME TypeOK, Phases, NEW r \in Run, End(r), DiskOK', lock' = lock \/ lock \in {None, r}
    PROVE  TypeOK' /\ Phases' /\ run'[r] = Over(r) /\ run'[r].pc = "over"
<1>1. /\ Over(r) \in State /\ Phased(Over(r)) /\ ~Locks(Over(r)) /\ Over(r).pc = "over"
  <2>1. run[r].undid \in BOOLEAN
    BY RunTypes
  <2>2. Over(r).pc = "over"
    BY DEF Over, Idle
  <2> QED
    BY <2>1, <2>2, Endings DEF Over
<1>2. /\ run' \in [Run -> State] /\ \A q \in Run \ {r} : run'[q] = run[q]
      /\ run'[r] = Over(r)
  BY <1>1, RunTypes DEF End
<1> QED
  BY <1>1, <1>2, Moves

\* A run that goes to the finally clause still has the lock.
LEMMA RunLeaves ==
    ASSUME TypeOK, Phases, NEW r \in Run, NEW end \in {"done", "failed", "manual"},
           Leave(r, end), DiskOK', lock = r, lock' = lock
    PROVE  TypeOK' /\ Phases' /\ run'[r] = Leaving(r, end) /\ run'[r].pc = "release"
<1>1. /\ Leaving(r, end) \in State /\ Phased(Leaving(r, end)) /\ Leaving(r, end).pc = "release"
  <2>1. run[r].undid \in BOOLEAN
    BY RunTypes
  <2>2. Leaving(r, end).pc = "release"
    BY DEF Leaving, Idle
  <2> QED
    BY <2>1, <2>2, Endings DEF Leaving
<1>2. /\ run' \in [Run -> State] /\ \A q \in Run \ {r} : run'[q] = run[q]
      /\ run'[r] = Leaving(r, end)
  BY <1>1, RunTypes DEF Leave
<1> QED
  BY <1>1, <1>2, Moves

\* A run that goes on to another place of its tool keeps types and phases.
LEMMA RunGoes ==
    ASSUME TypeOK, Phases, NEW r \in Run, NEW pc, Goto(r, pc), DiskOK', 
           [run[r] EXCEPT !.pc = pc] \in State, Phased([run[r] EXCEPT !.pc = pc]),
           Locks([run[r] EXCEPT !.pc = pc]) => lock' = r, lock' = lock \/ lock \in {None, r}
    PROVE  TypeOK' /\ Phases' /\ run'[r] = [run[r] EXCEPT !.pc = pc]
<1>2. /\ run' \in [Run -> State] /\ \A q \in Run \ {r} : run'[q] = run[q]
      /\ run'[r] = [run[r] EXCEPT !.pc = pc]
  BY RunTypes DEF Goto, TypeOK
<1> QED
  BY <1>2, Moves

\* Setting one file keeps the types of the disk.
LEMMA DiskTypes == ASSUME TypeOK, NEW f, NEW state \in {"absent", "torn", "whole"},
                          NEW whose \in Key \cup {None}
                   PROVE  /\ DiskOK
                          /\ [file EXCEPT ![f] = state] \in [File -> {"absent", "torn", "whole"}]
                          /\ [holds EXCEPT ![f] = whose] \in [File -> Key \cup {None}]
BY DEF TypeOK, DiskOK

\* _write_new makes the file exclusively; the run is then to fill it.
LEMMA RunCreates ==
    ASSUME TypeOK, Phases, NEW r \in Run, NEW f, Create(r, f), 
           ~(run[r].tool = "prepare" /\ run[r].at \in {16, 17})
    PROVE  TypeOK' /\ Phases' /\ run'[r] = [run[r] EXCEPT !.pc = "fill"]
<1>1. DiskOK' /\ lock' = lock
  BY DiskTypes DEF Create, SetFile, DiskOK, Key
<1>2. Goto(r, "fill") /\ run[r].pc = "create"
  BY DEF Goto, Create
<1>3. [run[r] EXCEPT !.pc = "fill"] \in State /\ run[r] \in State
  BY RunTypes DEF State
<1>4. Phased([run[r] EXCEPT !.pc = "fill"])
  BY <1>2, <1>3 DEF Phases, Phased, Writing, Reading, State
<1>5. Locks([run[r] EXCEPT !.pc = "fill"]) => Locks(run[r])
  BY <1>2, <1>3 DEF Locks, State
<1> QED
  BY <1>1, <1>2, <1>3, <1>4, <1>5, RunGoes DEF Phases

\* The except clause of _write_new: the file is removed, and the run is over
\* but for the lock.
LEMMA RunUnmakes ==
    ASSUME TypeOK, Phases, NEW r \in Run, NEW f, FillFails(r, f)
    PROVE  TypeOK' /\ Phases' /\ run'[r] \in {Over(r), Leaving(r, "failed")}
           /\ run'[r].pc \in {"over", "release"}
<1>1. DiskOK' /\ lock' = lock
  BY DiskTypes DEF FillFails, SetFile, DiskOK
<1>2. CASE lock = r
  <2>1. Leave(r, "failed")
    BY <1>2 DEF FillFails, Leave
  <2> QED
    BY <1>1, <1>2, <2>1, RunLeaves
<1>3. CASE lock # r
  <2>1. End(r)
    BY <1>3 DEF FillFails, End
  <2> QED
    BY <1>1, <2>1, RunEnds
<1> QED
  BY <1>2, <1>3

\* A file is written; the run goes on to the next one of its program.
LEMMA RunAdvances ==
    ASSUME TypeOK, Phases, NEW r \in Run, NEW next \in {"over", "create", "backup"},
           NextFile(r, next), DiskOK', lock' = lock, Writing(run[r]),
           next = "create" => run[r].at < Last(run[r].tool),
           next = "backup" => run[r].tool = "recover"
    PROVE  /\ TypeOK' /\ Phases'
           /\ run'[r] = IF next = "over" THEN Over(r)
                                         ELSE [run[r] EXCEPT !.pc = next, !.at = @ + 1]
<1>1. CASE next = "over"
  BY <1>1, RunEnds DEF NextFile, End
<1>2. CASE next # "over"
  <2> DEFINE new == [run[r] EXCEPT !.pc = next, !.at = @ + 1]
  <2>1. run[r] \in State /\ Phased(run[r]) /\ (Locks(run[r]) => lock = r)
    BY RunTypes DEF Phases
  <2>2. /\ new \in State /\ new.pc = next /\ new.at = run[r].at + 1 /\ new.tool = run[r].tool
        /\ new.level = run[r].level
    <3>1. run[r].at + 1 \in Nat /\ next \in {"create", "backup"}
      BY <1>2, RunTypes
    <3> QED
      BY <2>1, <3>1 DEF State
  <2>3. run' \in [Run -> State] /\ run'[r] = new /\ \A q \in Run \ {r} : run'[q] = run[q]
    BY <1>2, <2>1, <2>2 DEF NextFile, TypeOK
  <2>4. run[r].at \in 1..Last(run[r].tool) /\ Last(run[r].tool) \in Nat
    BY <2>1 DEF Phased, Last
  <2> HIDE DEF new
  <2>5. Phased(new)
    BY <1>2, <2>1, <2>2, <2>4 DEF Phased, Writing, Reading, Upgrader, Provisioner
  <2>6. Locks(new) => lock' = r
    BY <1>2, <2>1, <2>2 DEF Locks, Writing
  <2> QED
    BY <1>2, <2>3, <2>5, <2>6, Moves DEF new
<1> QED
  BY <1>1, <1>2

----------------------------------------------------------------------------

\* Every step of the provisioners keeps types, phases and the lock.
LEMMA ProvisionPhases ==
    ASSUME TypeOK, Phases, NEW r \in Run, Provision(r)
    PROVE  TypeOK' /\ Phases'
<1>1. ASSUME NEW tool \in Provisioner, NEW level \in {2, 3}, Begin(r, tool, level)
      PROVE  TypeOK' /\ Phases'
  <2> DEFINE new == [Idle EXCEPT !.tool = tool, !.pc = "create", !.level = level]
  <2>1. DiskOK' /\ lock' = lock
    BY <1>1 DEF Begin, DiskOK, TypeOK
  <2>2. /\ new \in State /\ new.tool = tool /\ new.pc = "create" /\ new.at = 1
        /\ new.level = level
    <3>1. level \in Level /\ tool \in Tool
      BY DEF Provisioner, Tool, Level
    <3>2. Idle.at = 1
      BY IdleIsPhased
    <3> QED
      BY <3>1, <3>2, IdleIsPhased DEF State
  <2>3. run' \in [Run -> State] /\ run'[r] = new /\ \A q \in Run \ {r} : run'[q] = run[q]
    BY <1>1, <2>2, RunTypes DEF Begin
  <2> HIDE DEF new
  <2>4. 1 \in 1..Last(tool)
    BY DEF Last
  <2>5. Phased(new) /\ ~Locks(new)
    BY <2>2, <2>4 DEF Phased, Locks, Writing, Reading, Provisioner
  <2> QED
    BY <2>1, <2>3, <2>5, Moves
<1>2. CASE StartProvision(r) \/ StartBootstrap(r) \/ StartPrepare(r)
  BY <1>1, <1>2 DEF StartProvision, StartBootstrap, StartPrepare, Provisioner
<1>3. CASE CreateNext(r)
  BY <1>3, RunCreates DEF CreateNext, Unlinking
<1>4. CASE FillNext(r)
  <2>1. Writing(run[r]) /\ run[r].tool \in Provisioner /\ Phased(run[r]) /\ run[r] \in State
    BY <1>4, RunTypes DEF FillNext, Writing, Phases
  <2>2. /\ FileOf(run[r]) = Current(r) /\ run[r].at \in 1..Len(Program(run[r].tool))
        /\ Current(r) \in File
    BY <2>1, FilesInOrder DEF Current
  <2>3. NextFile(r, AfterThis(r)) /\ lock' = lock
    BY <1>4 DEF FillNext, Fill
  <2>4. AfterThis(r) \in {"over", "create"}
        /\ (AfterThis(r) = "create" => run[r].at < Last(run[r].tool))
    <3>1. Len(Program(run[r].tool)) = Last(run[r].tool) /\ Last(run[r].tool) \in Nat
      BY <2>1, Lengths DEF Last
    <3> QED
      BY <2>2, <3>1 DEF AfterThis
  <2>5. file' \in [File -> {"absent", "torn", "whole"}]
    BY <1>4, DiskTypes DEF FillNext, Fill, SetFile
  <2>6. holds' \in [File -> Key \cup {None}]
    <3>1. IF Current(r) \in {"xckey", "xcpub", "xwpub", "xca"}
          THEN holds[Source(Current(r))] \in Key \cup {None} ELSE TRUE
      BY DEF TypeOK, Source, File, Identity
    <3> QED
      BY <1>4, <3>1, DiskTypes DEF FillNext, Fill, SetFile, Key
  <2>7. run[r].level \in {2, 3}
    BY <2>1 DEF Phased
  <2>8. trust' \in [Key -> Level] /\ exec' \in BOOLEAN /\ config' \in Config
    <3>1. /\ trust \in [Key -> Level] /\ exec \in BOOLEAN /\ config \in Config
          /\ trust' \in {trust, [NoTrust EXCEPT ![r] = run[r].level]}
          /\ exec' \in {exec, run[r].level = 3}
          /\ config' \in {config, [by |-> "bootstrap", key |-> "ckey",
                                  req |-> run[r].level, ops |-> run[r].level]}
      BY <1>4 DEF FillNext, Write, TypeOK
    <3>2. [NoTrust EXCEPT ![r] = run[r].level] \in [Key -> Level]
      <4>1. NoTrust \in [Key -> Level] /\ run[r].level \in Level
        BY <2>7 DEF NoTrust, Level
      <4> QED
        BY <4>1
    <3>3. [by |-> "bootstrap", key |-> "ckey", req |-> run[r].level, ops |-> run[r].level] \in Config
      BY <2>7 DEF Config
    <3>4. (run[r].level = 3) \in BOOLEAN
      OBVIOUS
    <3> QED
      BY <3>1, <3>2, <3>3, <3>4
  <2>9. DiskOK'
    BY <2>3, <2>5, <2>6, <2>8 DEF DiskOK, TypeOK
  <2> QED
    BY <2>1, <2>3, <2>4, <2>9, RunAdvances
<1>5. CASE FillNextFails(r)
  BY <1>5, RunUnmakes DEF FillNextFails
<1>6. CASE Unlink(r)
  <2> DEFINE new == [run[r] EXCEPT !.at = @ + 1]
  <2>1. run[r] \in State /\ Phased(run[r]) /\ (Locks(run[r]) => lock = r)
    BY RunTypes DEF Phases
  <2>2. /\ new \in State /\ new.pc = run[r].pc /\ new.at = run[r].at + 1 /\ new.tool = run[r].tool
        /\ new.level = run[r].level
    BY <2>1 DEF State
  <2>3. /\ run' \in [Run -> State] /\ run'[r] = new /\ \A q \in Run \ {r} : run'[q] = run[q]
    BY <1>6, <2>1, <2>2 DEF Unlink, TypeOK
  <2>4. run[r].pc = "create" /\ run[r].tool = "prepare" /\ run[r].at \in {16, 17}
    BY <1>6 DEF Unlink, Unlinking
  <2>5. run[r].at + 1 \in 1..Last("prepare")
    BY <2>4, Lengths
  <2>6. DiskOK' /\ lock' = lock
    BY <1>6, DiskTypes DEF Unlink, SetFile, DiskOK
  <2> HIDE DEF new
  <2>7. Phased(new) /\ ~Locks(new)
    BY <2>1, <2>2, <2>4, <2>5 DEF Phased, Locks, Writing, Reading, Provisioner
  <2> QED
    BY <2>3, <2>6, <2>7, Moves
<1> QED
  BY <1>2, <1>3, <1>4, <1>5, <1>6 DEF Provision

\* A run that takes up a new state keeps types and phases if that state does.
LEMMA RunBecomes ==
    ASSUME TypeOK, Phases, NEW r \in Run, NEW new \in State, run' = [run EXCEPT ![r] = new],
           Phased(new), DiskOK', Locks(new) => lock' = r, lock' = lock \/ lock \in {None, r}
    PROVE  TypeOK' /\ Phases' /\ run'[r] = new
<1>1. run' \in [Run -> State] /\ run'[r] = new /\ \A q \in Run \ {r} : run'[q] = run[q]
  BY RunTypes
<1> QED
  BY <1>1, Moves

\* A step that only reads leaves the disk's types and the lock.
LEMMA SameDisk == ASSUME TypeOK, UNCHANGED disk PROVE DiskOK' /\ lock' = lock
BY DEF TypeOK, DiskOK, disk

\* A backup is made by _write_or_verify, or the run dies while it makes it.
LEMMA RunKeeps ==
    ASSUME TypeOK, Phases, NEW r \in Run, NEW kind, NEW content, NEW next,
           Keep(r, kind, content, next)
    PROVE  /\ DiskOK' /\ lock' = lock
           /\ run' = next \/ (TypeOK' /\ Phases' /\ run'[r] = Over(r) /\ run'[r].pc = "over")
<1>1. DiskOK' /\ lock' = lock
  BY DEF TypeOK, DiskOK, Keep
<1>2. CASE End(r)
  BY <1>1, <1>2, RunEnds
<1>3. CASE run' = next
  BY <1>1, <1>3
<1> QED
  BY <1>2, <1>3 DEF Keep

\* Every step of ensure_readonly_controller keeps types, phases and the lock.
LEMMA RecoverPhases ==
    ASSUME TypeOK, Phases, NEW r \in Run, Recover(r)
    PROVE  TypeOK' /\ Phases'
<1>0. /\ run[r] \in State /\ Phased(run[r]) /\ run \in [Run -> State]
      /\ run[r].tool = "recover" /\ run[r].pc \in {"look", "create", "fill", "backup", "put", "verify"} =>
            lock = r
      /\ trust \in [Key -> Level]
  BY RunTypes DEF Phases, Locks, TypeOK
<1>1. CASE StartRecover(r)
  <2> DEFINE new == [Idle EXCEPT !.tool = "recover", !.pc = "lock"]
  <2>1. new \in State /\ new.tool = "recover" /\ new.pc = "lock" /\ new.at = 1
    BY IdleIsPhased DEF State, Tool
  <2>2. run' = [run EXCEPT ![r] = new] /\ DiskOK' /\ lock' = lock
    BY <1>1, SameDisk DEF StartRecover
  <2> HIDE DEF new
  <2>3. Phased(new) /\ ~Locks(new)
    BY <2>1 DEF Phased, Locks, Writing, Reading, Upgrader
  <2> QED
    BY <2>1, <2>2, <2>3, RunBecomes
<1>2. CASE ReuseEnrolled(r) \/ VerifyEnrolled(r) \/ RecoverFails(r)
  <2>1. /\ Leave(r, "done") \/ Leave(r, "failed")
        /\ lock = r /\ DiskOK' /\ lock' = lock
    BY <1>0, <1>2, SameDisk DEF ReuseEnrolled, VerifyEnrolled, RecoverFails, Looking
  <2> QED
    BY <2>1, RunLeaves
<1>3. CASE ResumeGenerated(r)
  <2> DEFINE new == [run[r] EXCEPT !.pc = "backup", !.key = holds["gkey"], !.was.trust = trust]
  <2>1. run[r].tool = "recover" /\ run[r].pc = "look" /\ lock = r /\ DiskOK' /\ lock' = lock
    BY <1>0, <1>3, SameDisk DEF ResumeGenerated, Looking
  <2>5. run' = [run EXCEPT ![r] = new]
    BY <1>0, <1>3 DEF ResumeGenerated
  <2>2. new \in State /\ new.tool = "recover" /\ new.pc = "backup"
    <3>1. holds["gkey"] \in Key \cup {None}
      BY DEF TypeOK, File, Root
    <3> QED
      BY <1>0, <2>1, <3>1 DEF State
  <2> HIDE DEF new
  <2>3. Phased(new)
    BY <2>2 DEF Phased, Writing, Reading, Upgrader
  <2> QED
    BY <2>1, <2>2, <2>3, <2>5, RunBecomes
<1>4. CASE GenerateKey(r)
  <2> DEFINE new == [run[r] EXCEPT !.pc = "create", !.key = r, !.was.trust = trust]
  <2>1. run[r].tool = "recover" /\ run[r].pc = "look" /\ lock = r /\ DiskOK' /\ lock' = lock
    BY <1>0, <1>4, SameDisk DEF GenerateKey, Looking
  <2>5. run' = [run EXCEPT ![r] = new]
    BY <1>0, <1>4 DEF GenerateKey
  <2>2. new \in State /\ new.tool = "recover" /\ new.pc = "create" /\ new.at = run[r].at
    BY <1>0, <2>1 DEF State, Key
  <2> HIDE DEF new
  <2>3. new.at \in 1..Last("recover")
    BY <1>0, <2>1, <2>2, Lengths DEF Phased
  <2>4. Phased(new)
    BY <2>2, <2>3 DEF Phased, Writing, Reading, Upgrader, Provisioner
  <2> QED
    BY <2>1, <2>2, <2>4, <2>5, RunBecomes
<1>5. CASE WriteRecoveryFile(r)
  <2> DEFINE f == RecoveryFiles[run[r].at]
             next == IF f = "marker" THEN "backup" ELSE "create"
  <2>1. Writing(run[r]) /\ run[r].tool = "recover" /\ f = FileOf(run[r])
        /\ f = (IF run[r].at = 1 THEN "gkey" ELSE "marker") /\ run[r].at \in {1, 2}
    BY <1>0, <1>5, FilesInOrder DEF WriteRecoveryFile, Writing
  <2>2. CASE Create(r, f)
    BY <2>1, <2>2, RunCreates
  <2>3. CASE FillFails(r, f)
    BY <2>3, RunUnmakes
  <2>4. CASE Fill(r, f, r, next) /\ UNCHANGED <<trust, config, exec>>
    <3>1. NextFile(r, next) /\ lock' = lock /\ DiskOK'
      BY <2>4, DiskTypes DEF Fill, SetFile, DiskOK, Key
    <3>2. next \in {"create", "backup"} /\ (next = "create" => run[r].at < Last(run[r].tool))
      BY <2>1, Lengths
    <3> QED
      BY <2>1, <3>1, <3>2, RunAdvances
  <2> QED
    BY <1>5, <2>2, <2>3, <2>4 DEF WriteRecoveryFile
<1>6. CASE BackupTrust(r)
  <2> DEFINE new == [run[r] EXCEPT !.pc = "put"]
             next == [run EXCEPT ![r].pc = "put"]
  <2>1. Keep(r, "trust", trust, next) /\ run[r].tool = "recover" /\ run[r].pc = "backup" /\ lock = r
    BY <1>0, <1>6 DEF BackupTrust
  <2>2. CASE run' = next
    <3>1. Goto(r, "put") /\ DiskOK' /\ lock' = lock
      BY <2>1, <2>2, RunKeeps DEF Goto
    <3>2. new \in State /\ new.tool = "recover" /\ new.pc = "put"
      BY <1>0, <2>1 DEF State
    <3>3. Phased(new)
      BY <3>2 DEF Phased, Writing, Reading, Upgrader
    <3> QED
      BY <2>1, <3>1, <3>2, <3>3, RunGoes
  <2> QED
    BY <2>1, <2>2, RunKeeps
<1>7. CASE Enroll(r)
  <2> DEFINE new == [run[r] EXCEPT !.pc = "verify"]
  <2>1. run[r].tool = "recover" /\ run[r].pc = "put" /\ lock = r /\ lock' = lock
    BY <1>0, <1>7 DEF Enroll, Install
  <2>2. DiskOK'
    <3>1. trust' = [run[r].was.trust EXCEPT ![run[r].key] = 1]
      BY <1>7 DEF Enroll, Install, Enrolled
    <3>2. trust' \in [Key -> Level]
      <4>1. run[r].was.trust \in [Key -> Level] /\ 1 \in Level
        BY <1>0 DEF State, Level
      <4> QED
        BY <3>1, <4>1
    <3> QED
      BY <1>7, <3>2 DEF Enroll, Install, DiskOK, TypeOK
  <2>3. CASE Goto(r, "verify")
    <3>1. new \in State /\ new.tool = "recover" /\ new.pc = "verify"
      BY <1>0, <2>1 DEF State
    <3>2. Phased(new)
      BY <3>1 DEF Phased, Writing, Reading, Upgrader
    <3> QED
      BY <2>1, <2>2, <2>3, <3>1, <3>2, RunGoes
  <2>4. CASE Leave(r, "failed")
    BY <2>1, <2>2, <2>4, RunLeaves
  <2> QED
    BY <1>7, <2>3, <2>4 DEF Enroll
<1> QED
  BY <1>1, <1>2, <1>3, <1>4, <1>5, <1>6, <1>7 DEF Recover

\* Every step of the attach tool keeps types and phases; it takes no lock.
LEMMA AttachPhases ==
    ASSUME TypeOK, Phases, NEW r \in Run, Attach(r)
    PROVE  TypeOK' /\ Phases'
<1>0. run[r] \in State /\ Phased(run[r])
  BY RunTypes DEF Phases
<1>1. CASE StartAttach(r)
  <2>1. PICK path \in {"ckey", "gkey"} :
            run' = [run EXCEPT ![r] = [Idle EXCEPT !.tool = "attach", !.pc = "look", !.path = path]]
    BY <1>1 DEF StartAttach
  <2> DEFINE new == [Idle EXCEPT !.tool = "attach", !.pc = "look", !.path = path]
  <2>2. new \in State /\ new.tool = "attach" /\ new.pc = "look" /\ new.at = 1
    BY IdleIsPhased DEF State, Tool
  <2>3. run' = [run EXCEPT ![r] = new] /\ DiskOK' /\ lock' = lock
    BY <1>1, <2>1, SameDisk DEF StartAttach
  <2> HIDE DEF new
  <2>4. Phased(new) /\ ~Locks(new)
    BY <2>2 DEF Phased, Locks, Writing, Reading, Upgrader
  <2> QED
    BY <2>2, <2>3, <2>4, RunBecomes
<1>2. CASE AttachLooks(r)
  <2> DEFINE new == [run[r] EXCEPT !.pc = "create"]
  <2>1. /\ run[r].tool = "attach" /\ run[r].pc = "look" /\ Goto(r, "create")
        /\ DiskOK' /\ lock' = lock
    BY <1>2, SameDisk DEF AttachLooks
  <2>2. new \in State /\ new.tool = "attach" /\ new.pc = "create" /\ new.at = 1
    BY <1>0, <2>1 DEF State, Phased
  <2>3. 1 \in 1..Last("attach")
    BY Lengths
  <2>4. Phased(new) /\ ~Locks(new)
    BY <2>2, <2>3 DEF Phased, Locks, Writing, Reading, Upgrader, Provisioner
  <2> QED
    BY <2>1, <2>2, <2>4, RunGoes
<1>3. CASE WriteAttachFile(r)
  <2> DEFINE f == AttachFiles[run[r].at]
             next == IF f = "receipt" THEN "over" ELSE "create"
  <2>1. /\ Writing(run[r]) /\ run[r].tool = "attach" /\ f = FileOf(run[r]) /\ f \in File
        /\ (f = "receipt" <=> run[r].at = 5) /\ run[r].at \in 1..5
    BY <1>0, <1>3, FilesInOrder DEF WriteAttachFile, Writing
  <2>2. next \in {"over", "create"} /\ (next = "create" => run[r].at < Last(run[r].tool))
    BY <2>1, Lengths
  <2>3. CASE Create(r, f)
    BY <2>1, <2>3, RunCreates
  <2>4. CASE FillFails(r, f)
    BY <2>4, RunUnmakes
  <2>5. CASE Reuse(r, f, next)
    <3>1. NextFile(r, next) /\ DiskOK' /\ lock' = lock
      BY <2>5, SameDisk DEF Reuse
    <3> QED
      BY <2>1, <2>2, <3>1, RunAdvances
  <2>6. CASE /\ Fill(r, f, AttachHolds(f), next)
             /\ config' = IF f = "config" THEN Attached(r) ELSE config
             /\ UNCHANGED <<trust, exec>>
    <3>1. AttachHolds(f) \in Key \cup {None}
      BY DEF AttachHolds, TypeOK, File, Identity
    <3>2. Attached(r) \in Config
      BY <1>0 DEF Attached, Config, State
    <3>3. NextFile(r, next) /\ lock' = lock /\ DiskOK'
      BY <2>6, <3>1, <3>2, DiskTypes DEF Fill, SetFile, DiskOK
    <3> QED
      BY <2>1, <2>2, <3>3, RunAdvances
  <2> QED
    BY <1>3, <2>3, <2>4, <2>5, <2>6 DEF WriteAttachFile
<1> QED
  BY <1>1, <1>2, <1>3 DEF Attach

\* What an upgrade replaces, in its order: the trust list, the configuration
\* and, for full control, the service.
LEMMA TargetOrder ==
    ASSUME NEW tool \in Upgrader, NEW i \in 1..Len(Targets(tool))
    PROVE  /\ Len(Targets(tool)) \in {2, 3}
           /\ Len(Targets(tool)) = 3 <=> tool = "fullcontrol"
           /\ Targets(tool)[i] = (CASE i = 1 -> "trust" [] i = 2 -> "config" [] i = 3 -> "service")
           /\ i = 1 \/ i = 2 \/ (i = 3 /\ tool = "fullcontrol")
<1>1. CASE tool = "fullcontrol"
  <2>1. Len(Targets(tool)) = 3
    BY <1>1 DEF Targets
  <2>2. i = 1 \/ i = 2 \/ i = 3
    BY <2>1
  <2>3. Targets(tool)[i] = (CASE i = 1 -> "trust" [] i = 2 -> "config" [] i = 3 -> "service")
    BY <1>1, <2>2 DEF Targets
  <2> QED
    BY <1>1, <2>1, <2>2, <2>3
<1>2. CASE tool = "readwrite"
  <2>1. Len(Targets(tool)) = 2
    BY <1>2 DEF Targets
  <2>2. i = 1 \/ i = 2
    BY <2>1
  <2>3. Targets(tool)[i] = (CASE i = 1 -> "trust" [] i = 2 -> "config" [] i = 3 -> "service")
    BY <1>2, <2>2 DEF Targets
  <2> QED
    BY <1>2, <2>1, <2>2, <2>3
<1> QED
  BY <1>1, <1>2 DEF Upgrader

\* Every step of the two upgrades keeps types, phases and the lock.
LEMMA UpgradePhases ==
    ASSUME TypeOK, Phases, NEW r \in Run, UpgradeStep(r)
    PROVE  TypeOK' /\ Phases'
<1> DEFINE s == run[r]
<1>0. /\ run \in [Run -> State] /\ s \in State /\ Phased(s)
      /\ s.pc \in {"recheck", "backup", "put", "verify", "undo"} => lock = r
      /\ trust \in [Key -> Level] /\ config \in Config /\ exec \in BOOLEAN
  BY RunTypes DEF Phases, Locks, TypeOK
\* One more file is read; what is known of it is kept.
<1>1. ASSUME UNCHANGED disk, s.pc \in Reading \cup {"recheck"},
             NEW new \in State, run' = [run EXCEPT ![r] = new],
             new.tool = s.tool, new.at = s.at,
             \/ new.pc \in Reading \cup {"lock"}
             \/ new.pc = "backup" /\ s.pc = "recheck"
      PROVE  TypeOK' /\ Phases'
  <2>1. s.tool \in Upgrader /\ s.at = 1
    BY <1>0, <1>1 DEF Phased
  <2>2. 1 \in 1..Len(Targets(s.tool))
    BY <2>1 DEF Upgrader, Targets
  <2>3. Phased(new) /\ (Locks(new) => s.pc = "recheck")
    BY <1>1, <2>1, <2>2 DEF Phased, Locks, Writing, Reading, Upgrader, Provisioner
  <2> QED
    BY <1>0, <1>1, <2>3, SameDisk, RunBecomes
<1> HIDE DEF s
<1>2. CASE StartUpgrade(r)
  <2>1. PICK tool \in {"readwrite", "fullcontrol"} :
            run' = [run EXCEPT ![r] = [Idle EXCEPT !.tool = tool, !.pc = "service"]]
    BY <1>2 DEF StartUpgrade
  <2> DEFINE new == [Idle EXCEPT !.tool = tool, !.pc = "service"]
  <2>2. new \in State /\ new.tool = tool /\ new.pc = "service" /\ new.at = 1
    BY IdleIsPhased DEF State, Tool, Reading
  <2>3. run' = [run EXCEPT ![r] = new] /\ DiskOK' /\ lock' = lock
    BY <1>2, <2>1, SameDisk DEF StartUpgrade
  <2> HIDE DEF new
  <2>4. Phased(new) /\ ~Locks(new)
    BY <2>2 DEF Phased, Locks, Writing, Reading, Upgrader
  <2> QED
    BY <2>2, <2>3, <2>4, RunBecomes
<1>3. CASE ReadService(r) \/ Recheck(r)
  <2> DEFINE pc == IF s.pc = "service" THEN "config" ELSE "backup"
             new == [s EXCEPT !.pc = pc]
  <2>1. s.pc \in {"service", "recheck"} /\ run' = [run EXCEPT ![r].pc = pc] /\ UNCHANGED disk
    BY <1>3 DEF ReadService, Recheck, Goto, s
  <2>2. new \in State /\ new.tool = s.tool /\ new.at = s.at /\ new.pc = pc
    BY <1>0 DEF State, Reading
  <2>3. run' = [run EXCEPT ![r] = new]
    BY <1>0, <2>1 DEF s
  <2> HIDE DEF new
  <2> QED
    BY <1>1, <2>1, <2>2, <2>3 DEF Reading
<1>4. CASE ReadConfig(r)
  <2> DEFINE new == [s EXCEPT !.pc = "ident", !.key = holds[config.key]]
  <2>1. s.pc = "config" /\ UNCHANGED disk
    BY <1>4 DEF ReadConfig, s
  <2>2. new \in State /\ new.tool = s.tool /\ new.at = s.at /\ new.pc = "ident"
    <3>1. holds[config.key] \in Key \cup {None}
      BY <1>0 DEF TypeOK, Config, File, Identity, Root
    <3> QED
      BY <1>0, <3>1 DEF State, Reading
  <2>3. run' = [run EXCEPT ![r] = new]
    BY <1>0, <1>4 DEF ReadConfig, s
  <2> HIDE DEF new
  <2> QED
    BY <1>1, <2>1, <2>2, <2>3 DEF Reading
<1>5. CASE ReadIdentity(r)
  <2> DEFINE new == [s EXCEPT !.pc = "trust", !.level = trust[s.key]]
  <2>1. s.pc = "ident" /\ UNCHANGED disk /\ trust[s.key] \in Sources(s.tool)
    BY <1>5 DEF ReadIdentity, s
  <2>2. new \in State /\ new.tool = s.tool /\ new.at = s.at /\ new.pc = "trust"
    <3>1. trust[s.key] \in Level
      BY <2>1 DEF Sources, Goal, Level
    <3> QED
      BY <1>0, <3>1 DEF State, Reading
  <2>3. run' = [run EXCEPT ![r] = new]
    BY <1>0, <1>5 DEF ReadIdentity, s
  <2> HIDE DEF new
  <2> QED
    BY <1>1, <2>1, <2>2, <2>3 DEF Reading
<1>6. CASE ReadTrust(r)
  <2> DEFINE new == [s EXCEPT !.pc = "config2", !.was.trust = trust]
  <2>1. s.pc = "trust" /\ UNCHANGED disk
    BY <1>6 DEF ReadTrust, s
  <2>2. new \in State /\ new.tool = s.tool /\ new.at = s.at /\ new.pc = "config2"
    BY <1>0 DEF State, Reading
  <2>3. run' = [run EXCEPT ![r] = new]
    BY <1>0, <1>6 DEF ReadTrust, s
  <2> HIDE DEF new
  <2> QED
    BY <1>1, <2>1, <2>2, <2>3 DEF Reading
<1>7. CASE ReadConfigAgain(r)
  <2> DEFINE pc == IF s.tool = "fullcontrol" THEN "service2" ELSE "lock"
             new == [s EXCEPT !.pc = pc, !.was.config = config]
  <2>1. s.pc = "config2" /\ UNCHANGED disk
    BY <1>7 DEF ReadConfigAgain, s
  <2>2. new \in State /\ new.tool = s.tool /\ new.at = s.at /\ new.pc = pc
    BY <1>0 DEF State, Reading
  <2>3. run' = [run EXCEPT ![r] = new]
    BY <1>0, <1>7 DEF ReadConfigAgain, s
  <2> HIDE DEF new
  <2> QED
    BY <1>1, <2>1, <2>2, <2>3 DEF Reading
<1>8. CASE ReadServiceAgain(r)
  <2> DEFINE new == [s EXCEPT !.pc = "lock", !.was.exec = exec]
  <2>1. s.pc = "service2" /\ UNCHANGED disk
    BY <1>8 DEF ReadServiceAgain, s
  <2>2. new \in State /\ new.tool = s.tool /\ new.at = s.at /\ new.pc = "lock"
    BY <1>0 DEF State, Reading
  <2>3. run' = [run EXCEPT ![r] = new]
    BY <1>0, <1>8 DEF ReadServiceAgain, s
  <2> HIDE DEF new
  <2> QED
    BY <1>1, <2>1, <2>2, <2>3 DEF Reading
<1>9. CASE UpgradeFails(r)
  <2>1. Leave(r, "failed") /\ lock = r /\ DiskOK' /\ lock' = lock
    BY <1>0, <1>9, SameDisk DEF UpgradeFails, s
  <2> QED
    BY <2>1, RunLeaves
<1>15. ASSUME NEW n \in {2, 3}, s.at \in 1..n
       PROVE  1 \in 1..n /\ s.at + 1 \in Nat /\ (s.at # n => s.at + 1 \in 1..n)
  BY <1>15
\* The steps under the lock, among the targets.
<1>10. ASSUME s.tool \in Upgrader, s.pc \in {"backup", "put", "verify", "undo"},
              NEW new \in State, run' = [run EXCEPT ![r] = new], new.tool = s.tool,
              new.at \in 1..Len(Targets(s.tool)), DiskOK', lock' = lock,
              new.pc \in {"backup", "put", "verify"} \/ (new.pc = "undo" /\ new.undid)
       PROVE  TypeOK' /\ Phases'
  <2>1. Phased(new)
    BY <1>10 DEF Phased, Writing, Reading, Upgrader, Provisioner
  <2> QED
    BY <1>0, <1>10, <2>1, RunBecomes
<1>11. CASE BackupNext(r)
  <2> DEFINE n == Len(Targets(s.tool))
             new == IF s.at = n THEN [s EXCEPT !.pc = "put", !.at = 1] ELSE [s EXCEPT !.at = @ + 1]
             next == IF s.at = n THEN [run EXCEPT ![r].pc = "put", ![r].at = 1]
                                 ELSE [run EXCEPT ![r].at = @ + 1]
  <2>1. s.tool \in Upgrader /\ s.pc = "backup" /\ s.at \in 1..n
    BY <1>0, <1>11 DEF BackupNext, Phased, s, Upgrader
  <2>2. n \in {2, 3}
    BY <2>1, TargetOrder
  <2>3. \E kind, content : Keep(r, kind, content, next)
    <3> DEFINE kind == Targets(s.tool)[s.at]
    <3>1. kind \in {"trust", "config", "service"}
      BY <2>1, TargetOrder
    <3>2. /\ kind = "trust" => Keep(r, kind, run[r].was.trust, next)
          /\ kind = "config" => Keep(r, kind, run[r].was.config, next)
          /\ kind = "service" => Keep(r, kind, run[r].was.exec, next)
      BY <1>11 DEF BackupNext, s
    <3> QED
      BY <3>1, <3>2
  <2>4. CASE run' = next
    <3>1. DiskOK' /\ lock' = lock
      BY <2>3, RunKeeps
    <3>2. run' = [run EXCEPT ![r] = new]
      BY <1>0, <2>4 DEF s
    <3> HIDE DEF n
    <3>3. 1 \in 1..n /\ s.at + 1 \in Nat /\ (s.at # n => s.at + 1 \in 1..n)
      BY <1>15, <2>1, <2>2
    <3>4. new \in State
      BY <1>0, <3>3 DEF State
    <3>5. new.tool = s.tool /\ new.pc \in {"backup", "put"} /\ new.at \in 1..n
      BY <1>0, <2>1, <3>3 DEF State
    <3> QED
      BY <1>10, <2>1, <3>1, <3>2, <3>4, <3>5 DEF n
  <2> QED
    BY <2>3, <2>4, RunKeeps
<1>12. CASE Put(r)
  <2> DEFINE n == Len(Targets(s.tool))
             f == Targets(s.tool)[s.at]
  <2>1. s.tool \in Upgrader /\ s.pc = "put" /\ s.at \in 1..n
    BY <1>0, <1>12 DEF Put, Phased, s, Upgrader
  <2>2. n \in {2, 3} /\ f \in Target
    BY <2>1, TargetOrder DEF Target
  <2>3. DiskOK' /\ lock' = lock
    <3>1. CASE UNCHANGED disk
      BY <3>1, SameDisk
    <3>2. CASE Install(f, Wanted(r))
      <4>1. Goal(s.tool) \in 1..3 /\ Goal(s.tool) \in Level
        BY DEF Goal, Level
      <4>2. Wanted(r).trust \in [Key -> Level]
        BY <1>0, <4>1 DEF Wanted, State, s
      <4>3. Wanted(r).config \in Config
        BY <1>0, <4>1 DEF Wanted, State, Config, s
      <4>4. Wanted(r).exec
        BY DEF Wanted
      <4> HIDE DEF f
      <4> QED
        BY <1>0, <3>2, <4>2, <4>3, <4>4 DEF Install, DiskOK, TypeOK
    <3> QED
      BY <1>12, <3>1, <3>2 DEF Put, s
  <2>4. CASE \E c \in {{}, {f}} : Advance(r, c)
    <3>1. PICK c \in {{}, {f}} : Advance(r, c)
      BY <2>4
    <3> DEFINE new == IF s.at = n THEN [s EXCEPT !.pc = "verify", !.at = 1, !.changed = @ \cup c]
                                  ELSE [s EXCEPT !.at = @ + 1, !.changed = @ \cup c]
    <3>2. run' = [run EXCEPT ![r] = new]
      BY <1>0, <3>1 DEF Advance, s
    <3> HIDE DEF n
    <3>3. s.changed \cup c \in SUBSET Target
      BY <1>0, <2>2, <3>1 DEF State
    <3>4. 1 \in 1..n /\ s.at + 1 \in Nat /\ (s.at # n => s.at + 1 \in 1..n)
      BY <1>15, <2>1, <2>2
    <3>5. new \in State
      BY <1>0, <3>3, <3>4 DEF State
    <3>6. new.tool = s.tool /\ new.pc \in {"put", "verify"} /\ new.at \in 1..n
      BY <1>0, <2>1, <3>4 DEF State
    <3> QED
      BY <1>10, <2>1, <2>3, <3>2, <3>5, <3>6 DEF n
  <2>5. CASE \E c \in {{}, {f}} : RollBack(r, c)
    <3>1. PICK c \in {{}, {f}} : RollBack(r, c)
      BY <2>5
    <3> DEFINE new == [s EXCEPT !.pc = "undo", !.at = 1, !.slip = c, !.undid = TRUE]
    <3>2. run' = [run EXCEPT ![r] = new]
      BY <1>0, <3>1 DEF RollBack, s
    <3> HIDE DEF n
    <3>3. c \in SUBSET Target
      BY <2>2, <3>1
    <3>4. new \in State
      BY <1>0, <3>3 DEF State
    <3>5. new.tool = s.tool /\ new.at = 1 /\ new.pc = "undo" /\ new.undid
      BY <1>0 DEF State
    <3>6. 1 \in 1..n
      BY <2>2
    <3> QED
      BY <1>10, <2>1, <2>3, <3>2, <3>4, <3>5, <3>6 DEF n
  <2>6. (\E c \in {{}, {f}} : Advance(r, c)) \/ (\E c \in {{}, {f}} : RollBack(r, c))
    BY <1>12 DEF Put, s
  <2> QED
    BY <2>4, <2>5, <2>6
<1>13. CASE VerifyUpgrade(r)
  <2> DEFINE n == Len(Targets(s.tool))
  <2>1. s.tool \in Upgrader /\ s.pc = "verify" /\ DiskOK' /\ lock' = lock /\ lock = r
    BY <1>0, <1>13, SameDisk DEF VerifyUpgrade, s, Upgrader
  <2>2. n \in {2, 3}
    BY <2>1 DEF Targets, Upgrader
  <2>3. CASE RollBack(r, {})
    <3> DEFINE new == [s EXCEPT !.pc = "undo", !.at = 1, !.slip = {}, !.undid = TRUE]
    <3>2. run' = [run EXCEPT ![r] = new]
      BY <1>0, <2>3 DEF RollBack, s
    <3> HIDE DEF n
    <3>4. new \in State
      BY <1>0 DEF State
    <3>5. new.tool = s.tool /\ new.at = 1 /\ new.pc = "undo" /\ new.undid
      BY <1>0 DEF State
    <3>6. 1 \in 1..n
      BY <2>2
    <3> QED
      BY <1>10, <2>1, <3>2, <3>4, <3>5, <3>6 DEF n
  <2> QED
    BY <1>13, <2>1, <2>3, RunLeaves DEF VerifyUpgrade
<1>14. CASE Undo(r)
  <2> DEFINE n == Len(Targets(s.tool))
             f == Targets(s.tool)[s.at]
             next == IF s.at = n THEN [run EXCEPT ![r] = Leaving(r, "failed")]
                                 ELSE [run EXCEPT ![r].at = @ + 1]
  <2>1. s.tool \in Upgrader /\ s.pc = "undo" /\ s.at \in 1..n /\ lock = r /\ s.undid
    BY <1>0, <1>14 DEF Undo, Phased, s
  <2>2. n \in {2, 3} /\ f \in Target
    BY <2>1, TargetOrder DEF Target
  <2>3. DiskOK' /\ lock' = lock
    <3>1. CASE UNCHANGED disk
      BY <3>1, SameDisk
    <3>2. CASE Install(f, s.was)
      <4>1. s.was.trust \in [Key -> Level] /\ s.was.config \in Config /\ s.was.exec \in BOOLEAN
        BY <1>0 DEF State
      <4> HIDE DEF f
      <4> QED
        BY <3>2, <4>1 DEF Install, DiskOK, TypeOK
    <3> QED
      BY <1>14, <3>1, <3>2 DEF Undo, s
  <2>4. CASE run' = next
    <3>1. CASE s.at = n
      BY <2>1, <2>3, <2>4, <3>1, RunLeaves DEF Leave
    <3>2. CASE s.at # n
      <4> DEFINE new == [s EXCEPT !.at = @ + 1]
      <4>1. run' = [run EXCEPT ![r] = new]
        BY <1>0, <2>4, <3>2 DEF s
      <4> HIDE DEF n
      <4>2. s.at + 1 \in Nat /\ s.at + 1 \in 1..n
        BY <1>15, <2>1, <2>2, <3>2
      <4>3. new \in State
        BY <1>0, <4>2 DEF State
      <4>4. new.tool = s.tool /\ new.at = s.at + 1 /\ new.pc = "undo" /\ new.undid = s.undid
        BY <1>0, <2>1 DEF State
      <4> QED
        BY <1>10, <2>1, <2>3, <4>1, <4>2, <4>3, <4>4 DEF n
    <3> QED
      BY <3>1, <3>2
  <2>5. CASE Leave(r, "manual")
    BY <2>1, <2>3, <2>5, RunLeaves
  <2>6. run' = next \/ Leave(r, "manual")
    BY <1>14 DEF Undo, s
  <2> QED
    BY <2>4, <2>5, <2>6
<1> QED
  BY <1>2, <1>3, <1>4, <1>5, <1>6, <1>7, <1>8, <1>9, <1>11, <1>12, <1>13, <1>14 DEF UpgradeStep

\* Every step of every tool keeps the types, the phases and the lock.
LEMMA PhaseSteps ==
    ASSUME TypeOK, Phases, [Next]_vars
    PROVE  TypeOK' /\ Phases'
<1>1. ASSUME NEW r \in Run, _acquire_recovery_lock(r) PROVE TypeOK' /\ Phases'
  <2> DEFINE pc == IF run[r].tool = "recover" THEN "look" ELSE "recheck"
             new == [run[r] EXCEPT !.pc = pc]
  <2>1. run[r].pc = "lock" /\ lock = None /\ lock' = r /\ Goto(r, pc) /\ DiskOK'
    BY <1>1 DEF _acquire_recovery_lock, DiskOK, TypeOK
  <2>2. run[r] \in State /\ Phased(run[r])
    BY RunTypes DEF Phases
  <2>3. new \in State /\ new.pc = pc /\ new.tool = run[r].tool /\ new.at = run[r].at
    BY <2>2 DEF State
  <2>4. run[r].tool \in Upgrader \cup {"recover"} /\ run[r].at = 1
    BY <2>1, <2>2 DEF Phased
  <2>5. Phased(new)
    BY <2>3, <2>4 DEF Phased, Writing, Reading, Upgrader
  <2> QED
    BY <2>1, <2>3, <2>5, RunGoes
<1>2. ASSUME NEW r \in Run, _release_recovery_lock(r) PROVE TypeOK' /\ Phases'
  <2>1. lock = r
    BY <1>2 DEF _release_recovery_lock, Phases, Locks
  <2>2. End(r) /\ DiskOK'
    BY <1>2 DEF _release_recovery_lock, DiskOK, TypeOK
  <2> QED
    BY <2>1, <2>2, RunEnds
<1>3. ASSUME NEW r \in Run, Crash(r) PROVE TypeOK' /\ Phases'
  BY <1>3, SameDisk, RunEnds DEF Crash
<1>4. CASE Reconcile
  <2>1. TypeOK'
    BY <1>4 DEF Reconcile, TypeOK
  <2>2. \A r \in Run : Locks(run[r]) => lock # r
    BY <1>4 DEF Reconcile, Live, Locks
  <2> QED
    BY <1>4, <2>1, <2>2 DEF Reconcile, Phases
<1>5. CASE UNCHANGED vars
  BY <1>5 DEF TypeOK, Phases, vars, disk
<1> QED
  BY <1>1, <1>2, <1>3, <1>4, <1>5, ProvisionPhases, RecoverPhases, AttachPhases, UpgradePhases
  DEF Next

\* The installations a history begins with have their types, and no run.
LEMMA PhasesAtFirst == Init => TypeOK /\ Phases
<1> SUFFICES ASSUME Init PROVE TypeOK /\ Phases
  OBVIOUS
<1>1. run \in [Run -> State] /\ \A r \in Run : run[r] = Idle
  BY IdleIsPhased DEF Init
<1>2. Phases
  BY <1>1, IdleIsPhased DEF Phases, Locks
<1>3. NoTrust \in [Key -> Level] /\ NoConfig \in Config
  BY DEF NoTrust, NoConfig, Level, Config
<1>4. CASE Blank
  BY <1>1, <1>2, <1>3, <1>4 DEF Init, Blank, TypeOK
<1>5. ASSUME NEW p \in Past, BootstrappedBy(p) PROVE TypeOK
  <2>1. p \in Key /\ 2 \in Level
    BY DEF Key, Level
  <2>2. trust \in [Key -> Level]
    BY <1>3, <1>5, <2>1 DEF BootstrappedBy
  <2>3. config \in Config
    BY <1>5 DEF BootstrappedBy, Config
  <2>4. holds \in [File -> Key \cup {None}] /\ file \in [File -> {"absent", "torn", "whole"}]
    BY <1>5, <2>1 DEF BootstrappedBy
  <2> QED
    BY <1>1, <1>5, <2>2, <2>3, <2>4 DEF Init, BootstrappedBy, TypeOK
<1>6. ASSUME NEW p \in Past, NEW q \in Past, AttachedBy(p, q) PROVE TypeOK
  <2>1. p \in Key /\ q \in Key /\ 1 \in Level /\ 2 \in Level
    BY DEF Key, Level
  <2>2. trust \in [Key -> Level]
    BY <1>3, <1>6, <2>1 DEF AttachedBy
  <2>3. config \in Config
    BY <1>6 DEF AttachedBy, Config
  <2>4. holds \in [File -> Key \cup {None}] /\ file \in [File -> {"absent", "torn", "whole"}]
    BY <1>6, <2>1 DEF AttachedBy
  <2> QED
    BY <1>1, <1>6, <2>2, <2>3, <2>4 DEF Init, AttachedBy, TypeOK
<1> QED
  BY <1>2, <1>4, <1>5, <1>6 DEF Init

----------------------------------------------------------------------------
(* What a step does to the files                                           *)

Others(r) == \A q \in Run \ {r} : run'[q] = run[q]

\* No file changes.
Quiet(r) == UNCHANGED <<file, holds>> /\ run'[r].pc # "fill" /\ ~Owns(run'[r])

Starts(r) ==
    /\ file' = [file EXCEPT !["dirs"] = "whole"] /\ holds' = holds
    /\ run'[r].tool \in Provisioner /\ run'[r].pc = "create" /\ run'[r].at = 1

Creates(r) ==
    /\ run[r].pc = "create" /\ Writing(run[r])
    /\ file[FileOf(run[r])] = "absent" /\ SetFile(FileOf(run[r]), "torn", r)
    /\ run'[r] = [run[r] EXCEPT !.pc = "fill"]

Fills(r) ==
    /\ run[r].pc = "fill" /\ Writing(run[r])
    /\ \E whose : /\ SetFile(FileOf(run[r]), "whole", whose)
                  /\ run[r].tool \in Provisioner =>
                        whose = r \/ (FileOf(run[r]) \notin Identity /\ run[r].at > 5)
                  /\ FileOf(run[r]) = "xckey" => whose = holds["ckey"]
                  /\ FileOf(run[r]) = "gkey" => whose = r
    /\ \/ run'[r] = Over(r)
       \/ \E next \in {"create", "backup"} :
             /\ run'[r] = [run[r] EXCEPT !.pc = next, !.at = @ + 1]
             /\ next = "backup" => run[r].tool = "recover"

Unmakes(r) ==
    /\ run[r].pc = "fill" /\ Writing(run[r])
    /\ SetFile(FileOf(run[r]), "absent", None)
    /\ run'[r].pc \in {"over", "release"}

Unlinks(r) ==
    /\ run[r].pc = "create" /\ Writing(run[r])
    /\ run[r].tool = "prepare" /\ run[r].at \in {16, 17}
    /\ run[r].at = 16 => Whole("xckey") /\ holds["ckey"] = holds["xckey"]
    /\ SetFile(FileOf(run[r]), "absent", None)
    /\ run'[r] = [run[r] EXCEPT !.at = @ + 1]

\* It leaves idleness only for a tool of its own, and builds in order.
Ordered(r) ==
    /\ run'[r].pc # "idle" /\ BuiltRun(run'[r])
    /\ run'[r].tool \notin Provisioner => run[r].pc = "idle" \/ run[r].tool \notin Provisioner

Step(r) ==
    /\ Others(r) /\ Ordered(r)
    /\ Quiet(r) \/ Starts(r) \/ Creates(r) \/ Fills(r) \/ Unmakes(r) \/ Unlinks(r)

\* A run that is over writes no file and owns no identity.
LEMMA Ended ==
    ASSUME TypeOK, NEW r \in Run,
           run'[r] = Over(r) \/ \E end \in {"done", "failed", "manual"} : run'[r] = Leaving(r, end)
    PROVE  /\ run'[r].pc \in {"over", "release"} /\ run'[r].tool = "provision"
           /\ ~Owns(run'[r]) /\ Ordered(r)
<1>1. run'[r].pc \in {"over", "release"} /\ run'[r].tool = "provision"
  BY DEF Over, Leaving, Idle
<1> QED
  BY <1>1 DEF Owns, Ordered, BuiltRun, Writing, Upgrader, Provisioner

\* The same, of the step by which a run ends or leaves for its finally clause.
LEMMA Ends ==
    ASSUME TypeOK, NEW r \in Run,
           End(r) \/ \E end \in {"done", "failed", "manual"} : Leave(r, end)
    PROVE  /\ Others(r) /\ Ordered(r) /\ ~Owns(run'[r])
           /\ run'[r].pc \in {"over", "release"} /\ run'[r].tool = "provision"
<1>1. run \in [Run -> State]
  BY DEF TypeOK
<1>2. Others(r)
  BY <1>1 DEF Others, End, Leave
<1>3. run'[r] = Over(r) \/ \E end \in {"done", "failed", "manual"} : run'[r] = Leaving(r, end)
  BY <1>1 DEF End, Leave
<1> QED
  BY <1>2, <1>3, Ended

\* What a step of a provisioner does to the files is one of the six effects.
LEMMA ProvisionWrites ==
    ASSUME TypeOK, Phases, Built, NEW r \in Run, Provision(r)
    PROVE  Step(r)
<1>0. run \in [Run -> State] /\ run[r] \in State /\ Phased(run[r])
  BY RunTypes DEF Phases, TypeOK
<1>1. ASSUME NEW tool \in Provisioner, NEW level \in {2, 3}, Begin(r, tool, level)
      PROVE  Step(r)
  <2>1. /\ run'[r].tool = tool /\ run'[r].pc = "create" /\ run'[r].at = 1 /\ Others(r)
    BY <1>0, <1>1 DEF Begin, Others, Idle
  <2>2. Ordered(r)
    BY <2>1 DEF Ordered, BuiltRun, Upgrader, Provisioner
  <2>3. Starts(r)
    BY <1>1, <2>1 DEF Begin, Starts
  <2> QED
    BY <2>1, <2>2, <2>3 DEF Step
<1>2. CASE StartProvision(r) \/ StartBootstrap(r) \/ StartPrepare(r)
  BY <1>1, <1>2 DEF StartProvision, StartBootstrap, StartPrepare, Provisioner
<1>3. ASSUME run[r].tool \in Provisioner, run[r].pc \in {"create", "fill"}
      PROVE  /\ Writing(run[r]) /\ Current(r) = FileOf(run[r])
             /\ Places(run[r].tool, run[r].at, FileOf(run[r]))
  BY <1>0, <1>3, FilesInOrder DEF Current, Writing
<1>4. CASE CreateNext(r)
  <2>1. /\ run[r].tool \in Provisioner /\ run[r].pc = "create" /\ Create(r, FileOf(run[r]))
    BY <1>3, <1>4 DEF CreateNext
  <2>2. run'[r] = [run[r] EXCEPT !.pc = "fill"] /\ Others(r)
    BY <1>0, <2>1 DEF Create, Others
  <2>3. run'[r].tool = run[r].tool /\ run'[r].pc = "fill"
    BY <1>0, <2>2 DEF State
  <2>4. Ordered(r)
    BY <2>1, <2>3 DEF Ordered, BuiltRun, Upgrader, Provisioner
  <2>5. Creates(r)
    BY <1>3, <2>1, <2>2 DEF Create, Creates
  <2> QED
    BY <2>2, <2>4, <2>5 DEF Step
<1>5. CASE FillNext(r)
  <2> DEFINE f == FileOf(run[r])
             whose == IF f \in {"xckey", "xcpub", "xwpub", "xca"} THEN holds[Source(f)] ELSE r
  <2>1. /\ run[r].tool \in Provisioner /\ run[r].pc = "fill" /\ Writing(run[r])
        /\ SetFile(f, "whole", whose) /\ NextFile(r, AfterThis(r))
    BY <1>3, <1>5 DEF FillNext, Fill
  <2>2. whose = r \/ (f \notin Identity /\ run[r].at > 5)
    <3>1. Places(run[r].tool, run[r].at, f) /\ run[r].at \in Nat
      BY <1>3, <2>1, RunTypes
    <3>2. whose # r => f \notin Identity
      BY DEF Identity
    <3> QED
      BY <3>1, <3>2 DEF Places
  <2>3. (f = "xckey" => whose = holds["ckey"]) /\ f # "gkey"
    BY <1>3, <2>1 DEF Source, Places
  <2>4. /\ Others(r)
        /\ \/ run'[r] = Over(r)
           \/ run'[r] = [run[r] EXCEPT !.pc = "create", !.at = @ + 1]
    BY <1>0, <2>1 DEF NextFile, AfterThis, Others
  <2>5. Ordered(r)
    <3>1. CASE run'[r] = Over(r)
      BY <3>1, Ended
    <3>2. CASE run'[r] = [run[r] EXCEPT !.pc = "create", !.at = @ + 1]
      <4>1. run'[r].tool = run[r].tool /\ run'[r].pc = "create"
        BY <1>0, <3>2 DEF State
      <4> QED
        BY <2>1, <4>1 DEF Ordered, BuiltRun, Upgrader, Provisioner
    <3> QED
      BY <2>4, <3>1, <3>2
  <2>6. Fills(r)
    <3> HIDE DEF whose, f
    <3>1. \/ run'[r] = Over(r)
          \/ \E next \in {"create", "backup"} :
                /\ run'[r] = [run[r] EXCEPT !.pc = next, !.at = @ + 1]
                /\ next = "backup" => run[r].tool = "recover"
      BY <2>4
    <3> QED
      BY <2>1, <2>2, <2>3, <3>1 DEF Fills, f
  <2> QED
    BY <2>4, <2>5, <2>6 DEF Step
<1>6. CASE FillNextFails(r)
  <2>1. Writing(run[r]) /\ FillFails(r, FileOf(run[r]))
    BY <1>3, <1>6 DEF FillNextFails
  <2>2. End(r) \/ Leave(r, "failed")
    BY <2>1 DEF FillFails, End, Leave
  <2>3. Others(r) /\ Ordered(r) /\ run'[r].pc \in {"over", "release"}
    BY <2>2, Ends
  <2> QED
    BY <2>1, <2>3 DEF Step, Unmakes, FillFails
<1>7. CASE Unlink(r)
  <2>1. /\ run[r].pc = "create" /\ run[r].tool = "prepare" /\ run[r].at \in {16, 17}
        /\ Writing(run[r]) /\ Current(r) = FileOf(run[r])
        /\ Places("prepare", run[r].at, FileOf(run[r]))
    BY <1>3, <1>7 DEF Unlink, Unlinking, Provisioner
  <2>2. run'[r] = [run[r] EXCEPT !.at = @ + 1] /\ Others(r)
    BY <1>0, <1>7 DEF Unlink, Others
  <2>3. run'[r].tool = run[r].tool /\ run'[r].pc = "create"
    BY <1>0, <2>1, <2>2 DEF State
  <2>4. Ordered(r)
    BY <2>1, <2>3 DEF Ordered, BuiltRun, Upgrader, Provisioner
  <2>5. run[r].at = 16 => FileOf(run[r]) = "ckey"
    BY <2>1 DEF Places
  <2>6. Unlinks(r)
    BY <1>7, <2>1, <2>2, <2>5 DEF Unlink, Unlinks
  <2> QED
    BY <2>2, <2>4, <2>6 DEF Step
<1> QED
  BY <1>2, <1>4, <1>5, <1>6, <1>7 DEF Provision

\* So is what a step of recovery does.
LEMMA RecoverWrites ==
    ASSUME TypeOK, Phases, Built, NEW r \in Run, Recover(r)
    PROVE  Step(r)
<1>0. /\ run \in [Run -> State] /\ run[r] \in State /\ Phased(run[r]) /\ BuiltRun(run[r])
  BY RunTypes DEF Phases, TypeOK, Built
<1>1. CASE StartRecover(r)
  <2>1. /\ run'[r].tool = "recover" /\ run'[r].pc = "lock" /\ Others(r) /\ run[r].pc = "idle"
        /\ UNCHANGED <<file, holds>>
    BY <1>0, <1>1 DEF StartRecover, Others, Idle, disk
  <2> QED
    BY <2>1 DEF Step, Ordered, Quiet, Owns, BuiltRun, Writing, Upgrader, Provisioner
<1>2. CASE ReuseEnrolled(r) \/ VerifyEnrolled(r) \/ RecoverFails(r)
  <2>1. (Leave(r, "done") \/ Leave(r, "failed")) /\ UNCHANGED <<file, holds>>
    BY <1>2 DEF ReuseEnrolled, VerifyEnrolled, RecoverFails, disk
  <2>2. Others(r) /\ Ordered(r) /\ ~Owns(run'[r]) /\ run'[r].pc \in {"over", "release"}
    BY <2>1, Ends
  <2> QED
    BY <2>1, <2>2 DEF Step, Quiet
<1>3. ASSUME UNCHANGED <<file, holds>>, Others(r), run[r].tool = "recover", Whole("trust"),
             run'[r].tool = "recover", run'[r].pc \in {"create", "backup", "put", "verify"}
      PROVE  Step(r)
  BY <1>3 DEF Step, Ordered, Quiet, Owns, BuiltRun, Writing, Upgrader, Provisioner
<1>4. CASE ResumeGenerated(r)
  <2>1. run[r].tool = "recover" /\ Whole("trust") /\ UNCHANGED <<file, holds>>
    BY <1>4 DEF ResumeGenerated, Looking, IdentityLoads, disk
  <2>2. run'[r].tool = "recover" /\ run'[r].pc = "backup" /\ Others(r)
    BY <1>0, <1>4, <2>1 DEF ResumeGenerated, Others, State
  <2> QED
    BY <1>3, <2>1, <2>2
<1>5. CASE GenerateKey(r)
  <2>1. run[r].tool = "recover" /\ Whole("trust") /\ UNCHANGED <<file, holds>>
    BY <1>5 DEF GenerateKey, Looking, IdentityLoads, disk
  <2>2. run'[r].tool = "recover" /\ run'[r].pc = "create" /\ Others(r)
    BY <1>0, <1>5, <2>1 DEF GenerateKey, Others, State
  <2> QED
    BY <1>3, <2>1, <2>2
<1>6. CASE WriteRecoveryFile(r)
  <2> DEFINE f == FileOf(run[r])
             next == IF f = "marker" THEN "backup" ELSE "create"
  <2>1. /\ Writing(run[r]) /\ run[r].tool = "recover" /\ RecoveryFiles[run[r].at] = f
        /\ f \in {"gkey", "marker"}
    BY <1>0, <1>6, FilesInOrder DEF WriteRecoveryFile, Writing
  <2>2. Whole("trust")
    BY <1>0, <2>1 DEF BuiltRun, Writing
  <2>3. CASE Create(r, f)
    <3>1. /\ run'[r] = [run[r] EXCEPT !.pc = "fill"] /\ Others(r)
      BY <1>0, <2>3 DEF Create, Others
    <3>2. run'[r].tool = "recover" /\ run'[r].pc = "fill"
      BY <1>0, <2>1, <3>1 DEF State
    <3>3. Ordered(r)
      BY <2>1, <2>2, <3>2 DEF Ordered, BuiltRun, Upgrader, Provisioner
    <3>4. Creates(r)
      BY <2>1, <2>3, <3>1 DEF Create, Creates
    <3> QED
      BY <3>1, <3>3, <3>4 DEF Step
  <2>4. CASE FillFails(r, f)
    <3>1. End(r) \/ Leave(r, "failed")
      BY <2>4 DEF FillFails, End, Leave
    <3>2. Others(r) /\ Ordered(r) /\ run'[r].pc \in {"over", "release"}
      BY <3>1, Ends
    <3> QED
      BY <2>1, <2>4, <3>2 DEF Step, Unmakes, FillFails
  <2>5. CASE Fill(r, f, r, next)
    <3>1. /\ run[r].pc = "fill" /\ SetFile(f, "whole", r) /\ NextFile(r, next)
      BY <2>5 DEF Fill
    <3>2. run'[r] = [run[r] EXCEPT !.pc = next, !.at = @ + 1] /\ Others(r)
      BY <1>0, <3>1 DEF NextFile, Others
    <3> HIDE DEF next
    <3>3. next \in {"create", "backup"}
      BY DEF next
    <3>4. run'[r].tool = "recover" /\ run'[r].pc = next
      BY <1>0, <2>1, <3>2 DEF State
    <3>5. Ordered(r)
      BY <2>1, <2>2, <3>3, <3>4 DEF Ordered, BuiltRun, Upgrader, Provisioner
    <3>6. Fills(r)
      <4>1. f # "xckey"
        BY <2>1
      <4>2. run[r].tool \notin Provisioner
        BY <2>1 DEF Provisioner
      <4> QED
        BY <2>1, <3>1, <3>2, <3>3, <4>1, <4>2 DEF Fills
    <3> QED
      BY <3>2, <3>5, <3>6 DEF Step
  <2> QED
    BY <1>6, <2>1, <2>3, <2>4, <2>5 DEF WriteRecoveryFile
<1>7. CASE BackupTrust(r)
  <2>1. /\ run[r].tool = "recover" /\ run[r].pc = "backup" /\ UNCHANGED <<file, holds>>
        /\ run' = [run EXCEPT ![r].pc = "put"] \/ End(r)
    BY <1>7 DEF BackupTrust, Keep
  <2>2. Whole("trust")
    BY <1>0, <2>1 DEF BuiltRun
  <2>3. CASE End(r)
    BY <2>1, <2>3, Ends DEF Step, Quiet
  <2>4. CASE run' = [run EXCEPT ![r].pc = "put"]
    <3>1. run'[r].tool = "recover" /\ run'[r].pc = "put" /\ Others(r)
      BY <1>0, <2>1, <2>4 DEF Others, State
    <3> QED
      BY <1>3, <2>1, <2>2, <3>1
  <2> QED
    BY <2>1, <2>3, <2>4
<1>8. CASE Enroll(r)
  <2>1. /\ run[r].tool = "recover" /\ run[r].pc = "put" /\ UNCHANGED <<file, holds>>
        /\ run' = [run EXCEPT ![r].pc = "verify"] \/ Leave(r, "failed")
    BY <1>8 DEF Enroll, Install, Goto
  <2>2. Whole("trust")
    BY <1>0, <2>1 DEF BuiltRun
  <2>3. CASE Leave(r, "failed")
    BY <2>1, <2>3, Ends DEF Step, Quiet
  <2>4. CASE run' = [run EXCEPT ![r].pc = "verify"]
    <3>1. run'[r].tool = "recover" /\ run'[r].pc = "verify" /\ Others(r)
      BY <1>0, <2>1, <2>4 DEF Others, State
    <3> QED
      BY <1>3, <2>1, <2>2, <3>1
  <2> QED
    BY <2>1, <2>3, <2>4
<1> QED
  BY <1>1, <1>2, <1>4, <1>5, <1>6, <1>7, <1>8 DEF Recover

\* So is what a step of attach does.
LEMMA AttachWrites ==
    ASSUME TypeOK, Phases, Built, NEW r \in Run, Attach(r)
    PROVE  Step(r)
<1>0. /\ run \in [Run -> State] /\ run[r] \in State /\ Phased(run[r]) /\ BuiltRun(run[r])
  BY RunTypes DEF Phases, TypeOK, Built
<1>1. CASE StartAttach(r)
  <2>1. /\ run'[r].tool = "attach" /\ run'[r].pc = "look" /\ Others(r) /\ run[r].pc = "idle"
        /\ UNCHANGED <<file, holds>>
    BY <1>0, <1>1 DEF StartAttach, Others, Idle, disk
  <2> QED
    BY <2>1 DEF Step, Ordered, Quiet, Owns, BuiltRun, Writing, Upgrader, Provisioner
<1>2. ASSUME UNCHANGED <<file, holds>>, Others(r), run[r].tool = "attach", Whole("trust"),
             run'[r].tool = "attach", run'[r].pc = "create"
      PROVE  Step(r)
  BY <1>2 DEF Step, Ordered, Quiet, Owns, BuiltRun, Upgrader, Provisioner
<1>3. CASE AttachLooks(r)
  <2>1. run[r].tool = "attach" /\ Whole("trust") /\ UNCHANGED <<file, holds>>
    BY <1>3 DEF AttachLooks, IdentityLoads, disk
  <2>2. run'[r].tool = "attach" /\ run'[r].pc = "create" /\ Others(r)
    BY <1>0, <1>3, <2>1 DEF AttachLooks, Goto, Others, State
  <2> QED
    BY <1>2, <2>1, <2>2
<1>4. CASE WriteAttachFile(r)
  <2> DEFINE f == FileOf(run[r])
             next == IF f = "receipt" THEN "over" ELSE "create"
  <2>1. /\ Writing(run[r]) /\ run[r].tool = "attach" /\ AttachFiles[run[r].at] = f
        /\ f \in {"mwpub", "mca", "config", "tunnel", "receipt"}
    BY <1>0, <1>4, FilesInOrder DEF WriteAttachFile, Writing
  <2>2. Whole("trust")
    BY <1>0, <2>1 DEF BuiltRun
  <2>3. CASE Create(r, f)
    <3>1. /\ run'[r] = [run[r] EXCEPT !.pc = "fill"] /\ Others(r)
      BY <1>0, <2>3 DEF Create, Others
    <3>2. run'[r].tool = "attach" /\ run'[r].pc = "fill"
      BY <1>0, <2>1, <3>1 DEF State
    <3>3. Ordered(r)
      BY <2>1, <2>2, <3>2 DEF Ordered, BuiltRun, Upgrader, Provisioner
    <3>4. Creates(r)
      BY <2>1, <2>3, <3>1 DEF Create, Creates
    <3> QED
      BY <3>1, <3>3, <3>4 DEF Step
  <2>4. CASE FillFails(r, f)
    <3>1. End(r) \/ Leave(r, "failed")
      BY <2>4 DEF FillFails, End, Leave
    <3>2. Others(r) /\ Ordered(r) /\ run'[r].pc \in {"over", "release"}
      BY <3>1, Ends
    <3> QED
      BY <2>1, <2>4, <3>2 DEF Step, Unmakes, FillFails
  <2>5. ASSUME NextFile(r, next)
        PROVE  /\ Others(r) /\ Ordered(r)
               /\ \/ run'[r] = Over(r)
                  \/ /\ run'[r] = [run[r] EXCEPT !.pc = "create", !.at = @ + 1]
                     /\ run'[r].tool = "attach" /\ run'[r].pc = "create"
    <3>1. CASE next = "over"
      <4>1. End(r) /\ run'[r] = Over(r)
        BY <1>0, <2>5, <3>1 DEF NextFile, End
      <4> QED
        BY <4>1, Ends
    <3>2. CASE next = "create"
      <4>1. /\ run'[r] = [run[r] EXCEPT !.pc = "create", !.at = @ + 1] /\ Others(r)
        BY <1>0, <2>5, <3>2 DEF NextFile, Others
      <4>2. run'[r].tool = "attach" /\ run'[r].pc = "create"
        BY <1>0, <2>1, <4>1 DEF State
      <4>3. Ordered(r)
        BY <2>1, <2>2, <4>2 DEF Ordered, BuiltRun, Upgrader, Provisioner
      <4> QED
        BY <4>1, <4>2, <4>3
    <3> QED
      BY <3>1, <3>2
  <2>6. CASE Reuse(r, f, next)
    <3>1. NextFile(r, next) /\ UNCHANGED <<file, holds>>
      BY <2>6 DEF Reuse, disk
    <3>2. CASE run'[r] = Over(r)
      <4>1. run'[r].pc \in {"over", "release"} /\ ~Owns(run'[r])
        BY <3>2, Ended
      <4> QED
        BY <2>5, <3>1, <4>1 DEF Step, Quiet
    <3> QED
      BY <1>2, <2>1, <2>2, <2>5, <3>1, <3>2
  <2>7. CASE Fill(r, f, AttachHolds(f), next)
    <3>1. /\ run[r].pc = "fill" /\ SetFile(f, "whole", AttachHolds(f)) /\ NextFile(r, next)
      BY <2>7 DEF Fill
    <3>2. run[r].tool \notin Provisioner /\ f \notin {"xckey", "gkey"}
      BY <2>1 DEF Provisioner
    <3> HIDE DEF next
    <3>3. Fills(r)
      BY <2>1, <2>5, <3>1, <3>2 DEF Fills
    <3> QED
      BY <2>5, <3>1, <3>3 DEF Step
  <2> QED
    BY <1>4, <2>1, <2>3, <2>4, <2>6, <2>7 DEF WriteAttachFile
<1> QED
  BY <1>1, <1>3, <1>4 DEF Attach

\* An upgrade creates and removes no file.
LEMMA UpgradeWrites ==
    ASSUME TypeOK, Phases, Built, NEW r \in Run, UpgradeStep(r)
    PROVE  Step(r)
<1> DEFINE s == run[r]
<1>0. /\ run \in [Run -> State] /\ s \in State /\ Phased(s) /\ BuiltRun(s)
  BY RunTypes DEF Phases, TypeOK, Built
<1>1. UNCHANGED <<file, holds>>
  <2>1. CASE BackupNext(r)
    <3>1. s.tool \in Upgrader /\ s.pc = "backup" /\ s.at \in 1..Len(Targets(s.tool))
      BY <1>0, <2>1 DEF BackupNext, Phased, Upgrader
    <3>2. Targets(s.tool)[s.at] \in {"trust", "config", "service"}
      BY <3>1, TargetOrder
    <3> QED
      BY <2>1, <3>2 DEF BackupNext, Keep
  <2>2. CASE Put(r)
    BY <2>2 DEF Put, Install, disk
  <2>3. CASE Undo(r)
    BY <2>3 DEF Undo, Install, disk
  <2> QED
    BY <2>1, <2>2, <2>3 DEF UpgradeStep, StartUpgrade, ReadService, ReadConfig, ReadIdentity,
       ReadTrust, ReadConfigAgain, ReadServiceAgain, Recheck, UpgradeFails, VerifyUpgrade, disk
<1>2. ASSUME Others(r), s.tool \in Upgrader,
             run'[r].tool = s.tool, run'[r].pc \notin {"idle", "fill", "create"},
             run'[r].pc # "service" => Whole("service"),
             run'[r].pc \notin {"service", "config"} => Whole("config")
      PROVE  Step(r)
  BY <1>1, <1>2 DEF Step, Ordered, Quiet, Owns, BuiltRun, Writing, Upgrader, Provisioner
<1>3. ASSUME End(r) \/ \E end \in {"done", "failed", "manual"} : Leave(r, end)
      PROVE  Step(r)
  BY <1>1, <1>3, Ends DEF Step, Quiet
<1>4. CASE StartUpgrade(r)
  <2>1. /\ run'[r].tool \in Upgrader /\ run'[r].pc = "service" /\ Others(r) /\ run[r].pc = "idle"
    BY <1>0, <1>4 DEF StartUpgrade, Others, Idle, Upgrader
  <2> QED
    BY <1>1, <2>1 DEF Step, Ordered, Quiet, Owns, BuiltRun, Writing, Upgrader, Provisioner
<1>5. CASE ReadService(r)
  <2>1. s.tool \in Upgrader /\ Whole("service")
    BY <1>0, <1>5 DEF ReadService, ServiceLoads, Phased, Reading
  <2>2. run'[r].tool = s.tool /\ run'[r].pc = "config" /\ Others(r)
    BY <1>0, <1>5 DEF ReadService, Goto, Others, State
  <2> QED
    BY <1>2, <2>1, <2>2
<1>6. CASE ReadConfig(r)
  <2>1. s.tool \in Upgrader /\ Whole("service") /\ Whole("config")
    BY <1>0, <1>6 DEF ReadConfig, ConfigLoads, Phased, Reading, BuiltRun
  <2>2. run'[r].tool = s.tool /\ run'[r].pc = "ident" /\ Others(r)
    BY <1>0, <1>6 DEF ReadConfig, Others, State
  <2> QED
    BY <1>2, <2>1, <2>2
\* Past the configuration, everything is there.
<1>7. ASSUME s.tool \in Upgrader, s.pc \notin {"service", "config"}, Others(r),
             run'[r].tool = s.tool, run'[r].pc \notin {"idle", "fill", "create"}
      PROVE  Step(r)
  BY <1>0, <1>2, <1>7 DEF BuiltRun
<1>8. CASE ReadIdentity(r) \/ ReadTrust(r) \/ ReadConfigAgain(r) \/ ReadServiceAgain(r) \/ Recheck(r)
  <2>1. /\ s.tool \in Upgrader /\ s.pc \notin {"service", "config"}
    BY <1>0, <1>8 DEF ReadIdentity, ReadTrust, ReadConfigAgain, ReadServiceAgain, Recheck, Phased,
       Reading
  <2>2. /\ run'[r].tool = s.tool /\ Others(r)
        /\ run'[r].pc \in {"trust", "config2", "service2", "lock", "backup"}
    BY <1>0, <1>8 DEF ReadIdentity, ReadTrust, ReadConfigAgain, ReadServiceAgain, Recheck, Goto,
       Others, State
  <2> QED
    BY <1>7, <2>1, <2>2
<1>9. CASE UpgradeFails(r)
  BY <1>3, <1>9 DEF UpgradeFails
<1>10. CASE BackupNext(r)
  <2>1. s.tool \in Upgrader /\ s.pc = "backup" /\ s.at \in 1..Len(Targets(s.tool))
    BY <1>0, <1>10 DEF BackupNext, Phased, Upgrader
  <2>2. Targets(s.tool)[s.at] \in {"trust", "config", "service"}
    BY <2>1, TargetOrder
  <2>3. \/ run' = [run EXCEPT ![r].pc = "put", ![r].at = 1]
        \/ run' = [run EXCEPT ![r].at = @ + 1]
        \/ End(r)
    BY <1>10, <2>2 DEF BackupNext, Keep
  <2>4. CASE End(r)
    BY <1>3, <2>4
  <2>5. CASE \/ run' = [run EXCEPT ![r].pc = "put", ![r].at = 1]
             \/ run' = [run EXCEPT ![r].at = @ + 1]
    <3>1. run'[r].tool = s.tool /\ run'[r].pc \in {"put", "backup"} /\ Others(r)
      BY <1>0, <2>1, <2>5 DEF Others, State
    <3> QED
      BY <1>7, <2>1, <3>1
  <2> QED
    BY <2>3, <2>4, <2>5
<1>11. ASSUME s.tool \in Upgrader, s.pc \in {"put", "verify"}, NEW c,
              Advance(r, c) \/ RollBack(r, c)
       PROVE  Step(r)
  <2>1. run'[r].tool = s.tool /\ run'[r].pc \in {"put", "verify", "undo"} /\ Others(r)
    BY <1>0, <1>11 DEF Advance, RollBack, Others, State
  <2> QED
    BY <1>7, <1>11, <2>1
<1>12. CASE Put(r)
  <2>1. s.tool \in Upgrader /\ s.pc = "put"
    BY <1>12 DEF Put, Upgrader
  <2>2. \E c : Advance(r, c) \/ RollBack(r, c)
    BY <1>12 DEF Put
  <2> QED
    BY <1>11, <2>1, <2>2
<1>13. CASE VerifyUpgrade(r)
  <2>1. s.tool \in Upgrader /\ s.pc = "verify"
    BY <1>13 DEF VerifyUpgrade, Upgrader
  <2> QED
    BY <1>3, <1>11, <1>13, <2>1 DEF VerifyUpgrade
<1>14. CASE Undo(r)
  <2>1. s.tool \in Upgrader /\ s.pc = "undo"
    BY <1>0, <1>14 DEF Undo, Phased
  <2>2. \/ Leave(r, "failed") \/ Leave(r, "manual")
        \/ run' = [run EXCEPT ![r].at = @ + 1]
    BY <1>14 DEF Undo, Leave
  <2>3. CASE run' = [run EXCEPT ![r].at = @ + 1]
    <3>1. run'[r].tool = s.tool /\ run'[r].pc = "undo" /\ Others(r)
      BY <1>0, <2>1, <2>3 DEF Others, State
    <3> QED
      BY <1>7, <2>1, <3>1
  <2> QED
    BY <1>3, <2>2, <2>3
<1> QED
  BY <1>4, <1>5, <1>6, <1>8, <1>9, <1>10, <1>12, <1>13, <1>14 DEF UpgradeStep

\* A step of one run.
Act(r) ==
    \/ Provision(r) \/ Recover(r) \/ Attach(r) \/ UpgradeStep(r)
    \/ _acquire_recovery_lock(r) \/ _release_recovery_lock(r) \/ Crash(r)

\* Every step of a run is alone in moving it and has one of those effects.
LEMMA RunSteps ==
    ASSUME TypeOK, Phases, Built, NEW r \in Run, Act(r)
    PROVE  Step(r)
<1>1. CASE _acquire_recovery_lock(r)
  <2>0. /\ run \in [Run -> State] /\ run[r] \in State /\ Phased(run[r]) /\ BuiltRun(run[r])
    BY RunTypes DEF Phases, TypeOK, Built
  <2>1. /\ run[r].pc = "lock" /\ UNCHANGED <<file, holds>>
        /\ run[r].tool \in Upgrader \cup {"recover"}
    BY <1>1, <2>0 DEF _acquire_recovery_lock, Phased
  <2>2. /\ run'[r].tool = run[r].tool /\ run'[r].pc \in {"look", "recheck"} /\ Others(r)
    BY <1>1, <2>0 DEF _acquire_recovery_lock, Goto, Others, State
  <2> QED
    BY <2>0, <2>1, <2>2
    DEF Step, Ordered, Quiet, Owns, BuiltRun, Writing, Upgrader, Provisioner
<1>2. CASE _release_recovery_lock(r) \/ Crash(r)
  <2>1. End(r) /\ UNCHANGED <<file, holds>>
    BY <1>2 DEF _release_recovery_lock, Crash, disk
  <2> QED
    BY <2>1, Ends DEF Step, Quiet
<1> QED
  BY <1>1, <1>2, ProvisionWrites, RecoverWrites, AttachWrites, UpgradeWrites DEF Act

\* Every step is some run's, or the files and the runs stay as they are.
LEMMA FileSteps ==
    ASSUME TypeOK, Phases, Built, [Next]_vars
    PROVE  (\E r \in Run : Step(r)) \/ UNCHANGED <<file, holds, run>>
<1>1. CASE \E r \in Run : Act(r)
  BY <1>1, RunSteps
<1>2. CASE Reconcile \/ UNCHANGED vars
  BY <1>2 DEF Reconcile, vars, disk
<1> QED
  BY <1>1, <1>2 DEF Next, Act

\* The file a writing step touches, and what it was before.
LEMMA Touches ==
    ASSUME TypeOK, Phases, FileInv, NEW r \in Run, Step(r)
    PROVE  /\ \A f \in File \ {"dirs"} :
                 file'[f] # file[f] \/ holds'[f] # holds[f] =>
                     Writing(run[r]) /\ f = FileOf(run[r]) /\ (Creates(r) \/ Fills(r) \/ Unmakes(r) \/ Unlinks(r))
           /\ Creates(r) => file[FileOf(run[r])] = "absent"
           /\ Fills(r) \/ Unmakes(r) =>
                 file[FileOf(run[r])] = "torn" /\ holds[FileOf(run[r])] = r
           /\ Unlinks(r) => FileOf(run[r]) \in {"ckey", "cpub"} /\ run[r].tool \in Provisioner
<1>0. /\ file \in [File -> {"absent", "torn", "whole"}] /\ holds \in [File -> Key \cup {None}]
      /\ Phased(run[r])
  BY DEF TypeOK, Phases
<1>1. ASSUME NEW f \in File \ {"dirs"}, file'[f] # file[f] \/ holds'[f] # holds[f]
      PROVE  Writing(run[r]) /\ f = FileOf(run[r]) /\ (Creates(r) \/ Fills(r) \/ Unmakes(r) \/ Unlinks(r))
  <2>1. ~Quiet(r) /\ ~Starts(r)
    BY <1>0, <1>1 DEF Quiet, Starts
  <2>2. Creates(r) \/ Fills(r) \/ Unmakes(r) \/ Unlinks(r)
    BY <2>1 DEF Step
  <2>3. f = FileOf(run[r]) /\ Writing(run[r])
    BY <1>0, <1>1, <2>2 DEF Creates, Fills, Unmakes, Unlinks, SetFile
  <2> QED
    BY <2>2, <2>3
<1>2. Fills(r) \/ Unmakes(r) => file[FileOf(run[r])] = "torn" /\ holds[FileOf(run[r])] = r
  BY DEF Fills, Unmakes, FileInv, Filling
<1>3. Unlinks(r) => FileOf(run[r]) \in {"ckey", "cpub"} /\ run[r].tool \in Provisioner
  <2> SUFFICES ASSUME Unlinks(r)
               PROVE  FileOf(run[r]) \in {"ckey", "cpub"} /\ run[r].tool \in Provisioner
    OBVIOUS
  <2>1. run[r].tool = "prepare" /\ run[r].at \in {16, 17} /\ run[r].tool \in Provisioner
        /\ Writing(run[r])
    BY DEF Unlinks, Provisioner
  <2>2. Places("prepare", run[r].at, FileOf(run[r]))
    BY <1>0, <2>1, FilesInOrder
  <2> QED
    BY <2>1, <2>2 DEF Places
<1> QED
  BY <1>1, <1>2, <1>3 DEF Creates

\* A whole file stays, but for the two that prepare_workstation removes.
LEMMA WholeStays ==
    ASSUME TypeOK, Phases, FileInv, NEW r \in Run, Step(r),
           NEW f \in File \ {"dirs", "ckey", "cpub"}, Whole(f)
    PROVE  Whole(f)' /\ holds'[f] = holds[f]
<1> SUFFICES ASSUME file'[f] # file[f] \/ holds'[f] # holds[f] PROVE FALSE
  BY DEF Whole
<1>1. f = FileOf(run[r]) /\ (Creates(r) \/ Fills(r) \/ Unmakes(r) \/ Unlinks(r))
  BY Touches
<1> QED
  BY <1>1, Touches DEF Whole

\* Who touches a file of the identity has made its first, or is making it.
LEMMA IdentityTouched ==
    ASSUME TypeOK, Phases, FileInv, NEW r \in Run, Step(r), NEW f \in Identity,
           file'[f] # file[f] \/ holds'[f] # holds[f]
    PROVE  /\ f = FileOf(run[r]) /\ run[r].tool \in Provisioner /\ Writing(run[r])
           /\ Places(run[r].tool, run[r].at, f) /\ run[r].at \in Nat
           /\ \/ Owns(run[r])
              \/ Creates(r) /\ run[r].at = 1 /\ \A g \in Identity : file[g] = "absent"
<1>1. f \in File \ {"dirs"}
  BY DEF File, Identity
<1>2. /\ f = FileOf(run[r]) /\ Writing(run[r]) /\ (Creates(r) \/ Fills(r) \/ Unmakes(r) \/ Unlinks(r))
  BY <1>1, Touches
<1>3. Phased(run[r])
  BY DEF Phases
<1>4. run[r].tool \in Provisioner
  <2>1. "gkey" \notin Identity /\ "marker" \notin Identity
        /\ \A g \in {"mwpub", "mca", "config", "tunnel", "receipt"} : g \notin Identity
    BY DEF Identity
  <2> QED
    BY <1>2, <1>3, <2>1, FilesInOrder
<1>5. Places(run[r].tool, run[r].at, f) /\ run[r].at \in Nat
  BY <1>2, <1>3, <1>4, FilesInOrder, RunTypes
<1>6. CASE run[r].pc = "fill" \/ run[r].at # 1
  <2>1. run[r].at > 0
    BY <1>2, <1>3, <1>4, FilesInOrder
  <2> QED
    BY <1>2, <1>4, <1>5, <1>6, <2>1 DEF Owns, Writing
<1>7. CASE run[r].pc = "create" /\ run[r].at = 1
  <2>1. Creates(r)
    BY <1>2, <1>7 DEF Fills, Unmakes, Unlinks
  <2>2. file["wkey"] = "absent"
    BY <1>2, <1>5, <1>7, <2>1 DEF Creates, Places
  <2> QED
    BY <1>7, <2>1, <2>2, <1>2, <1>4, <1>5 DEF FileInv, FirstFile
<1> QED
  BY <1>2, <1>4, <1>5, <1>6, <1>7 DEF Writing

\* Nobody else touches a file that is being filled: it was made exclusively.
LEMMA FillingKeeps ==
    ASSUME TypeOK, Phases, FileInv, NEW r \in Run, Step(r)
    PROVE  Filling'
<1>0. /\ file \in [File -> {"absent", "torn", "whole"}] /\ holds \in [File -> Key \cup {None}]
      /\ \A q \in Run : Phased(run[q]) /\ run[q] \in State
  BY DEF TypeOK, Phases
<1>1. ASSUME NEW q \in Run \ {r}, run[q].pc = "fill"
      PROVE  file'[FileOf(run[q])] = "torn" /\ holds'[FileOf(run[q])] = q
  <2> DEFINE f == FileOf(run[q])
  <2>1. file[f] = "torn" /\ holds[f] = q
    BY <1>1 DEF FileInv, Filling
  <2>2. f \in File \ {"dirs"}
    BY <1>0, <1>1, FilesInOrder DEF Writing
  <2> HIDE DEF f
  <2>3. ASSUME file'[f] # file[f] \/ holds'[f] # holds[f] PROVE FALSE
    <3>1. f = FileOf(run[r]) /\ (Creates(r) \/ Fills(r) \/ Unmakes(r) \/ Unlinks(r))
      BY <2>2, <2>3, Touches
    <3>2. Unlinks(r) /\ f \in {"ckey", "cpub"}
      BY <2>1, <3>1, Touches
    <3>3. Owns(run[r])
      BY <3>2 DEF Unlinks, Owns, Provisioner
    <3>4. holds["wkey"] = r /\ holds[f] = holds["wkey"]
      <4>1. f \in Identity
        BY <3>2 DEF Identity
      <4> QED
        BY <2>1, <3>3, <4>1 DEF FileInv, FirstFile, Owned
    <3> QED
      BY <2>1, <3>4
  <2> QED
    BY <2>1, <2>3 DEF f
<1>2. ASSUME run'[r].pc = "fill"
      PROVE  file'[FileOf(run'[r])] = "torn" /\ holds'[FileOf(run'[r])] = r
  <2>1. Creates(r)
    <3>1. ~Quiet(r) /\ ~Starts(r) /\ ~Unmakes(r)
      BY <1>2 DEF Quiet, Starts, Unmakes
    <3>2. ~Fills(r)
      <4>1. Over(r).pc = "over"
        BY DEF Over, Idle
      <4> QED
        BY <1>0, <1>2, <4>1 DEF Fills, State
    <3>3. ~Unlinks(r)
      BY <1>0, <1>2 DEF Unlinks, State
    <3> QED
      BY <3>1, <3>2, <3>3 DEF Step
  <2>2. FileOf(run'[r]) = FileOf(run[r])
    <3>1. run'[r].tool = run[r].tool /\ run'[r].at = run[r].at
      BY <1>0, <2>1 DEF Creates, State
    <3> QED
      BY <3>1 DEF FileOf
  <2>3. FileOf(run[r]) \in File
    BY <1>0, <2>1, FilesInOrder DEF Creates
  <2> QED
    BY <1>0, <2>1, <2>2, <2>3 DEF Creates, SetFile
<1> SUFFICES ASSUME NEW q \in Run, run'[q].pc = "fill"
             PROVE  file'[FileOf(run'[q])] = "torn" /\ holds'[FileOf(run'[q])] = q
  BY DEF Filling, FileOf
<1> QED
  BY <1>1, <1>2 DEF Step, Others

\* Nobody adds to an identity without having made its first file.
LEMMA FirstFileKeeps ==
    ASSUME TypeOK, Phases, FileInv, NEW r \in Run, Step(r)
    PROVE  FirstFile'
<1>0. /\ file \in [File -> {"absent", "torn", "whole"}] /\ holds \in [File -> Key \cup {None}]
      /\ Identity \subseteq File /\ "wkey" \in Identity
  BY DEF TypeOK, File, Identity
<1>1. CASE \A f \in Identity : file'[f] = file[f] /\ holds'[f] = holds[f]
  BY <1>0, <1>1 DEF FileInv, FirstFile
<1>2. ASSUME NEW g \in Identity, file'[g] # file[g] \/ holds'[g] # holds[g]
      PROVE  FirstFile'
  <2>1. /\ g = FileOf(run[r]) /\ run[r].tool \in Provisioner /\ Writing(run[r])
        /\ Places(run[r].tool, run[r].at, g) /\ run[r].at \in Nat
        /\ \/ Owns(run[r])
           \/ Creates(r) /\ run[r].at = 1 /\ \A f \in Identity : file[f] = "absent"
    BY <1>2, IdentityTouched
  <2>2. \A f \in Identity \ {g} : file'[f] = file[f] /\ holds'[f] = holds[f]
    BY <2>1, IdentityTouched
  <2>3. CASE Creates(r) /\ run[r].at = 1 /\ \A f \in Identity : file[f] = "absent"
    <3>1. g = "wkey" /\ file'[g] = "torn"
      BY <1>0, <2>1, <2>3 DEF Places, Creates, SetFile
    <3> QED
      BY <2>2, <2>3, <3>1 DEF FirstFile
  <2>4. CASE Owns(run[r])
    <3>1. /\ file["wkey"] # "absent" /\ holds["wkey"] = r
          /\ run[r].at = 1 => \A f \in Identity \ {"wkey"} : file[f] = "absent"
      BY <2>4 DEF FileInv, Owned
    <3>2. \A f \in Identity : file[f] # "absent" => holds[f] = r
      BY <3>1 DEF FileInv, FirstFile
    <3>3. Creates(r) \/ Fills(r) \/ Unmakes(r) \/ Unlinks(r)
      BY <1>0, <1>2, Touches DEF File, Identity
    <3>4. CASE Creates(r)
      <4>1. file'[g] = "torn" /\ holds'[g] = r /\ g # "wkey"
        BY <1>0, <2>1, <3>1, <3>4, Touches DEF Creates, SetFile
      <4> QED
        BY <1>0, <2>2, <3>1, <3>2, <4>1 DEF FirstFile
    <3>5. CASE Fills(r)
      <4>1. file'[g] = "whole" /\ holds'[g] = r
        BY <1>0, <2>1, <3>5 DEF Fills, SetFile
      <4> QED
        BY <1>0, <2>2, <3>1, <3>2, <4>1 DEF FirstFile
    <3>6. CASE Unmakes(r) \/ Unlinks(r)
      <4>1. file'[g] = "absent"
        BY <1>0, <2>1, <3>6 DEF Unmakes, Unlinks, SetFile
      <4>2. CASE g = "wkey"
        <5>1. run[r].at = 1
          BY <2>1, <4>2 DEF Places
        <5> QED
          BY <2>2, <3>1, <4>1, <4>2, <5>1 DEF FirstFile
      <4>3. CASE g # "wkey"
        BY <1>0, <2>2, <3>1, <3>2, <4>1, <4>3 DEF FirstFile
      <4> QED
        BY <4>2, <4>3
    <3> QED
      BY <3>3, <3>4, <3>5, <3>6
  <2> QED
    BY <2>1, <2>3, <2>4
<1> QED
  BY <1>1, <1>2

\* The run that made the first file stays alone in the identity.
LEMMA OwnedKeeps ==
    ASSUME TypeOK, Phases, FileInv, NEW r \in Run, Step(r)
    PROVE  Owned'
<1>0. /\ file \in [File -> {"absent", "torn", "whole"}] /\ holds \in [File -> Key \cup {None}]
      /\ Identity \subseteq File /\ {"wkey", "ckey", "trust"} \subseteq Identity
      /\ run[r] \in State /\ Phased(run[r]) /\ run[r].at \in Nat
  BY RunTypes DEF TypeOK, File, Identity, Phases
<1> DEFINE OwnedBy(s, q) ==
        /\ file["wkey"] # "absent" /\ holds["wkey"] = q
        /\ s.at = 1 => \A f \in Identity \ {"wkey"} : file[f] = "absent"
        /\ s.at > 3 /\ ~Removed(s) => Whole("ckey") /\ holds["ckey"] = q
        /\ s.at < 5 \/ (s.at = 5 /\ s.pc = "create") => file["trust"] = "absent"
        /\ s.at > 5 => Whole("trust")
           OwnedThen(s, q) ==
        /\ file'["wkey"] # "absent" /\ holds'["wkey"] = q
        /\ s.at = 1 => \A f \in Identity \ {"wkey"} : file'[f] = "absent"
        /\ s.at > 3 /\ ~Removed(s) => file'["ckey"] = "whole" /\ holds'["ckey"] = q
        /\ s.at < 5 \/ (s.at = 5 /\ s.pc = "create") => file'["trust"] = "absent"
        /\ s.at > 5 => file'["trust"] = "whole"
<1>1. \A q \in Run : Owns(run[q]) => OwnedBy(run[q], q)
  BY DEF FileInv, Owned
<1>2. ASSUME NEW q \in Run \ {r}, Owns(run[q]) PROVE OwnedThen(run[q], q)
  <2>1. ASSUME NEW f \in Identity PROVE file'[f] = file[f] /\ holds'[f] = holds[f]
    <3> SUFFICES ASSUME file'[f] # file[f] \/ holds'[f] # holds[f] PROVE FALSE
      OBVIOUS
    <3>1. Owns(run[r]) \/ \A g \in Identity : file[g] = "absent"
      BY <2>1, IdentityTouched
    <3> QED
      BY <1>0, <1>1, <1>2, <3>1
  <2> QED
    BY <1>0, <1>1, <1>2, <2>1 DEF Whole
<1>3. ASSUME Owns(run'[r]) PROVE OwnedThen(run'[r], r)
  <2>1. ~Quiet(r) /\ ~Starts(r) /\ ~Unmakes(r)
    BY <1>3 DEF Quiet, Starts, Unmakes, Owns
  <2> DEFINE g == FileOf(run[r])
  <2>2. ASSUME Creates(r) \/ Fills(r) \/ Unlinks(r), run[r].tool \in Provisioner
        PROVE  /\ Places(run[r].tool, run[r].at, g) /\ run[r].at \in Nat /\ run[r].at > 0
               /\ \A f \in Identity : f # g => file'[f] = file[f] /\ holds'[f] = holds[f]
               /\ g \in File
    <3>1. Writing(run[r])
      BY <2>2 DEF Creates, Fills, Unlinks
    <3>2. Places(run[r].tool, run[r].at, g) /\ run[r].at > 0 /\ g \in File
      BY <1>0, <2>2, <3>1, FilesInOrder
    <3> QED
      BY <1>0, <3>2, IdentityTouched
  <2> HIDE DEF g
  <2>3. CASE Creates(r)
    <3>1. run'[r].tool = run[r].tool /\ run'[r].at = run[r].at /\ run'[r].pc = "fill"
          /\ run[r].pc = "create"
      BY <1>0, <2>3 DEF Creates, State
    <3>2. run[r].tool \in Provisioner
      BY <1>3, <3>1 DEF Owns
    <3>3. file[g] = "absent" /\ file'[g] = "torn" /\ holds'[g] = r
      BY <1>0, <2>2, <2>3, <3>2 DEF Creates, SetFile, g
    <3>4. CASE run[r].at = 1
      <4>1. g = "wkey" /\ \A f \in Identity : file[f] = "absent"
        BY <1>0, <2>2, <2>3, <3>2, <3>3, <3>4 DEF Places, FileInv, FirstFile
      <4> QED
        BY <1>0, <2>2, <2>3, <3>1, <3>2, <3>3, <3>4, <4>1
    <3>5. CASE run[r].at # 1
      <4>1. Owns(run[r])
        BY <2>2, <2>3, <3>1, <3>2, <3>5 DEF Owns
      <4>2. OwnedBy(run[r], r)
        BY <1>1, <4>1
      <4>3. g # "wkey" /\ (g = "trust" <=> run[r].at = 5)
        BY <2>2, <2>3, <3>2, <3>5 DEF Places
      <4>4. Removed(run'[r]) <=> Removed(run[r])
        BY <3>1 DEF Removed
      <4> QED
        BY <1>0, <2>2, <2>3, <3>1, <3>2, <3>3, <3>5, <4>2, <4>3, <4>4 DEF Whole
    <3> QED
      BY <3>4, <3>5
  <2>4. CASE Fills(r)
    <3>1. /\ run'[r].tool = run[r].tool /\ run'[r].at = run[r].at + 1 /\ run'[r].pc = "create"
          /\ run[r].pc = "fill" /\ run[r].tool \in Provisioner
      <4>1. run'[r] # Over(r)
        BY <1>3 DEF Owns, Over, Idle
      <4>2. PICK next \in {"create", "backup"} :
               /\ run'[r] = [run[r] EXCEPT !.pc = next, !.at = @ + 1]
        BY <2>4, <4>1 DEF Fills
      <4>3. run'[r].tool = run[r].tool /\ run'[r].at = run[r].at + 1 /\ run'[r].pc = next
        BY <1>0, <4>2 DEF State
      <4> QED
        BY <1>3, <2>4, <4>3 DEF Owns, Fills
    <3>2. OwnedBy(run[r], r)
      BY <1>1, <3>1 DEF Owns
    <3>3. file[g] = "torn" /\ file'[g] = "whole" /\ (g \in Identity => holds'[g] = r)
      <4>1. file[g] = "torn"
        BY <2>4, Touches DEF g
      <4>2. PICK whose : /\ SetFile(g, "whole", whose)
                         /\ whose = r \/ (g \notin Identity /\ run[r].at > 5)
        BY <2>4, <3>1 DEF Fills, g
      <4> QED
        BY <1>0, <2>2, <2>4, <3>1, <4>1, <4>2 DEF SetFile
    <3>4. /\ g = "wkey" <=> run[r].at = 1
          /\ g = "trust" <=> run[r].at = 5
          /\ run[r].at = 3 => g = "ckey"
      BY <2>2, <2>4, <3>1 DEF Places
    <3>5. ~Removed(run'[r]) => ~Removed(run[r])
      BY <2>2, <2>4, <3>1 DEF Removed
    <3>6. file'["wkey"] # "absent" /\ holds'["wkey"] = r
      BY <1>0, <2>2, <2>4, <3>1, <3>2, <3>3
    <3>7. run'[r].at > 3 /\ ~Removed(run'[r]) => file'["ckey"] = "whole" /\ holds'["ckey"] = r
      BY <1>0, <2>2, <2>4, <3>1, <3>2, <3>3, <3>4, <3>5 DEF Whole
    <3>8. /\ run'[r].at < 5 \/ (run'[r].at = 5 /\ run'[r].pc = "create") => file'["trust"] = "absent"
          /\ run'[r].at > 5 => file'["trust"] = "whole"
      BY <1>0, <2>2, <2>4, <3>1, <3>2, <3>3, <3>4 DEF Whole
    <3>9. run'[r].at # 1
      BY <2>2, <2>4, <3>1
    <3> QED
      BY <3>6, <3>7, <3>8, <3>9
  <2>5. CASE Unlinks(r)
    <3>1. /\ run'[r].tool = "prepare" /\ run'[r].at \in {17, 18} /\ run[r].at \in {16, 17}
          /\ run[r].tool = "prepare" /\ run[r].pc = "create" /\ run[r].tool \in Provisioner
      BY <1>0, <2>5 DEF Unlinks, State, Provisioner
    <3>2. Owns(run[r]) /\ OwnedBy(run[r], r)
      BY <1>1, <3>1 DEF Owns
    <3>3. g # "wkey" /\ g # "trust" /\ Removed(run'[r])
      BY <2>2, <2>5, <3>1 DEF Places, Removed
    <3> QED
      BY <1>0, <2>2, <2>5, <3>1, <3>2, <3>3 DEF Whole
  <2> QED
    BY <2>1, <2>3, <2>4, <2>5 DEF Step
<1>4. \A q \in Run : Owns(run'[q]) => OwnedThen(run'[q], q)
  BY <1>2, <1>3 DEF Step, Others
<1> QED
  BY <1>4 DEF Owned, Owns, Removed, Whole

\* A private key's file holds a key, and only a provisioner writes ckey or its
\* export.
LEMMA KeysKeep ==
    ASSUME TypeOK, Phases, FileInv, NEW r \in Run, Step(r)
    PROVE  Keys'
<1>0. /\ file \in [File -> {"absent", "torn", "whole"}] /\ holds \in [File -> Key \cup {None}]
      /\ {"ckey", "gkey", "xckey"} \subseteq File \ {"dirs"} /\ Phased(run[r])
      /\ "ckey" \in Identity /\ None \notin Run /\ r \in Key
  BY RunAssumption DEF TypeOK, File, Identity, Export, Root, Phases, Key
<1>1. ASSUME NEW f \in {"ckey", "gkey", "xckey"}, file'[f] # file[f] \/ holds'[f] # holds[f]
      PROVE  /\ f = FileOf(run[r]) /\ Writing(run[r])
             /\ f # "gkey" => run[r].tool \in Provisioner
             /\ \/ file'[f] # "whole" /\ holds'[f] \in {r, None}
                \/ file'[f] = "whole" /\ f # "xckey" /\ holds'[f] = r
                \/ f = "xckey" /\ holds'[f] = holds["ckey"]
  <2>1. /\ Writing(run[r]) /\ f = FileOf(run[r])
        /\ (Creates(r) \/ Fills(r) \/ Unmakes(r) \/ Unlinks(r))
    BY <1>0, <1>1, Touches
  <2>2. f # "gkey" => run[r].tool \in Provisioner
    BY <1>0, <2>1, FilesInOrder
  <2>3. CASE Creates(r) \/ Unmakes(r) \/ Unlinks(r)
    BY <1>0, <2>1, <2>2, <2>3 DEF Creates, Unmakes, Unlinks, SetFile
  <2>4. CASE Fills(r)
    BY <1>0, <2>1, <2>2, <2>4 DEF Fills, SetFile
  <2> QED
    BY <2>1, <2>2, <2>3, <2>4
<1>2. ASSUME NEW f \in {"ckey", "gkey"}, file'[f] = "whole" PROVE holds'[f] \in Key
  BY <1>0, <1>1, <1>2 DEF FileInv, Keys, Whole
<1>3. ASSUME NEW q \in Run, run'[q].pc = "idle" \/ run'[q].tool \notin Provisioner
      PROVE  holds'["ckey"] # q /\ holds'["xckey"] # q
  <2>1. CASE q # r
    <3>1. run[q].pc = "idle" \/ run[q].tool \notin Provisioner
      BY <1>3, <2>1 DEF Step, Others
    <3>2. holds["ckey"] # q /\ holds["xckey"] # q
      BY <3>1 DEF FileInv, Keys
    <3> QED
      BY <1>0, <1>1, <2>1, <3>2
  <2>2. CASE q = r
    <3>1. run[r].pc = "idle" \/ run[r].tool \notin Provisioner
      BY <1>3, <2>2 DEF Step, Ordered
    <3>2. holds["ckey"] # r /\ holds["xckey"] # r
      BY <3>1 DEF FileInv, Keys
    <3>3. holds'["ckey"] = holds["ckey"] /\ holds'["xckey"] = holds["xckey"]
      BY <1>1, <3>1 DEF Writing
    <3> QED
      BY <2>2, <3>2, <3>3
  <2> QED
    BY <2>1, <2>2
<1> QED
  BY <1>2, <1>3 DEF Keys, Whole

\* Service and configuration come after the trust list, and it stays.
LEMMA BuiltKeeps ==
    ASSUME TypeOK, Phases, FileInv, NEW r \in Run, Step(r)
    PROVE  Built'
<1>0. /\ file \in [File -> {"absent", "torn", "whole"}] /\ holds \in [File -> Key \cup {None}]
      /\ {"trust", "service", "config"} \subseteq File \ {"dirs", "ckey", "cpub"} /\ Phased(run[r])
  BY DEF TypeOK, File, Identity, Root, Phases
<1>1. \A f \in {"trust", "service", "config"} : Whole(f) => file'[f] = "whole"
  BY <1>0, WholeStays DEF Whole
<1>2. ASSUME NEW f \in {"service", "config"}, file'[f] # file[f] PROVE Whole("trust")
  <2>1. /\ Writing(run[r]) /\ f = FileOf(run[r])
    BY <1>0, <1>2, Touches
  <2>2. CASE run[r].tool \in Provisioner
    <3>1. Places(run[r].tool, run[r].at, f)
      BY <1>0, <2>1, <2>2, FilesInOrder
    <3>2. run[r].at > 5 /\ run[r].at \in Nat
      BY <1>2, <3>1, RunTypes DEF Places
    <3>3. Owns(run[r])
      BY <2>1, <2>2, <3>2 DEF Owns, Writing
    <3> QED
      BY <3>2, <3>3 DEF FileInv, Owned
  <2>3. CASE run[r].tool = "attach"
    BY <2>1, <2>3 DEF FileInv, Built, BuiltRun
  <2>4. run[r].tool # "recover"
    BY <1>0, <1>2, <2>1, FilesInOrder
  <2> QED
    BY <1>0, <2>1, <2>2, <2>3, <2>4, FilesInOrder
<1>3. (file'["service"] = "whole" => file'["trust"] = "whole")
      /\ (file'["config"] # "absent" => file'["trust"] = "whole")
  BY <1>1, <1>2 DEF FileInv, Built, Whole
<1>4. \A q \in Run : BuiltRun(run'[q])
  BY DEF FileInv, Built, Step, Others, Ordered
<1>5. ASSUME NEW q \in Run PROVE BuiltRun(run[q])'
  <2>1. BuiltRun(run'[q])
    BY <1>4
  <2> QED
    BY <1>1, <2>1 DEF BuiltRun, Writing, Whole
<1> QED
  BY <1>3, <1>5 DEF Built, Whole

\* Every step keeps what is claimed of the files.
LEMMA FileKeeps ==
    ASSUME TypeOK, Phases, FileInv, [Next]_vars
    PROVE  FileInv'
<1>1. CASE \E r \in Run : Step(r)
  BY <1>1, FillingKeeps, FirstFileKeeps, OwnedKeeps, KeysKeep, BuiltKeeps DEF FileInv
<1>2. CASE UNCHANGED <<file, holds, run>>
  BY <1>2 DEF FileInv, Filling, FirstFile, Owned, Keys, Built, BuiltRun, FileOf, Owns, Removed,
     Writing, Whole
<1> QED
  BY <1>1, <1>2, FileSteps DEF FileInv

\* The installations a history begins with are as claimed.
LEMMA FilesAtFirst == Init => FileInv
<1> SUFFICES ASSUME Init PROVE FileInv
  OBVIOUS
<1>1. \A r \in Run : run[r].pc = "idle" /\ run[r].tool = "provision"
  BY DEF Init, Idle
<1>2. Filling /\ Owned /\ \A r \in Run : BuiltRun(run[r])
  BY <1>1 DEF Filling, Owned, Owns, BuiltRun, Upgrader, Writing
<1>3. {"wkey", "ckey", "trust"} \subseteq Identity /\ Identity \subseteq File
      /\ {"xckey", "gkey", "service", "config"} \subseteq File
      /\ {"xckey", "gkey", "service", "config"} \cap Identity = {}
  BY DEF Identity, File, Export, Root
<1>4. CASE Blank
  BY <1>2, <1>3, <1>4, RunAssumption DEF Blank, FileInv, FirstFile, Keys, Built, Whole, Key
<1>5. ASSUME NEW p \in Past, BootstrappedBy(p) PROVE FileInv
  <2>1. /\ \A f \in Identity : file[f] = "whole" /\ holds[f] = p
        /\ holds["xckey"] = None /\ file["gkey"] = "absent"
    BY <1>3, <1>5 DEF BootstrappedBy, Identity
  <2> QED
    BY <1>2, <1>3, <2>1, RunAssumption DEF FileInv, FirstFile, Keys, Built, Whole, Key
<1>6. ASSUME NEW p \in Past, NEW q \in Past, AttachedBy(p, q) PROVE FileInv
  <2>1. /\ \A f \in Identity \ {"ckey", "cpub"} : file[f] = "whole" /\ holds[f] = p
        /\ \A f \in {"ckey", "cpub"} : file[f] = "absent" /\ holds[f] = None
        /\ holds["xckey"] = p /\ holds["gkey"] = q
    BY <1>3, <1>6 DEF AttachedBy, Identity, Export, File
  <2>2. FirstFile
    BY <1>3, <2>1 DEF FirstFile
  <2>3. Keys
    BY <2>1, RunAssumption DEF Keys, Whole, Key
  <2>4. Whole("trust")
    BY <1>3, <2>1 DEF Whole
  <2> QED
    BY <1>2, <2>2, <2>3, <2>4 DEF FileInv, Built
<1> QED
  BY <1>4, <1>5, <1>6 DEF Init

\* The tools' runs keep to their types, whichever interleave and whichever die.
THEOREM InstallationTypeCorrect == Spec => []TypeOK
<1>1. Init => TypeOK /\ Phases
  BY PhasesAtFirst
<1>2. TypeOK /\ Phases /\ [Next]_vars => (TypeOK /\ Phases)'
  BY PhaseSteps
<1> QED
  BY <1>1, <1>2, PTL DEF Spec

\* The inductive invariant of the files: who made them, who holds the lock, and
\* what was built on what, for any number of runs that race and die.
THEOREM InstallationFiles == Spec => [](TypeOK /\ Phases /\ FileInv)
<1>1. Init => TypeOK /\ Phases /\ FileInv
  BY PhasesAtFirst, FilesAtFirst
<1>2. TypeOK /\ Phases /\ FileInv /\ [Next]_vars => (TypeOK /\ Phases /\ FileInv)'
  BY PhaseSteps, FileKeeps
<1> QED
  BY <1>1, <1>2, PTL DEF Spec

\* The files of an identity all come from one run, whichever runs of
\* provision.py raced for the directory: creating wkey exclusively decides.
THEOREM IdentityOfOneRun == Spec => []OneIdentity
<1>1. FileInv => OneIdentity
  BY DEF FileInv, FirstFile, OneIdentity
<1> QED
  BY <1>1, InstallationFiles, PTL

----------------------------------------------------------------------------
(* How the trust list changes                                              *)

\* A provisioner writes it, recovery adds to it, an upgrade raises an entry, a
\* roll-back puts it back.
Granting(r) ==
    /\ FillNext(r) /\ FileOf(run[r]) = "trust" /\ run[r].at = 5
    /\ trust' = [NoTrust EXCEPT ![r] = run[r].level]

Enrolling(r) ==
    /\ run[r].tool = "recover" /\ run[r].pc = "put"
    /\ trust' = [run[r].was.trust EXCEPT ![run[r].key] = 1]

Raising(r) ==
    /\ run[r].tool \in Upgrader /\ run[r].pc = "put" /\ run[r].at = 1
    /\ trust' = Raised(run[r])

Restoring(r) ==
    /\ run[r].tool \in Upgrader /\ run[r].pc = "undo" /\ run[r].at = 1
    /\ trust' = run[r].was.trust

TrustStays == trust' = trust /\ file'["trust"] = file["trust"]

\* controller-trust.json changes in four ways only: a provisioner writes it,
\* recovery adds an entry, an upgrade raises one, a rollback restores the list.
LEMMA TrustSteps ==
    ASSUME TypeOK, Phases, FileInv, [Next]_vars
    PROVE  \/ TrustStays
           \/ trust' = trust /\ file'["trust"] # "whole" /\ file["trust"] # "whole"
           \/ \E r \in Run : \/ Granting(r)
                             \/ /\ file'["trust"] = file["trust"]
                                /\ Enrolling(r) \/ Raising(r) \/ Restoring(r)
<1>0. /\ file \in [File -> {"absent", "torn", "whole"}] /\ "trust" \in File \ {"dirs"}
      /\ \A r \in Run : Phased(run[r])
  BY DEF TypeOK, File, Identity, Phases
<1>1. ASSUME NEW r \in Run, Provision(r)
      PROVE  \/ TrustStays \/ Granting(r)
             \/ trust' = trust /\ file'["trust"] # "whole" /\ file["trust"] # "whole"
  <2>1. CASE StartProvision(r) \/ StartBootstrap(r) \/ StartPrepare(r)
    BY <1>0, <2>1 DEF StartProvision, StartBootstrap, StartPrepare, Begin, TrustStays
  <2>2. ASSUME run[r].tool \in Provisioner, run[r].pc \in {"create", "fill"}
        PROVE  /\ Writing(run[r]) /\ Current(r) = FileOf(run[r])
               /\ Places(run[r].tool, run[r].at, FileOf(run[r]))
    BY <1>0, <2>2, FilesInOrder DEF Current, Writing
  <2>3. CASE CreateNext(r)
    BY <1>0, <2>2, <2>3 DEF CreateNext, Create, SetFile, TrustStays
  <2>4. CASE FillNext(r)
    <3>1. /\ FileOf(run[r]) = Current(r) /\ (FileOf(run[r]) = "trust" <=> run[r].at = 5)
      BY <2>2, <2>4 DEF FillNext, Places
    <3>2. CASE FileOf(run[r]) = "trust"
      BY <2>4, <3>1, <3>2 DEF FillNext, Write, Granting
    <3>3. CASE FileOf(run[r]) # "trust"
      BY <1>0, <2>4, <3>1, <3>3 DEF FillNext, Write, Fill, SetFile, TrustStays
    <3> QED
      BY <3>2, <3>3
  <2>5. CASE FillNextFails(r)
    <3>1. file[FileOf(run[r])] = "torn" /\ Current(r) = FileOf(run[r])
      BY <2>2, <2>5 DEF FillNextFails, FileInv, Filling
    <3> QED
      BY <1>0, <2>5, <3>1 DEF FillNextFails, FillFails, SetFile, TrustStays
  <2>6. CASE Unlink(r)
    <3>1. Current(r) # "trust"
      BY <2>2, <2>6 DEF Unlink, Unlinking, Provisioner, Places
    <3> QED
      BY <1>0, <2>6, <3>1 DEF Unlink, SetFile, TrustStays
  <2> QED
    BY <1>1, <2>1, <2>3, <2>4, <2>5, <2>6 DEF Provision
<1>2. ASSUME NEW r \in Run, Recover(r)
      PROVE  TrustStays \/ (file'["trust"] = file["trust"] /\ Enrolling(r))
  <2>1. CASE WriteRecoveryFile(r)
    <3>1. RecoveryFiles[run[r].at] # "trust"
      BY <1>0, <2>1, FilesInOrder DEF WriteRecoveryFile, Writing
    <3> QED
      BY <1>0, <2>1, <3>1 DEF WriteRecoveryFile, Create, Fill, FillFails, SetFile, TrustStays
  <2>2. CASE Enroll(r)
    BY <2>2 DEF Enroll, Install, Enrolled, Enrolling
  <2>3. CASE BackupTrust(r)
    BY <2>3 DEF BackupTrust, Keep, TrustStays
  <2> QED
    BY <1>2, <2>1, <2>2, <2>3 DEF Recover, StartRecover, ReuseEnrolled, ResumeGenerated,
       GenerateKey, VerifyEnrolled, RecoverFails, disk, TrustStays
<1>3. ASSUME NEW r \in Run, Attach(r)
      PROVE  TrustStays
  <2>1. CASE WriteAttachFile(r)
    <3>1. AttachFiles[run[r].at] # "trust"
      BY <1>0, <2>1, FilesInOrder DEF WriteAttachFile, Writing
    <3> QED
      BY <1>0, <2>1, <3>1
      DEF WriteAttachFile, Create, Fill, FillFails, Reuse, SetFile, disk, TrustStays
  <2> QED
    BY <1>3, <2>1 DEF Attach, StartAttach, AttachLooks, disk, TrustStays
<1>4. ASSUME NEW r \in Run, UpgradeStep(r)
      PROVE  TrustStays \/ (file'["trust"] = file["trust"] /\ (Raising(r) \/ Restoring(r)))
  <2>0. ASSUME run[r].tool \in Upgrader, run[r].at \in 1..Len(Targets(run[r].tool))
        PROVE  /\ Targets(run[r].tool)[run[r].at] \in {"trust", "config", "service"}
               /\ Targets(run[r].tool)[run[r].at] = "trust" => run[r].at = 1
    BY <2>0, TargetOrder
  <2>1. CASE BackupNext(r)
    <3>1. run[r].tool \in Upgrader /\ run[r].at \in 1..Len(Targets(run[r].tool))
      BY <1>0, <2>1 DEF BackupNext, Phased, Upgrader
    <3> QED
      BY <2>0, <2>1, <3>1 DEF BackupNext, Keep, TrustStays
  <2>2. CASE Put(r)
    <3>1. /\ run[r].tool \in Upgrader /\ run[r].at \in 1..Len(Targets(run[r].tool))
          /\ run[r].pc = "put"
      BY <1>0, <2>2 DEF Put, Phased, Upgrader
    <3>2. Wanted(r).trust = Raised(run[r])
      BY DEF Wanted, Raised
    <3>3. \/ UNCHANGED disk
          \/ Install(Targets(run[r].tool)[run[r].at], Wanted(r))
      BY <2>2 DEF Put
    <3> QED
      BY <2>0, <3>1, <3>2, <3>3 DEF Install, Raising, disk, TrustStays
  <2>3. CASE Undo(r)
    <3>1. /\ run[r].tool \in Upgrader /\ run[r].at \in 1..Len(Targets(run[r].tool))
          /\ run[r].pc = "undo"
      BY <1>0, <2>3 DEF Undo, Phased
    <3>2. \/ UNCHANGED disk
          \/ Install(Targets(run[r].tool)[run[r].at], run[r].was)
      BY <2>3 DEF Undo
    <3> QED
      BY <2>0, <3>1, <3>2 DEF Install, Restoring, disk, TrustStays
  <2> QED
    BY <1>4, <2>1, <2>2, <2>3 DEF UpgradeStep, StartUpgrade, ReadService, ReadConfig, ReadIdentity,
       ReadTrust, ReadConfigAgain, ReadServiceAgain, Recheck, UpgradeFails, VerifyUpgrade, disk,
       TrustStays
<1>5. ASSUME NEW r \in Run,
             _acquire_recovery_lock(r) \/ _release_recovery_lock(r) \/ Crash(r)
      PROVE  TrustStays
  BY <1>5 DEF _acquire_recovery_lock, _release_recovery_lock, Crash, disk, TrustStays
<1>6. CASE Reconcile \/ UNCHANGED vars
  BY <1>6 DEF Reconcile, vars, disk, TrustStays
<1> QED
  BY <1>1, <1>2, <1>3, <1>4, <1>5, <1>6 DEF Next

\* Whoever has a private key in a file keeps it in some file: prepare_workstation
\* removes ckey only after its export holds the same key.
LEMMA ExistsStays ==
    ASSUME TypeOK, Phases, FileInv, [Next]_vars, NEW k \in Key, Exists(k)
    PROVE  Exists(k)'
<1>1. ASSUME NEW r \in Run, Step(r) PROVE Exists(k)'
  <2>1. PICK f \in {"ckey", "gkey", "xckey"} : Whole(f) /\ holds[f] = k
    BY DEF Exists
  <2>2. ASSUME NEW g \in {"gkey", "xckey"}, Whole(g), holds[g] = k PROVE Exists(k)'
    <3>1. g \in File \ {"dirs", "ckey", "cpub"}
      BY <2>2 DEF File, Export, Root
    <3>2. Whole(g)' /\ holds'[g] = k
      BY <1>1, <2>2, <3>1, WholeStays
    <3> QED
      BY <2>2, <3>2 DEF Exists
  <2>3. CASE f = "ckey"
    <3>1. CASE file'["ckey"] = file["ckey"] /\ holds'["ckey"] = holds["ckey"]
      BY <2>1, <2>3, <3>1 DEF Exists, Whole
    <3>2. CASE file'["ckey"] # file["ckey"] \/ holds'["ckey"] # holds["ckey"]
      <4>1. "ckey" \in File \ {"dirs"}
        BY DEF File, Identity
      <4>2. /\ "ckey" = FileOf(run[r])
            /\ (Creates(r) \/ Fills(r) \/ Unmakes(r) \/ Unlinks(r))
        BY <1>1, <3>2, <4>1, Touches
      <4>3. Unlinks(r)
        BY <1>1, <2>1, <2>3, <4>2, Touches DEF Whole
      <4>4. run[r].at = 16
        <5>1. Phased(run[r]) /\ Writing(run[r]) /\ run[r].tool = "prepare" /\ run[r].at \in {16, 17}
          BY <4>3 DEF Phases, Unlinks
        <5>2. Places("prepare", run[r].at, "ckey")
          BY <4>2, <5>1, FilesInOrder DEF Provisioner
        <5> QED
          BY <5>1, <5>2 DEF Places
      <4>5. Whole("xckey") /\ holds["xckey"] = k
        BY <2>1, <2>3, <4>3, <4>4 DEF Unlinks
      <4> QED
        BY <2>2, <4>5
    <3> QED
      BY <3>1, <3>2
  <2> QED
    BY <2>1, <2>2, <2>3
<1>2. CASE UNCHANGED <<file, holds, run>>
  BY <1>2 DEF Exists, Whole
<1> QED
  BY <1>1, <1>2, FileSteps DEF FileInv

\* The list comes to name nobody without a key, and a key is not lost.
LEMMA EnrolledKeep ==
    ASSUME TypeOK, TypeOK', Phases, FileInv, KeyInv, [Next]_vars
    PROVE  EnrolledKeysExist'
<1> SUFFICES ASSUME Whole("trust")', NEW k \in Key, trust'[k] > 0
             PROVE  Exists(k)'
  BY DEF EnrolledKeysExist, Exists
<1> SUFFICES Exists(k)
  BY ExistsStays
<1>0. trust \in [Key -> Level] /\ \A r \in Run : run[r] \in State /\ Phased(run[r])
  BY DEF TypeOK, Phases
<1>1. ASSUME TrustStays PROVE Exists(k)
  BY <1>1 DEF TrustStays, KeyInv, EnrolledKeysExist, Whole, Exists
<1>2. ASSUME NEW r \in Run, Granting(r) PROVE Exists(k)
  <2>1. run[r].at = 5 /\ run[r].pc = "fill" /\ run[r].tool \in Provisioner
    BY <1>2 DEF Granting, FillNext
  <2>2. Whole("ckey") /\ holds["ckey"] = r
    <3>1. Owns(run[r]) /\ ~Removed(run[r])
      BY <2>1 DEF Owns, Removed
    <3> QED
      BY <2>1, <3>1 DEF FileInv, Owned
  <2>3. k = r
    BY <1>2 DEF Granting, NoTrust
  <2> QED
    BY <2>2, <2>3 DEF Exists
<1>3. ASSUME NEW r \in Run, Enrolling(r) PROVE Exists(k)
  <2>1. /\ Aims(r, run[r]) /\ NeedsKey(run[r]) /\ run[r].was.trust \in [Key -> Level]
    BY <1>0, <1>3 DEF Enrolling, KeyInv, NeedsKey, State
  <2>2. CASE k = run[r].key
    BY <2>1, <2>2 DEF Aims, Exists
  <2>3. CASE k # run[r].key
    BY <1>3, <2>1, <2>3 DEF Aims, Enrolling
  <2> QED
    BY <2>2, <2>3
<1>4. ASSUME NEW r \in Run, Raising(r) PROVE Exists(k)
  <2>1. /\ Aims(r, run[r]) /\ HasTrust(run[r]) /\ run[r].was.trust \in [Key -> Level]
    BY <1>0, <1>4 DEF Raising, KeyInv, HasTrust, State
  <2>2. run[r].was.trust[run[r].key] > 0
    BY <2>1 DEF Aims, Meant, Sources, Goal
  <2>3. k # run[r].key => run[r].was.trust[k] > 0
    BY <1>4, <2>1 DEF Raising, Raised
  <2> QED
    BY <2>1, <2>2, <2>3 DEF Aims
<1>5. ASSUME NEW r \in Run, Restoring(r) PROVE Exists(k)
  BY <1>5 DEF Restoring, KeyInv, Aims
<1> QED
  BY <1>1, <1>2, <1>3, <1>4, <1>5, TrustSteps DEF Whole

\* What a run knows after its step, of the disk before it.
Aimed(r) ==
    /\ \A k \in Key : run'[r].was.trust[k] > 0 => Exists(k)
    /\ Meant(r, run'[r])
    /\ NeedsKey(run'[r]) => \/ Whole("gkey") /\ holds["gkey"] = run'[r].key
                            \/ file'["gkey"] = "whole" /\ holds'["gkey"] = run'[r].key

\* A provisioner and attach mean to change no entry of an existing list.
LEMMA AimsAtNothing ==
    ASSUME KeyInv, NEW r \in Run, run'[r].tool \in Provisioner \cup {"attach"},
           run'[r].was.trust \in {run[r].was.trust, NoTrust}
    PROVE  Aimed(r)
<1>1. \A k \in Key : run'[r].was.trust[k] > 0 => Exists(k)
  BY DEF KeyInv, Aims, NoTrust
<1> QED
  BY <1>1 DEF Aimed, Meant, NeedsKey, HasTrust, Upgrader, Provisioner

\* Nor does a run that ends.
LEMMA AimsOver ==
    ASSUME TypeOK, KeyInv, NEW r \in Run,
           End(r) \/ \E end \in {"done", "failed", "manual"} : Leave(r, end)
    PROVE  Aimed(r)
<1>1. run'[r] = Over(r) \/ \E end \in {"done", "failed", "manual"} : run'[r] = Leaving(r, end)
  BY DEF End, Leave, TypeOK
<1>2. run'[r].tool = "provision" /\ run'[r].was.trust = NoTrust
  <2>1. Idle \in State /\ Idle.tool = "provision" /\ Idle.was.trust = NoTrust
    BY IdleIsPhased
  <2>2. CASE run'[r] = Over(r)
    BY <2>1, <2>2 DEF Over, State
  <2>3. ASSUME NEW end, run'[r] = Leaving(r, end)
        PROVE  run'[r].tool = "provision" /\ run'[r].was.trust = NoTrust
    BY <2>1, <2>3 DEF Leaving, State
  <2> QED
    BY <1>1, <2>2, <2>3
<1> QED
  BY <1>2, AimsAtNothing DEF Provisioner

\* A provisioner's steps leave nothing it would enroll later.
LEMMA ProvisionAims ==
    ASSUME TypeOK, Phases, KeyInv, NEW r \in Run, Provision(r)
    PROVE  Aimed(r)
<1>0. run \in [Run -> State] /\ run[r] \in State
  BY DEF TypeOK
<1>1. CASE StartProvision(r) \/ StartBootstrap(r) \/ StartPrepare(r)
  <2>1. \E tool \in Provisioner, level \in {2, 3} : Begin(r, tool, level)
    BY <1>1 DEF StartProvision, StartBootstrap, StartPrepare, Provisioner
  <2>2. run'[r].tool \in Provisioner /\ run'[r].was.trust = NoTrust
    BY <1>0, <2>1 DEF Begin, Idle, Nothing
  <2> QED
    BY <2>2, AimsAtNothing
<1>2. ASSUME run[r].tool \in Provisioner, run'[r].tool = run[r].tool, run'[r].was = run[r].was
      PROVE  Aimed(r)
  BY <1>2, AimsAtNothing
<1>3. CASE CreateNext(r)
  BY <1>0, <1>2, <1>3 DEF CreateNext, Create, State
<1>4. CASE FillNext(r)
  <2>1. run[r].tool \in Provisioner /\ NextFile(r, AfterThis(r))
    BY <1>4 DEF FillNext, Fill
  <2>2. CASE End(r)
    BY <2>2, AimsOver
  <2>3. CASE run' = [run EXCEPT ![r].pc = AfterThis(r), ![r].at = @ + 1]
    <3>1. run'[r].tool = run[r].tool /\ run'[r].was = run[r].was
      BY <1>0, <2>3 DEF State
    <3> QED
      BY <1>2, <2>1, <3>1
  <2> QED
    BY <2>1, <2>2, <2>3 DEF NextFile, End
<1>5. CASE FillNextFails(r)
  BY <1>5, AimsOver DEF FillNextFails, FillFails, End, Leave
<1>6. CASE Unlink(r)
  <2>1. run'[r].tool = run[r].tool /\ run'[r].was = run[r].was /\ run[r].tool \in Provisioner
    BY <1>0, <1>6 DEF Unlink, Unlinking, State, Provisioner
  <2> QED
    BY <1>2, <2>1
<1> QED
  BY <1>1, <1>3, <1>4, <1>5, <1>6 DEF Provision

\* Nor do the steps of attach.
LEMMA AttachAims ==
    ASSUME TypeOK, Phases, KeyInv, NEW r \in Run, Attach(r)
    PROVE  Aimed(r)
<1>0. run \in [Run -> State] /\ run[r] \in State
  BY DEF TypeOK
<1>1. CASE StartAttach(r)
  <2>1. run'[r].tool = "attach" /\ run'[r].was.trust = NoTrust
    BY <1>0, <1>1 DEF StartAttach, Idle, Nothing
  <2> QED
    BY <2>1, AimsAtNothing
<1>2. ASSUME run[r].tool = "attach", run'[r].tool = run[r].tool, run'[r].was = run[r].was
      PROVE  Aimed(r)
  BY <1>2, AimsAtNothing
<1>3. CASE AttachLooks(r)
  BY <1>0, <1>2, <1>3 DEF AttachLooks, Goto, State
<1>4. CASE WriteAttachFile(r)
  <2> DEFINE f == AttachFiles[run[r].at]
  <2>1. run[r].tool = "attach" /\ (Create(r, f) \/ FillFails(r, f) \/ \E next : NextFile(r, next))
    BY <1>4 DEF WriteAttachFile, Reuse, Fill
  <2> HIDE DEF f
  <2>2. CASE Create(r, f)
    BY <1>0, <1>2, <2>1, <2>2 DEF Create, State
  <2>3. CASE FillFails(r, f)
    BY <2>3, AimsOver DEF FillFails, End, Leave
  <2>4. ASSUME NEW next, NextFile(r, next) PROVE Aimed(r)
    <3>1. CASE End(r)
      BY <3>1, AimsOver
    <3>2. CASE run' = [run EXCEPT ![r].pc = next, ![r].at = @ + 1]
      <4>1. run'[r].tool = run[r].tool /\ run'[r].was = run[r].was
        BY <1>0, <3>2 DEF State
      <4> QED
        BY <1>2, <2>1, <4>1
    <3> QED
      BY <2>4, <3>1, <3>2 DEF NextFile, End
  <2> QED
    BY <2>1, <2>2, <2>3, <2>4
<1> QED
  BY <1>1, <1>3, <1>4 DEF Attach

\* What ensure_readonly_controller means to enroll has its key written first.
LEMMA RecoverAims ==
    ASSUME TypeOK, Phases, FileInv, KeyInv, NEW r \in Run, Recover(r)
    PROVE  Aimed(r)
<1> DEFINE s == run[r]
<1>0. /\ run \in [Run -> State] /\ s \in State /\ Phased(s) /\ Aims(r, s)
      /\ trust \in [Key -> Level]
      /\ file \in [File -> {"absent", "torn", "whole"}] /\ holds \in [File -> Key \cup {None}]
      /\ "gkey" \in File
  BY RunTypes DEF Phases, TypeOK, KeyInv, File, Root
<1>1. CASE StartRecover(r)
  <2>1. run'[r].tool = "recover" /\ run'[r].was.trust = NoTrust /\ run'[r].pc = "lock"
    BY <1>0, <1>1 DEF StartRecover, Idle, Nothing
  <2> QED
    BY <2>1 DEF Aimed, Meant, NeedsKey, HasTrust, Writing, Upgrader, NoTrust
<1>2. CASE ReuseEnrolled(r) \/ VerifyEnrolled(r) \/ RecoverFails(r)
  BY <1>2, AimsOver DEF ReuseEnrolled, VerifyEnrolled, RecoverFails
<1>3. CASE ResumeGenerated(r) \/ GenerateKey(r)
  <2>1. s.tool = "recover" /\ s.pc = "look" /\ Whole("trust") /\ s.at = 1
    BY <1>0, <1>3 DEF ResumeGenerated, GenerateKey, Looking, IdentityLoads, Phased
  <2>2. \A k \in Key : trust[k] > 0 => Exists(k)
    BY <2>1 DEF KeyInv, EnrolledKeysExist, Exists
  <2>3. CASE ResumeGenerated(r)
    <3>1. /\ run'[r].tool = "recover" /\ run'[r].pc = "backup" /\ run'[r].was.trust = trust
          /\ run'[r].key = holds["gkey"]
      BY <1>0, <2>1, <2>3 DEF ResumeGenerated, State
    <3>2. Whole("gkey") /\ trust[holds["gkey"]] = 0 /\ holds["gkey"] \in Key
      BY <2>3 DEF ResumeGenerated, FileInv, Keys
    <3> QED
      BY <2>2, <3>1, <3>2 DEF Aimed, Meant, NeedsKey, HasTrust, Writing, Upgrader
  <2>4. CASE GenerateKey(r)
    <3>1. /\ run'[r].tool = "recover" /\ run'[r].pc = "create" /\ run'[r].was.trust = trust
          /\ run'[r].key = r /\ run'[r].at = 1
      BY <1>0, <2>1, <2>4 DEF GenerateKey, State
    <3>2. ~Exists(r)
      BY <2>1, <2>4 DEF GenerateKey, FileInv, Keys, Exists, Whole, Provisioner
    <3>3. r \in Key /\ trust[r] = 0
      BY <1>0, <2>2, <3>2 DEF Key, Level
    <3> QED
      BY <2>2, <3>1, <3>3 DEF Aimed, Meant, NeedsKey, HasTrust, Writing, Upgrader
  <2> QED
    BY <1>3, <2>3, <2>4
\* The rest keeps what it knows.
<1>4. ASSUME s.tool = "recover", NeedsKey(s) \/ Writing(s), run'[r].tool = "recover",
             run'[r].key = s.key, run'[r].was.trust = s.was.trust,
             run'[r].pc \in {"create", "fill", "backup", "put", "verify"},
             Writing(run'[r]) => Writing(s),
             NeedsKey(run'[r]) => NeedsKey(s) \/ (file'["gkey"] = "whole" /\ holds'["gkey"] = s.key)
      PROVE  Aimed(r)
  BY <1>0, <1>4 DEF Aimed, Aims, Meant, HasTrust, Upgrader, NeedsKey, Writing
<1> HIDE DEF s
<1>5. CASE WriteRecoveryFile(r)
  <2> DEFINE f == FileOf(s)
             next == IF f = "marker" THEN "backup" ELSE "create"
  <2>1. /\ Writing(s) /\ s.tool = "recover" /\ RecoveryFiles[s.at] = f /\ s.at \in {1, 2}
        /\ f = IF s.at = 1 THEN "gkey" ELSE "marker"
    BY <1>0, <1>5, FilesInOrder DEF WriteRecoveryFile, Writing, s
  <2>2. CASE Create(r, f)
    <3>1. /\ run'[r].tool = "recover" /\ run'[r].pc = "fill" /\ run'[r].was = s.was
          /\ run'[r].key = s.key /\ run'[r].at = s.at
      BY <1>0, <2>1, <2>2 DEF Create, State, s
    <3> QED
      BY <1>4, <2>1, <3>1 DEF Writing, NeedsKey
  <2>3. CASE FillFails(r, f)
    BY <2>3, AimsOver DEF FillFails, End, Leave
  <2>4. CASE Fill(r, f, r, next)
    <3>1. SetFile(f, "whole", r) /\ run' = [run EXCEPT ![r].pc = next, ![r].at = @ + 1]
          /\ s.pc = "fill"
      BY <2>4 DEF Fill, NextFile, s
    <3> HIDE DEF next
    <3>2. /\ run'[r].tool = "recover" /\ run'[r].pc = next /\ run'[r].was = s.was
          /\ run'[r].key = s.key /\ run'[r].at = s.at + 1
      BY <1>0, <2>1, <3>1 DEF State, s
    <3>3. next = (IF s.at = 2 THEN "backup" ELSE "create")
      BY <2>1 DEF next
    <3>4. s.at = 1 => file'["gkey"] = "whole" /\ holds'["gkey"] = r
      BY <1>0, <2>1, <3>1 DEF SetFile
    <3>5. s.key = r
      BY <1>0, <2>1 DEF Aims, Meant
    <3>6. s.at = 2 => NeedsKey(s)
      BY <2>1 DEF NeedsKey
    <3>7. s.at = 1 \/ s.at = 2
      BY <2>1
    <3>8. Writing(run'[r]) => Writing(s)
      BY <2>1
    <3> QED
      BY <1>4, <2>1, <3>2, <3>3, <3>4, <3>5, <3>6, <3>7, <3>8
  <2> QED
    BY <1>5, <2>1, <2>2, <2>3, <2>4 DEF WriteRecoveryFile, s
<1>6. CASE BackupTrust(r)
  <2>1. /\ s.tool = "recover" /\ s.pc = "backup"
        /\ run' = [run EXCEPT ![r].pc = "put"] \/ End(r)
    BY <1>6 DEF BackupTrust, Keep, s
  <2>2. CASE run' = [run EXCEPT ![r].pc = "put"]
    <3>1. /\ run'[r].tool = "recover" /\ run'[r].pc = "put" /\ run'[r].was = s.was
          /\ run'[r].key = s.key
      BY <1>0, <2>1, <2>2 DEF State, s
    <3> QED
      BY <1>4, <2>1, <3>1 DEF Writing, NeedsKey
  <2> QED
    BY <2>1, <2>2, AimsOver
<1>7. CASE Enroll(r)
  <2>1. /\ s.tool = "recover" /\ s.pc = "put"
        /\ run' = [run EXCEPT ![r].pc = "verify"] \/ Leave(r, "failed")
    BY <1>7 DEF Enroll, Goto, s
  <2>2. CASE run' = [run EXCEPT ![r].pc = "verify"]
    <3>1. /\ run'[r].tool = "recover" /\ run'[r].pc = "verify" /\ run'[r].was = s.was
          /\ run'[r].key = s.key
      BY <1>0, <2>1, <2>2 DEF State, s
    <3> QED
      BY <1>4, <2>1, <3>1 DEF Writing, NeedsKey
  <2> QED
    BY <2>1, <2>2, AimsOver
<1> QED
  BY <1>1, <1>2, <1>3, <1>5, <1>6, <1>7 DEF Recover

\* The key an upgrade raises is one it read as enrolled.
LEMMA UpgradeAims ==
    ASSUME TypeOK, Phases, FileInv, KeyInv, NEW r \in Run, UpgradeStep(r)
    PROVE  Aimed(r)
<1> DEFINE s == run[r]
<1>0. /\ run \in [Run -> State] /\ s \in State /\ Phased(s) /\ Aims(r, s)
      /\ trust \in [Key -> Level] /\ config \in Config
  BY RunTypes DEF Phases, TypeOK, KeyInv
\* Most steps keep what was read and whose entry it is about.
<1>1. ASSUME s.tool \in Upgrader, run'[r].tool = s.tool, run'[r].key = s.key,
             run'[r].was.trust = s.was.trust, run'[r].pc # "trust",
             s.pc \notin {"service", "config"} \/ run'[r].pc \in {"service", "config"},
             HasTrust(run'[r]) => HasTrust(s)
      PROVE  Aimed(r)
  BY <1>0, <1>1 DEF Aimed, Aims, Meant, NeedsKey, Upgrader
<1> HIDE DEF s
<1>2. CASE StartUpgrade(r)
  <2>1. run'[r].tool \in Upgrader /\ run'[r].was.trust = NoTrust /\ run'[r].pc = "service"
    BY <1>0, <1>2 DEF StartUpgrade, Idle, Nothing, Upgrader
  <2> QED
    BY <2>1 DEF Aimed, Meant, NeedsKey, HasTrust, Writing, Upgrader, NoTrust
<1>3. ASSUME s.pc \in Reading \cup {"recheck"} PROVE s.tool \in Upgrader
  BY <1>0, <1>3 DEF Phased
<1>4. CASE ReadService(r) \/ Recheck(r)
  <2>1. /\ run'[r].tool = s.tool /\ run'[r].key = s.key /\ run'[r].was = s.was
        /\ \/ s.pc = "service" /\ run'[r].pc = "config"
           \/ s.pc = "recheck" /\ run'[r].pc = "backup"
    BY <1>0, <1>4 DEF ReadService, Recheck, Goto, State, s
  <2> QED
    BY <1>1, <1>3, <2>1 DEF HasTrust, Reading
<1>5. CASE ReadConfig(r)
  <2>1. /\ s.pc = "config" /\ run'[r].tool = s.tool /\ run'[r].key = holds[config.key]
        /\ run'[r].was = s.was /\ run'[r].pc = "ident"
    BY <1>0, <1>5 DEF ReadConfig, State, s
  <2>2. holds[config.key] \in Key
    BY <1>0, <1>5 DEF ReadConfig, FileInv, Keys, Config
  <2>3. s.tool \in Upgrader
    BY <1>3, <2>1 DEF Reading
  <2> QED
    BY <1>0, <2>1, <2>2, <2>3 DEF Aimed, Aims, Meant, NeedsKey, HasTrust, Writing, Upgrader
<1>6. CASE ReadIdentity(r)
  <2>1. /\ s.pc = "ident" /\ run'[r].tool = s.tool /\ run'[r].key = s.key
        /\ run'[r].was = s.was /\ run'[r].pc = "trust" /\ run'[r].level = trust[s.key]
        /\ trust[s.key] \in Sources(s.tool)
    BY <1>0, <1>6 DEF ReadIdentity, State, s
  <2>2. s.tool \in Upgrader
    BY <1>3, <2>1 DEF Reading
  <2> QED
    BY <1>0, <2>1, <2>2 DEF Aimed, Aims, Meant, NeedsKey, HasTrust, Writing, Upgrader
<1>7. CASE ReadTrust(r)
  <2>1. /\ s.pc = "trust" /\ run'[r].tool = s.tool /\ run'[r].key = s.key
        /\ run'[r].was.trust = trust /\ run'[r].pc = "config2"
        /\ trust[s.key] = s.level /\ Whole("trust")
    BY <1>0, <1>7 DEF ReadTrust, State, s
  <2>2. s.tool \in Upgrader
    BY <1>3, <2>1 DEF Reading
  <2>3. \A k \in Key : trust[k] > 0 => Exists(k)
    BY <2>1 DEF KeyInv, EnrolledKeysExist, Exists
  <2>4. s.key \in Key /\ s.level \in Sources(s.tool)
    BY <1>0, <2>1, <2>2 DEF Aims, Meant
  <2> QED
    BY <2>1, <2>2, <2>3, <2>4 DEF Aimed, Meant, NeedsKey, HasTrust, Upgrader
<1>8. CASE ReadConfigAgain(r) \/ ReadServiceAgain(r)
  <2>1. /\ run'[r].tool = s.tool /\ run'[r].key = s.key /\ run'[r].was.trust = s.was.trust
        /\ s.pc \in {"config2", "service2"} /\ run'[r].pc \in {"service2", "lock"}
    BY <1>0, <1>8 DEF ReadConfigAgain, ReadServiceAgain, State, s
  <2>2. s.tool \in Upgrader
    BY <1>3, <2>1 DEF Reading
  <2> QED
    BY <1>1, <2>1, <2>2 DEF HasTrust
<1>9. CASE UpgradeFails(r)
  BY <1>9, AimsOver DEF UpgradeFails
<1>10. ASSUME s.tool \in Upgrader, s.pc \in {"backup", "put", "verify", "undo"},
              run'[r].tool = s.tool, run'[r].key = s.key, run'[r].was = s.was, run'[r].pc # "trust"
       PROVE  Aimed(r)
  BY <1>1, <1>10 DEF HasTrust
<1>11. CASE BackupNext(r)
  <2>1. s.tool \in Upgrader /\ s.pc = "backup" /\ s.at \in 1..Len(Targets(s.tool))
    BY <1>0, <1>11 DEF BackupNext, Phased, Upgrader, s
  <2>2. Targets(s.tool)[s.at] \in {"trust", "config", "service"}
    BY <2>1, TargetOrder
  <2>3. \/ run' = [run EXCEPT ![r].pc = "put", ![r].at = 1]
        \/ run' = [run EXCEPT ![r].at = @ + 1]
        \/ End(r)
    BY <1>11, <2>2 DEF BackupNext, Keep, s
  <2>4. CASE \/ run' = [run EXCEPT ![r].pc = "put", ![r].at = 1]
             \/ run' = [run EXCEPT ![r].at = @ + 1]
    <3>1. /\ run'[r].tool = s.tool /\ run'[r].pc \in {"put", "backup"} /\ run'[r].key = s.key
          /\ run'[r].was = s.was
      BY <1>0, <2>1, <2>4 DEF State, s
    <3> QED
      BY <1>10, <2>1, <3>1
  <2> QED
    BY <2>3, <2>4, AimsOver
<1>12. ASSUME s.tool \in Upgrader, s.pc \in {"put", "verify"}, NEW c,
              Advance(r, c) \/ RollBack(r, c)
       PROVE  Aimed(r)
  <2>1. /\ run'[r].tool = s.tool /\ run'[r].pc \in {"put", "verify", "undo"}
        /\ run'[r].key = s.key /\ run'[r].was = s.was
    BY <1>0, <1>12 DEF Advance, RollBack, State, s
  <2> QED
    BY <1>10, <1>12, <2>1
<1>13. CASE Put(r)
  <2>1. s.tool \in Upgrader /\ s.pc = "put" /\ \E c : Advance(r, c) \/ RollBack(r, c)
    BY <1>13 DEF Put, Upgrader, s
  <2> QED
    BY <1>12, <2>1
<1>14. CASE VerifyUpgrade(r)
  <2>1. s.tool \in Upgrader /\ s.pc = "verify" /\ (Leave(r, "done") \/ RollBack(r, {}))
    BY <1>14 DEF VerifyUpgrade, Upgrader, s
  <2> QED
    BY <1>12, <2>1, AimsOver
<1>15. CASE Undo(r)
  <2>1. s.tool \in Upgrader /\ s.pc = "undo"
    BY <1>0, <1>15 DEF Undo, Phased, s
  <2>2. \/ Leave(r, "failed") \/ Leave(r, "manual") \/ run' = [run EXCEPT ![r].at = @ + 1]
    BY <1>15 DEF Undo, Leave
  <2>3. CASE run' = [run EXCEPT ![r].at = @ + 1]
    <3>1. /\ run'[r].tool = s.tool /\ run'[r].pc = "undo" /\ run'[r].key = s.key
          /\ run'[r].was = s.was
      BY <1>0, <2>1, <2>3 DEF State, s
    <3> QED
      BY <1>10, <2>1, <3>1
  <2> QED
    BY <2>2, <2>3, AimsOver
<1> QED
  BY <1>2, <1>4, <1>5, <1>6, <1>7, <1>8, <1>9, <1>11, <1>13, <1>14, <1>15 DEF UpgradeStep

\* Every step keeps what is claimed of the keys.
LEMMA KeyKeeps ==
    ASSUME TypeOK, TypeOK', Phases, FileInv, KeyInv, [Next]_vars
    PROVE  KeyInv'
<1>0. \A r \in Run : Aims(r, run[r])
  BY DEF KeyInv
<1>1. ASSUME NEW r \in Run, _acquire_recovery_lock(r)
      PROVE  Aimed(r) /\ Others(r)
  <2>1. /\ run \in [Run -> State] /\ run[r] \in State /\ Phased(run[r]) /\ Aims(r, run[r])
    BY <1>0 DEF TypeOK, Phases
  <2>2. /\ run[r].pc = "lock" /\ run'[r].tool = run[r].tool /\ run'[r].key = run[r].key
        /\ run'[r].was = run[r].was /\ run[r].tool \in Upgrader \cup {"recover"}
        /\ run'[r].pc = IF run[r].tool = "recover" THEN "look" ELSE "recheck"
    BY <1>1, <2>1 DEF _acquire_recovery_lock, Goto, State, Phased
  <2>3. Others(r)
    BY <1>1, <2>1 DEF _acquire_recovery_lock, Goto, Others
  <2>4. CASE run[r].tool = "recover"
    BY <2>1, <2>2, <2>3, <2>4 DEF Aimed, Aims, Meant, NeedsKey, HasTrust, Writing, Upgrader
  <2>5. CASE run[r].tool \in Upgrader
    BY <2>1, <2>2, <2>3, <2>5 DEF Aimed, Aims, Meant, NeedsKey, HasTrust, Writing, Upgrader
  <2> QED
    BY <2>2, <2>3, <2>4, <2>5
<1>2. ASSUME NEW r \in Run, _release_recovery_lock(r) \/ Crash(r)
      PROVE  Aimed(r) /\ Others(r)
  BY <1>2, AimsOver, Ends DEF _release_recovery_lock, Crash
<1>3. ASSUME NEW r \in Run, Provision(r) \/ Recover(r) \/ Attach(r) \/ UpgradeStep(r)
      PROVE  Aimed(r) /\ Others(r)
  BY <1>3, ProvisionAims, RecoverAims, AttachAims, UpgradeAims,
     ProvisionWrites, RecoverWrites, AttachWrites, UpgradeWrites DEF FileInv, Step
<1>5. (UNCHANGED run) \/ \E r \in Run : Aimed(r) /\ Others(r)
  BY <1>1, <1>2, <1>3 DEF Next, Reconcile, vars
<1>6. \A k \in Key : Exists(k) => Exists(k)'
  BY ExistsStays
<1>7. Whole("gkey") => file'["gkey"] = "whole" /\ holds'["gkey"] = holds["gkey"]
  <2>1. "gkey" \in File \ {"dirs", "ckey", "cpub"}
    BY DEF File, Root
  <2> QED
    BY <2>1, FileSteps, WholeStays DEF FileInv, Whole
<1>8. ASSUME NEW q \in Run
      PROVE  /\ \A k \in Key : run'[q].was.trust[k] > 0 => Exists(k)
             /\ Meant(q, run'[q])
             /\ NeedsKey(run'[q]) => \/ Whole("gkey") /\ holds["gkey"] = run'[q].key
                                     \/ file'["gkey"] = "whole" /\ holds'["gkey"] = run'[q].key
  BY <1>0, <1>5 DEF Aims, Aimed, Others
<1>9. ASSUME NEW q \in Run PROVE Aims(q, run[q])'
  <2>1. \A k \in Key : run'[q].was.trust[k] > 0 => Exists(k)'
    BY <1>6, <1>8
  <2>2. Meant(q, run'[q])
    BY <1>8
  <2>3. NeedsKey(run'[q]) => file'["gkey"] = "whole" /\ holds'["gkey"] = run'[q].key
    BY <1>7, <1>8
  <2> QED
    BY <2>1, <2>2, <2>3 DEF Aims, Meant, NeedsKey, HasTrust, Writing, Whole
<1> QED
  BY <1>9, EnrolledKeep DEF KeyInv

\* The installations a history begins with have the keys of whom they enroll.
LEMMA KeysAtFirst == Init => KeyInv
<1> SUFFICES ASSUME Init PROVE KeyInv
  OBVIOUS
<1>1. \A r \in Run : run[r] = Idle
  BY DEF Init
<1>2. \A r \in Run : Aims(r, run[r])
  <2>1. Idle.tool = "provision" /\ Idle.was.trust = NoTrust
    BY IdleIsPhased
  <2> QED
    BY <1>1, <2>1 DEF Aims, Meant, NeedsKey, HasTrust, Upgrader, NoTrust
<1>3. CASE Blank
  BY <1>2, <1>3 DEF Blank, KeyInv, EnrolledKeysExist, Whole, File, Identity
<1>4. ASSUME NEW p \in Past, BootstrappedBy(p) PROVE EnrolledKeysExist
  <2>1. \A k \in Key : trust[k] > 0 => k = p
    BY <1>4 DEF BootstrappedBy, NoTrust
  <2>2. Whole("ckey") /\ holds["ckey"] = p
    BY <1>4 DEF BootstrappedBy, Whole, File, Identity
  <2> QED
    BY <2>1, <2>2 DEF EnrolledKeysExist
<1>5. ASSUME NEW p \in Past, NEW q \in Past, AttachedBy(p, q) PROVE EnrolledKeysExist
  <2>1. \A k \in Key : trust[k] > 0 => k = p \/ k = q
    BY <1>5 DEF AttachedBy, NoTrust
  <2>2. Whole("xckey") /\ holds["xckey"] = p
    BY <1>5 DEF AttachedBy, Whole, File, Export
  <2>3. Whole("gkey") /\ holds["gkey"] = q
    BY <1>5 DEF AttachedBy, Whole, File, Root, Identity, Export
  <2> QED
    BY <2>1, <2>2, <2>3 DEF EnrolledKeysExist
<1> QED
  BY <1>2, <1>3, <1>4, <1>5 DEF Init, KeyInv

\* The inductive invariant of the keys: with that of the files, whoever is in
\* the trust list, or is about to be put there, has a private key in a file.
THEOREM InstallationKeys == Spec => [](TypeOK /\ Phases /\ FileInv /\ KeyInv)
<1>1. Init => TypeOK /\ Phases /\ FileInv /\ KeyInv
  BY PhasesAtFirst, FilesAtFirst, KeysAtFirst
<1>2. TypeOK /\ Phases /\ FileInv /\ KeyInv /\ [Next]_vars => (TypeOK /\ Phases /\ FileInv /\ KeyInv)'
  BY PhaseSteps, FileKeeps, KeyKeeps
<1> QED
  BY <1>1, <1>2, PTL DEF Spec

\* Whoever is enrolled in controller-trust.json has its private key in a file,
\* through every race, crash, recovery, upgrade and rollback.
THEOREM EnrolledHaveKeys == Spec => []EnrolledKeysExist
<1>1. KeyInv => EnrolledKeysExist
  BY DEF KeyInv
<1> QED
  BY <1>1, InstallationKeys, PTL

----------------------------------------------------------------------------
(* Who replaces what                                                       *)

\* The two places from which a whole file is replaced.
Replacing(s) == s.tool \in Upgrader \cup {"recover"} /\ s.pc \in {"put", "undo"}

BackupsGrow ==
    /\ backups' = [kind \in Target |-> backups'[kind]]
    /\ \A kind \in Target : backups[kind] \subseteq backups'[kind]

Replaces(r) ==
    /\ Whole("trust") /\ trust' # trust => Replacing(run[r])
    /\ Whole("config") /\ config' # config => Replacing(run[r])
    /\ Whole("service") /\ exec' # exec => Replacing(run[r])
    /\ BackupsGrow

\* _write_or_verify of a backup: the others stay, and the run goes on only with
\* a complete one.
LEMMA Backed ==
    ASSUME backups = [kind \in Target |-> backups[kind]], NEW r \in Run, NEW kind \in Target,
           NEW content, NEW next, Keep(r, kind, content, next)
    PROVE  /\ BackupsGrow
           /\ UNCHANGED <<file, holds, trust, config, exec, lock>>
           /\ \/ End(r)
              \/ /\ run' = next
                 /\ [tool |-> run[r].tool, was |-> content, whole |-> TRUE] \in backups'[kind]
<1>1. PICK whole \in BOOLEAN :
          /\ backups' = [backups EXCEPT ![kind] =
                            @ \cup {[tool |-> run[r].tool, was |-> content, whole |-> whole]}]
          /\ \/ whole = TRUE /\ run' = next
             \/ whole = FALSE /\ End(r)
  BY DEF Keep
<1>2. /\ backups'[kind] = backups[kind] \cup {[tool |-> run[r].tool, was |-> content, whole |-> whole]}
      /\ \A k \in Target \ {kind} : backups'[k] = backups[k]
      /\ backups' = [k \in Target |-> backups'[k]]
  BY <1>1
<1>3. BackupsGrow
  BY <1>2 DEF BackupsGrow
<1>4. UNCHANGED <<file, holds, trust, config, exec, lock>>
  BY DEF Keep
<1>5. CASE whole = TRUE
  BY <1>1, <1>2, <1>3, <1>4, <1>5
<1>6. CASE whole = FALSE
  BY <1>1, <1>3, <1>4, <1>6
<1> QED
  BY <1>5, <1>6

\* Whatever a run does, a whole trust list, configuration or service is
\* replaced only by recovery or an upgrade, under the lock, and no backup is
\* removed.
LEMMA Replaced ==
    ASSUME TypeOK, Phases, FileInv, backups = [kind \in Target |-> backups[kind]],
           NEW r \in Run, Act(r)
    PROVE  Replaces(r)
<1>0. /\ Phased(run[r]) /\ Filling
      /\ UNCHANGED backups => BackupsGrow
  BY DEF Phases, FileInv, BackupsGrow
<1>1. ASSUME UNCHANGED <<trust, config, exec>>, BackupsGrow PROVE Replaces(r)
  BY <1>1 DEF Replaces
<1>2. CASE Provision(r)
  <2>1. CASE FillNext(r)
    <3>1. Writing(run[r]) /\ Current(r) = FileOf(run[r])
      BY <1>0, <2>1, FilesInOrder DEF Current, Writing, FillNext
    <3>2. file[Current(r)] = "torn"
      BY <1>0, <2>1, <3>1 DEF Filling, FillNext
    <3>3. UNCHANGED backups
      BY <2>1 DEF FillNext, Fill
    <3> QED
      BY <1>0, <2>1, <3>2, <3>3 DEF FillNext, Write, Replaces, Whole
  <2>2. CASE ~FillNext(r)
    <3>1. UNCHANGED <<trust, config, exec, backups>>
      BY <1>2, <2>2 DEF Provision, StartProvision, StartBootstrap, StartPrepare, Begin, CreateNext,
         Create, FillNextFails, FillFails, Unlink
    <3> QED
      BY <1>0, <1>1, <3>1
  <2> QED
    BY <2>1, <2>2
<1>3. CASE Recover(r)
  <2>1. CASE BackupTrust(r)
    <3>1. "trust" \in Target
      BY DEF Target
    <3> QED
      BY <1>1, <2>1, <3>1, Backed DEF BackupTrust
  <2>2. CASE Enroll(r)
    <3>1. Replacing(run[r]) /\ UNCHANGED <<config, exec, backups>>
      BY <2>2 DEF Enroll, Install, Replacing
    <3> QED
      BY <1>0, <3>1 DEF Replaces
  <2>3. CASE ~BackupTrust(r) /\ ~Enroll(r)
    <3>1. UNCHANGED <<trust, config, exec, backups>>
      BY <1>3, <2>3 DEF Recover, StartRecover, ReuseEnrolled, ResumeGenerated, GenerateKey,
         WriteRecoveryFile, Create, Fill, FillFails, VerifyEnrolled, RecoverFails, disk
    <3> QED
      BY <1>0, <1>1, <3>1
  <2> QED
    BY <2>1, <2>2, <2>3
<1>4. CASE Attach(r)
  <2>1. CASE WriteAttachFile(r)
    <3>1. Writing(run[r]) /\ AttachFiles[run[r].at] = FileOf(run[r]) /\ run[r].tool = "attach"
      BY <1>0, <2>1, FilesInOrder DEF WriteAttachFile, Writing
    <3>2. UNCHANGED <<trust, exec, backups>>
      BY <2>1 DEF WriteAttachFile, Create, Fill, FillFails, Reuse, disk
    <3>3. ASSUME config' # config PROVE ~Whole("config")
      <4>1. AttachFiles[run[r].at] = "config" /\ run[r].pc = "fill"
        BY <2>1, <3>3 DEF WriteAttachFile, Create, Fill, FillFails, Reuse, disk
      <4> QED
        BY <1>0, <3>1, <4>1 DEF Filling, Whole
    <3> QED
      BY <1>0, <3>2, <3>3 DEF Replaces
  <2>2. CASE ~WriteAttachFile(r)
    <3>1. UNCHANGED <<trust, config, exec, backups>>
      BY <1>4, <2>2 DEF Attach, StartAttach, AttachLooks, disk
    <3> QED
      BY <1>0, <1>1, <3>1
  <2> QED
    BY <2>1, <2>2
<1>5. CASE UpgradeStep(r)
  <2>1. CASE BackupNext(r)
    <3>1. run[r].tool \in Upgrader /\ run[r].pc = "backup"
      BY <2>1 DEF BackupNext, Upgrader
    <3>2. run[r].at \in 1..Len(Targets(run[r].tool))
      BY <1>0, <3>1 DEF Phased
    <3>3. Targets(run[r].tool)[run[r].at] \in {"trust", "config", "service"}
      BY <3>1, <3>2, TargetOrder
    <3>4. \E kind \in Target, content \in {run[r].was.trust, run[r].was.config, run[r].was.exec} :
             \E next : Keep(r, kind, content, next)
      BY <2>1, <3>3 DEF BackupNext, Target
    <3> QED
      BY <1>1, <3>4, Backed
  <2>2. CASE Put(r)
    <3>1. Replacing(run[r]) /\ UNCHANGED backups
      BY <2>2 DEF Put, Install, Replacing, Upgrader, disk
    <3> QED
      BY <1>0, <3>1 DEF Replaces
  <2>3. CASE Undo(r)
    <3>1. Replacing(run[r]) /\ UNCHANGED backups
      BY <1>0, <2>3 DEF Undo, Install, Replacing, Phased, disk
    <3> QED
      BY <1>0, <3>1 DEF Replaces
  <2>4. CASE ~BackupNext(r) /\ ~Put(r) /\ ~Undo(r)
    <3>1. UNCHANGED <<trust, config, exec, backups>>
      BY <1>5, <2>4 DEF UpgradeStep, StartUpgrade, ReadService, ReadConfig, ReadIdentity, ReadTrust,
         ReadConfigAgain, ReadServiceAgain, Recheck, UpgradeFails, VerifyUpgrade, disk
    <3> QED
      BY <1>0, <1>1, <3>1
  <2> QED
    BY <2>1, <2>2, <2>3, <2>4
<1>6. CASE _acquire_recovery_lock(r) \/ _release_recovery_lock(r) \/ Crash(r)
  <2>1. UNCHANGED <<trust, config, exec, backups>>
    BY <1>6 DEF _acquire_recovery_lock, _release_recovery_lock, Crash, disk
  <2> QED
    BY <1>0, <1>1, <2>1
<1> QED
  BY <1>2, <1>3, <1>4, <1>5, <1>6 DEF Act

\* The targets of an upgrade, as it backs them up, replaces them and rolls them
\* back; each of the three facts is about one of them.
LEMMA TargetBacked ==
    ASSUME NEW s, NEW t, NEW kind, NEW i \in 1..3, NEW now, NEW was, NEW kept, NEW kept2,
           s.pc = "backup", s.at \in Nat, s.changed = {},
           TargetHeld(s, kind, i, now, was, kept), t.tool = s.tool, t.changed = s.changed,
           kept \subseteq kept2, i = s.at => Saved(s, was, kept2),
           \/ t.pc = "backup" /\ t.at = s.at + 1
           \/ t.pc = "put" /\ i <= s.at
    PROVE  TargetHeld(t, kind, i, now, was, kept2)
<1>1. now = was /\ (i <= s.at => Saved(t, was, kept2))
  BY DEF TargetHeld, Saved
<1>2. CASE t.pc = "backup" /\ t.at = s.at + 1
  BY <1>1, <1>2 DEF TargetHeld
<1>3. CASE t.pc = "put" /\ i <= s.at
  BY <1>1, <1>3 DEF TargetHeld
<1> QED
  BY <1>2, <1>3

PutStep(s, t, kind, i, now, now2) ==
    /\ s.pc \in {"put", "verify"} /\ s.slip = {} /\ s.at \in Nat /\ i \in 1..3
    /\ t.tool = s.tool /\ t.pc \in {"put", "verify", "undo"} /\ s.changed \subseteq t.changed
    /\ now2 # now => kind \in t.changed \cup t.slip
    /\ t.pc = "put" => /\ s.pc = "put" /\ t.at = s.at + 1
                       /\ kind \in t.changed => kind \in s.changed \/ i = s.at
    /\ t.pc = "undo" => t.at = 1

\* A replacement, or an error, leaves a target as it was unless it is noted as
\* changed, or took effect before its error.
LEMMA TargetPut ==
    ASSUME NEW s, NEW t, NEW kind, NEW i, NEW now, NEW was, NEW kept, NEW now2,
           TargetHeld(s, kind, i, now, was, kept), PutStep(s, t, kind, i, now, now2)
    PROVE  TargetHeld(t, kind, i, now2, was, kept)
<1> USE DEF PutStep
<1>1. Saved(t, was, kept) /\ (kind \notin t.changed \cup t.slip => now2 = was)
  BY DEF TargetHeld, Saved
<1>2. t.pc = "put" /\ i >= t.at => kind \notin t.changed
  <2> SUFFICES ASSUME t.pc = "put", i >= t.at PROVE kind \notin t.changed
    OBVIOUS
  <2>1. i >= s.at /\ i # s.at
    OBVIOUS
  <2> QED
    BY <2>1 DEF TargetHeld
<1> QED
  BY <1>1, <1>2 DEF TargetHeld

\* Of a target that a rollback put back what was read stands again.
LEMMA TargetUndone ==
    ASSUME NEW s, NEW kind, NEW i \in 1..3, NEW now, NEW was, NEW kept, NEW now2,
           s.pc = "undo", s.at \in Nat, TargetHeld(s, kind, i, now, was, kept),
           now2 = IF i = s.at /\ kind \in s.changed THEN was ELSE now
    PROVE  /\ kind \notin s.slip /\ i <= s.at => now2 = was
           /\ \A t : /\ t.tool = s.tool /\ t.pc = s.pc /\ t.at = s.at + 1
                     /\ t.changed = s.changed /\ t.slip = s.slip
                     => TargetHeld(t, kind, i, now2, was, kept)
<1>1. Saved(s, was, kept) /\ (kind \notin s.changed \cup s.slip => now2 = was)
  BY DEF TargetHeld
<1>2. kind \notin s.slip /\ i <= s.at => now2 = was
  BY DEF TargetHeld
<1> SUFFICES ASSUME NEW t, t.tool = s.tool, t.pc = s.pc, t.at = s.at + 1,
                    t.changed = s.changed, t.slip = s.slip
             PROVE  TargetHeld(t, kind, i, now2, was, kept)
  BY <1>2
<1>3. i < t.at => i <= s.at
  OBVIOUS
<1> QED
  BY <1>1, <1>2, <1>3 DEF TargetHeld, Saved

\* An upgrade that has not come to its backups has noted nothing.
LEMMA HeldBefore ==
    ASSUME NEW s, NEW list, NEW conf, NEW runs, NEW kept, s.tool \in Upgrader,
           s.pc \in Reading \cup {"lock", "recheck"}, s.changed = {}, s.slip = {}
    PROVE  HeldBy(s, list, conf, runs, kept)
BY DEF HeldBy, UpgradeHeld, TargetHeld, Noted, Reading, Upgrader

\* A run that is over holds nothing.
LEMMA HeldOver ==
    ASSUME TypeOK, NEW r \in Run, NEW list, NEW conf, NEW runs, NEW kept,
           End(r) \/ \E end \in {"done", "failed", "manual"} : Leave(r, end)
    PROVE  HeldBy(run'[r], list, conf, runs, kept)
<1>1. run'[r].tool = "provision"
  BY Ends
<1> QED
  BY <1>1 DEF HeldBy, Upgrader

\* Nobody replaces what the owner of the lock has read, or removes its backups.
LEMMA HeldByOthers ==
    ASSUME TypeOK, Phases, FileInv, HeldInv, NEW r \in Run, Act(r), NEW q \in Run \ {r}
    PROVE  HeldBy(run[q], trust', config', exec', backups')
<1>0. /\ Replaces(r) /\ HeldBy(run[q], trust, config, exec, backups)
      /\ \A kind \in Target : backups[kind] \subseteq backups'[kind]
  BY Replaced DEF HeldInv, Replaces, BackupsGrow
<1>1. {"trust", "config", "service"} \subseteq Target
  BY DEF Target
<1>2. ASSUME lock = q PROVE ~Replacing(run[r])
  BY <1>2 DEF Phases, Replacing, Locks
<1>3. CASE run[q].tool \in Upgrader /\ run[q].pc \in {"backup", "put", "verify", "undo"}
  <2>1. lock = q /\ Whole("config") /\ Whole("service") /\ Whole("trust")
    BY <1>3 DEF Phases, Locks, FileInv, Built, BuiltRun
  <2>2. trust' = trust /\ config' = config /\ exec' = exec
    BY <1>0, <1>2, <2>1 DEF Replaces
  <2>3. UpgradeHeld(run[q], trust, config, exec, backups)
    BY <1>0, <1>3 DEF HeldBy
  <2>4. UpgradeHeld(run[q], trust, config, exec, backups')
    BY <1>0, <1>1, <2>3 DEF UpgradeHeld, TargetHeld, Saved
  <2> QED
    BY <1>3, <2>2, <2>4 DEF HeldBy, Upgrader
<1>4. CASE run[q].tool \in Upgrader /\ run[q].pc \notin {"backup", "put", "verify", "undo"}
  BY <1>0, <1>4 DEF HeldBy, UpgradeHeld, TargetHeld, Noted, Upgrader
<1>5. CASE run[q].tool = "recover" /\ run[q].pc = "put"
  <2>1. lock = q /\ Whole("trust")
    BY <1>5 DEF Phases, Locks, FileInv, Built, BuiltRun
  <2>2. trust' = trust
    BY <1>0, <1>2, <2>1 DEF Replaces
  <2> QED
    BY <1>0, <1>1, <1>5, <2>2 DEF HeldBy, RecoverHeld, Saved, Upgrader
<1>6. CASE run[q].tool = "recover" /\ run[q].pc # "put"
  BY <1>6 DEF HeldBy, RecoverHeld, Upgrader
<1>7. CASE run[q].tool \notin Upgrader \cup {"recover"}
  BY <1>7 DEF HeldBy
<1> QED
  BY <1>3, <1>4, <1>5, <1>6, <1>7

\* The place of a target among those of an upgrade.
LEMMA TargetAt ==
    ASSUME TypeOK, Phases, NEW r \in Run, run[r].tool \in Upgrader,
           run[r].pc \in {"backup", "put", "undo"}
    PROVE  LET s == run[r]
               f == Targets(s.tool)[s.at]
               last == Len(Targets(s.tool))
           IN /\ s.at \in 1..3 /\ s.at <= last /\ last \in {2, 3}
              /\ last = 3 <=> s.tool = "fullcontrol"
              /\ f = "trust" <=> s.at = 1
              /\ f = "config" <=> s.at = 2
              /\ f = "service" <=> s.at = 3
              /\ f \in Target
              /\ s.at = 3 => s.tool = "fullcontrol"
<1>1. run[r].at \in 1..Len(Targets(run[r].tool))
  BY DEF Phases, Phased
<1>2. /\ Len(Targets(run[r].tool)) \in {2, 3}
      /\ Len(Targets(run[r].tool)) = 3 <=> run[r].tool = "fullcontrol"
      /\ Targets(run[r].tool)[run[r].at] =
            (CASE run[r].at = 1 -> "trust" [] run[r].at = 2 -> "config" [] run[r].at = 3 -> "service")
      /\ run[r].at = 1 \/ run[r].at = 2 \/ (run[r].at = 3 /\ run[r].tool = "fullcontrol")
  BY <1>1, TargetOrder
<1>3. CASE run[r].at = 1
  BY <1>1, <1>2, <1>3 DEF Target
<1>4. CASE run[r].at = 2
  BY <1>1, <1>2, <1>4 DEF Target
<1>5. CASE run[r].at = 3
  BY <1>1, <1>2, <1>5 DEF Target
<1> QED
  BY <1>2, <1>3, <1>4, <1>5

\* A backup of one target, and the upgrade as a whole.
LEMMA UpgradeBacked ==
    ASSUME NEW s, NEW t, NEW list, NEW conf, NEW runs, NEW kept, NEW kept2,
           UpgradeHeld(s, list, conf, runs, kept), s.pc = "backup", s.at \in 1..3,
           t.tool = s.tool, t.changed = s.changed, t.slip = s.slip, t.was = s.was,
           \A kind \in Target : kept[kind] \subseteq kept2[kind],
           s.at = 1 => Saved(s, s.was.trust, kept2["trust"]),
           s.at = 2 => Saved(s, s.was.config, kept2["config"]),
           s.at = 3 => Saved(s, s.was.exec, kept2["service"]),
           \/ t.pc = "backup" /\ t.at = s.at + 1
           \/ /\ t.pc = "put" /\ t.at = 1
              /\ s.at >= 2 /\ (s.tool = "fullcontrol" => s.at = 3)
    PROVE  UpgradeHeld(t, list, conf, runs, kept2)
<1>1. s.changed = {} /\ s.slip = {}
  BY DEF UpgradeHeld, Noted
<1>2. /\ kept["trust"] \subseteq kept2["trust"] /\ kept["config"] \subseteq kept2["config"]
      /\ kept["service"] \subseteq kept2["service"]
  BY DEF Target
<1>3. TargetHeld(t, "trust", 1, list, t.was.trust, kept2["trust"])
  <2>1. TargetHeld(s, "trust", 1, list, s.was.trust, kept["trust"])
    BY DEF UpgradeHeld
  <2>2. s.at \in Nat /\ (t.pc = "put" => 1 <= s.at) /\ 1 \in 1..3
    OBVIOUS
  <2> QED
    BY <1>1, <1>2, <2>1, <2>2, TargetBacked
<1>4. TargetHeld(t, "config", 2, conf, t.was.config, kept2["config"])
  <2>1. TargetHeld(s, "config", 2, conf, s.was.config, kept["config"])
    BY DEF UpgradeHeld
  <2>2. s.at \in Nat /\ (t.pc = "put" => 2 <= s.at) /\ 2 \in 1..3
    OBVIOUS
  <2> QED
    BY <1>1, <1>2, <2>1, <2>2, TargetBacked
<1>5. ASSUME s.tool = "fullcontrol"
      PROVE  TargetHeld(t, "service", 3, runs, t.was.exec, kept2["service"])
  <2>1. TargetHeld(s, "service", 3, runs, s.was.exec, kept["service"])
    BY <1>5 DEF UpgradeHeld
  <2>2. s.at \in Nat /\ (t.pc = "put" => 3 <= s.at) /\ 3 \in 1..3
    BY <1>5
  <2> QED
    BY <1>1, <1>2, <2>1, <2>2, TargetBacked
<1>6. Noted(t, list)
  BY <1>1 DEF Noted, Reading
<1> QED
  BY <1>3, <1>4, <1>5, <1>6 DEF UpgradeHeld

\* Each of the three backups is of what was read, and what was read still stands.
LEMMA BackupsHeld ==
    ASSUME TypeOK, Phases, HeldInv, NEW r \in Run, BackupNext(r)
    PROVE  HeldBy(run'[r], trust', config', exec', backups')
<1> DEFINE s == run[r]
           t == IF s.at = Len(Targets(s.tool)) THEN [s EXCEPT !.pc = "put", !.at = 1]
                                               ELSE [s EXCEPT !.at = @ + 1]
           f == Targets(s.tool)[s.at]
           content == IF f = "trust" THEN s.was.trust
                      ELSE IF f = "config" THEN s.was.config ELSE s.was.exec
<1>1. /\ s.tool \in Upgrader /\ s.pc = "backup" /\ s \in State /\ run \in [Run -> State]
      /\ UpgradeHeld(s, trust, config, exec, backups) /\ s.at \in Nat
  BY RunTypes DEF BackupNext, Upgrader, HeldInv, HeldBy, TypeOK
<1>2. /\ s.at \in 1..3 /\ s.at <= Len(Targets(s.tool)) /\ Len(Targets(s.tool)) \in {2, 3}
      /\ Len(Targets(s.tool)) = 3 <=> s.tool = "fullcontrol"
      /\ (f = "trust" <=> s.at = 1) /\ (f = "config" <=> s.at = 2) /\ (f = "service" <=> s.at = 3)
      /\ f \in Target
  BY <1>1, TargetAt
<1>3. Keep(r, f, content, [run EXCEPT ![r] = t])
  <2>1. [run EXCEPT ![r] = t] = IF s.at = Len(Targets(s.tool))
                                THEN [run EXCEPT ![r].pc = "put", ![r].at = 1]
                                ELSE [run EXCEPT ![r].at = @ + 1]
    BY <1>1
  <2>2. f \in {"trust", "config", "service"}
    BY <1>2 DEF Target
  <2> HIDE DEF t
  <2> QED
    BY <2>1, <2>2 DEF BackupNext
<1> HIDE DEF t
<1>4. /\ BackupsGrow /\ UNCHANGED <<trust, config, exec>>
      /\ \/ End(r)
         \/ /\ run' = [run EXCEPT ![r] = t]
            /\ [tool |-> s.tool, was |-> content, whole |-> TRUE] \in backups'[f]
  BY <1>2, <1>3, Backed DEF HeldInv
<1>5. CASE End(r)
  BY <1>5, HeldOver
<1>6. CASE /\ run' = [run EXCEPT ![r] = t]
           /\ [tool |-> s.tool, was |-> content, whole |-> TRUE] \in backups'[f]
  <2>1. /\ run'[r] = t /\ t.tool = s.tool /\ t.changed = s.changed /\ t.slip = s.slip
        /\ t.was = s.was
        /\ \/ t.pc = "backup" /\ t.at = s.at + 1
           \/ t.pc = "put" /\ t.at = 1 /\ s.at = Len(Targets(s.tool))
    BY <1>1, <1>6 DEF t, State
  <2>2. \A kind \in Target : backups[kind] \subseteq backups'[kind]
    BY <1>4 DEF BackupsGrow
  <2>3. /\ s.at = 1 => Saved(s, s.was.trust, backups'["trust"])
        /\ s.at = 2 => Saved(s, s.was.config, backups'["config"])
        /\ s.at = 3 => Saved(s, s.was.exec, backups'["service"])
    BY <1>2, <1>6 DEF Saved
  <2>4. t.pc = "put" => s.at >= 2 /\ (s.tool = "fullcontrol" => s.at = 3)
    <3>1. t.pc = "put" => s.at = Len(Targets(s.tool))
      BY <2>1
    <3>2. Len(Targets(s.tool)) >= 2 /\ (s.tool = "fullcontrol" => Len(Targets(s.tool)) = 3)
      BY <1>2
    <3> HIDE DEF s
    <3> QED
      BY <3>1, <3>2
  <2>8. UpgradeHeld(t, trust, config, exec, backups')
    <3> HIDE DEF s
    <3> QED
      BY <1>1, <1>2, <2>1, <2>2, <2>3, <2>4, UpgradeBacked
  <2> QED
    BY <1>1, <1>4, <2>1, <2>8 DEF HeldBy, Upgrader
<1> QED
  BY <1>4, <1>5, <1>6

\* A replacement of one target, or an error that starts the rollback.
LEMMA UpgradePut ==
    ASSUME NEW s, NEW t, NEW list, NEW conf, NEW runs, NEW kept, NEW f,
           NEW list2, NEW conf2, NEW runs2,
           UpgradeHeld(s, list, conf, runs, kept), s.pc \in {"put", "verify"}, s.at \in Nat,
           s.pc = "put" => s.at \in 1..3,
           (f = "trust" => s.at = 1) /\ (f = "config" => s.at = 2) /\ (f = "service" => s.at = 3),
           t.tool = s.tool, t.was = s.was, t.key = s.key, s.changed \subseteq t.changed,
           \/ t.pc = "put" /\ s.pc = "put" /\ t.at = s.at + 1
           \/ t.pc = "verify" /\ s.pc = "put"
           \/ t.pc = "undo" /\ t.at = 1,
           t.pc # "undo" => t.slip = {} /\ t.changed \subseteq s.changed \cup {f},
           list2 # list => "trust" \in t.changed \cup t.slip,
           conf2 # conf => "config" \in t.changed \cup t.slip,
           runs2 # runs => "service" \in t.changed \cup t.slip,
           list2 \in {list, Raised(s)},
           s.pc = "put" /\ s.at = 1 /\ t.pc # "undo" => list2 = Raised(s),
           s.pc = "verify" \/ s.at > 1 => list2 = list
    PROVE  UpgradeHeld(t, list2, conf2, runs2, kept)
<1>1. s.slip = {} /\ t.pc \in {"put", "verify", "undo"} /\ (t.pc = "undo" => t.at = 1)
  BY DEF UpgradeHeld, Noted
<1>2. TargetHeld(t, "trust", 1, list2, t.was.trust, kept["trust"])
  <2>1. TargetHeld(s, "trust", 1, list, s.was.trust, kept["trust"])
    BY DEF UpgradeHeld
  <2>2. PutStep(s, t, "trust", 1, list, list2)
    BY <1>1 DEF PutStep
  <2> QED
    BY <2>1, <2>2, TargetPut
<1>3. TargetHeld(t, "config", 2, conf2, t.was.config, kept["config"])
  <2>1. TargetHeld(s, "config", 2, conf, s.was.config, kept["config"])
    BY DEF UpgradeHeld
  <2>2. PutStep(s, t, "config", 2, conf, conf2)
    BY <1>1 DEF PutStep
  <2> QED
    BY <2>1, <2>2, TargetPut
<1>4. ASSUME s.tool = "fullcontrol"
      PROVE  TargetHeld(t, "service", 3, runs2, t.was.exec, kept["service"])
  <2>1. TargetHeld(s, "service", 3, runs, s.was.exec, kept["service"])
    BY <1>4 DEF UpgradeHeld
  <2>2. PutStep(s, t, "service", 3, runs, runs2)
    BY <1>1 DEF PutStep
  <2> QED
    BY <2>1, <2>2, TargetPut
<1>5. Raised(t) = Raised(s)
  BY DEF Raised
<1>6. CASE s.pc = "put" /\ s.at = 1
  <2>1. list = s.was.trust
    BY <1>1, <1>6 DEF UpgradeHeld, TargetHeld
  <2>2. Noted(t, list2)
    BY <1>5, <1>6, <2>1 DEF Noted, Reading
  <2> QED
    BY <1>2, <1>3, <1>4, <2>2 DEF UpgradeHeld
<1>7. CASE ~(s.pc = "put" /\ s.at = 1)
  <2>1. list = Raised(s) /\ list2 = list
    <3>1. s.pc = "verify" \/ s.at > 1
      BY <1>7
    <3> QED
      BY <1>7, <3>1 DEF UpgradeHeld, Noted
  <2>2. Noted(t, list2)
    BY <1>5, <2>1 DEF Noted, Reading
  <2> QED
    BY <1>2, <1>3, <1>4, <2>2 DEF UpgradeHeld
<1> QED
  BY <1>6, <1>7

\* One step of the rollback: as far as it has come, and but for a replacement
\* that raised its error too late, what was read stands again.
LEMMA UpgradeUndone ==
    ASSUME NEW s, NEW list, NEW conf, NEW runs, NEW kept, NEW list2, NEW conf2, NEW runs2,
           UpgradeHeld(s, list, conf, runs, kept), s.pc = "undo", s.at \in Nat,
           list2 = IF s.at = 1 /\ "trust" \in s.changed THEN s.was.trust ELSE list,
           conf2 = IF s.at = 2 /\ "config" \in s.changed THEN s.was.config ELSE conf,
           runs2 = IF s.at = 3 /\ "service" \in s.changed THEN s.was.exec ELSE runs
    PROVE  /\ "trust" \notin s.slip /\ s.at >= 1 => list2 = s.was.trust
           /\ "config" \notin s.slip /\ s.at >= 2 => conf2 = s.was.config
           /\ s.tool = "fullcontrol" /\ "service" \notin s.slip /\ s.at >= 3 => runs2 = s.was.exec
           /\ \A t : /\ t.tool = s.tool /\ t.pc = s.pc /\ t.at = s.at + 1 /\ t.key = s.key
                     /\ t.changed = s.changed /\ t.slip = s.slip /\ t.was = s.was
                     => UpgradeHeld(t, list2, conf2, runs2, kept)
<1>1. TargetHeld(s, "trust", 1, list, s.was.trust, kept["trust"]) /\ 1 \in 1..3
  BY DEF UpgradeHeld
<1>2. TargetHeld(s, "config", 2, conf, s.was.config, kept["config"]) /\ 2 \in 1..3
  BY DEF UpgradeHeld
<1>3. s.tool = "fullcontrol" => TargetHeld(s, "service", 3, runs, s.was.exec, kept["service"])
  BY DEF UpgradeHeld
<1>4. /\ "trust" \notin s.slip /\ 1 <= s.at => list2 = s.was.trust
      /\ \A t : /\ t.tool = s.tool /\ t.pc = s.pc /\ t.at = s.at + 1
                /\ t.changed = s.changed /\ t.slip = s.slip
                => TargetHeld(t, "trust", 1, list2, s.was.trust, kept["trust"])
  BY <1>1, TargetUndone
<1>5. /\ "config" \notin s.slip /\ 2 <= s.at => conf2 = s.was.config
      /\ \A t : /\ t.tool = s.tool /\ t.pc = s.pc /\ t.at = s.at + 1
                /\ t.changed = s.changed /\ t.slip = s.slip
                => TargetHeld(t, "config", 2, conf2, s.was.config, kept["config"])
  BY <1>2, TargetUndone
<1>6. ASSUME s.tool = "fullcontrol"
      PROVE  /\ "service" \notin s.slip /\ 3 <= s.at => runs2 = s.was.exec
             /\ \A t : /\ t.tool = s.tool /\ t.pc = s.pc /\ t.at = s.at + 1
                       /\ t.changed = s.changed /\ t.slip = s.slip
                       => TargetHeld(t, "service", 3, runs2, s.was.exec, kept["service"])
  <2>1. TargetHeld(s, "service", 3, runs, s.was.exec, kept["service"]) /\ 3 \in 1..3
    BY <1>3, <1>6
  <2> QED
    BY <2>1, TargetUndone
<1>7. list2 \in {s.was.trust, Raised(s)}
  BY DEF UpgradeHeld, Noted
<1>8. ASSUME NEW t, t.tool = s.tool, t.pc = s.pc, t.at = s.at + 1, t.key = s.key,
             t.changed = s.changed, t.slip = s.slip, t.was = s.was
      PROVE  UpgradeHeld(t, list2, conf2, runs2, kept)
  <2>1. TargetHeld(t, "trust", 1, list2, t.was.trust, kept["trust"])
    BY <1>4, <1>8
  <2>2. TargetHeld(t, "config", 2, conf2, t.was.config, kept["config"])
    BY <1>5, <1>8
  <2>3. t.tool = "fullcontrol" => TargetHeld(t, "service", 3, runs2, t.was.exec, kept["service"])
    BY <1>6, <1>8
  <2>4. Noted(t, list2)
    BY <1>7, <1>8 DEF Noted, Raised, Reading
  <2> QED
    BY <2>1, <2>2, <2>3, <2>4 DEF UpgradeHeld
<1>9. /\ s.at >= 1 <=> 1 <= s.at
      /\ s.at >= 2 <=> 2 <= s.at
      /\ s.at >= 3 <=> 3 <= s.at
  OBVIOUS
<1> QED
  BY <1>4, <1>5, <1>6, <1>8, <1>9

\* What an upgrade knows after it went on, and after an error.
LEMMA Advanced ==
    ASSUME TypeOK, NEW r \in Run, NEW g, run[r].pc = "put", Advance(r, g)
    PROVE  LET s == run[r]
               t == run'[r]
           IN /\ t.tool = s.tool /\ t.was = s.was /\ t.key = s.key /\ t.slip = s.slip
              /\ t.undid = s.undid /\ t.changed = s.changed \cup g
              /\ (t.pc = "put" /\ t.at = s.at + 1) \/ t.pc = "verify"
<1>1. run \in [Run -> State] /\ run[r] \in State
  BY DEF TypeOK
<1>2. CASE run[r].at = Len(Targets(run[r].tool))
  BY <1>1, <1>2 DEF Advance, State
<1>3. CASE run[r].at # Len(Targets(run[r].tool))
  BY <1>1, <1>3 DEF Advance, State
<1> QED
  BY <1>2, <1>3

\* What it knows when it begins to roll back.
LEMMA RolledBack ==
    ASSUME TypeOK, NEW r \in Run, NEW g, RollBack(r, g)
    PROVE  LET s == run[r]
               t == run'[r]
           IN /\ t.tool = s.tool /\ t.was = s.was /\ t.key = s.key /\ t.slip = g
              /\ t.undid /\ t.changed = s.changed /\ t.pc = "undo" /\ t.at = 1
<1>1. run \in [Run -> State] /\ run[r] \in State
  BY DEF TypeOK
<1> QED
  BY <1>1 DEF RollBack, State

\* _atomic_replace of the upgrade's next target, or an error.
LEMMA PutHeld ==
    ASSUME TypeOK, Phases, HeldInv, NEW r \in Run, Put(r)
    PROVE  HeldBy(run'[r], trust', config', exec', backups')
<1> DEFINE s == run[r]
           t == run'[r]
           f == Targets(s.tool)[s.at]
<1>1. /\ s.tool \in Upgrader /\ s.pc = "put" /\ s \in State /\ s.at \in Nat
      /\ UpgradeHeld(s, trust, config, exec, backups) /\ s.slip = {}
  <2>1. s.tool \in Upgrader /\ s.pc = "put" /\ s \in State /\ s.at \in Nat
    BY RunTypes DEF Put, Upgrader
  <2>2. UpgradeHeld(s, trust, config, exec, backups)
    BY <2>1 DEF HeldInv, HeldBy
  <2> QED
    BY <2>1, <2>2 DEF UpgradeHeld, Noted
<1>2. /\ s.at \in 1..3
      /\ (f = "trust" <=> s.at = 1) /\ (f = "config" <=> s.at = 2) /\ (f = "service" <=> s.at = 3)
  BY <1>1, TargetAt
<1>3. Wanted(r).trust = Raised(s)
  BY DEF Wanted, Raised
<1>4. \/ Says(f, Wanted(r)) /\ Advance(r, {}) /\ UNCHANGED disk
      \/ Install(f, Wanted(r)) /\ Advance(r, {f})
      \/ Install(f, Wanted(r)) /\ RollBack(r, {f})
      \/ RollBack(r, {}) /\ UNCHANGED disk
  BY DEF Put
<1>5. ASSUME t.tool = s.tool, t.was = s.was, t.key = s.key, s.changed \subseteq t.changed,
             backups' = backups,
             \/ t.pc = "put" /\ t.at = s.at + 1
             \/ t.pc = "verify"
             \/ t.pc = "undo" /\ t.at = 1,
             t.pc # "undo" => t.slip = {} /\ t.changed \subseteq s.changed \cup {f},
             trust' # trust => "trust" \in t.changed \cup t.slip,
             config' # config => "config" \in t.changed \cup t.slip,
             exec' # exec => "service" \in t.changed \cup t.slip,
             trust' \in {trust, Raised(s)},
             s.at = 1 /\ t.pc # "undo" => trust' = Raised(s),
             s.at > 1 => trust' = trust
      PROVE  HeldBy(run'[r], trust', config', exec', backups')
  <2>1. UpgradeHeld(t, trust', config', exec', backups)
    <3> HIDE DEF s, t, f
    <3> QED
      BY <1>1, <1>2, <1>5, UpgradePut
  <2> QED
    BY <1>1, <1>5, <2>1 DEF HeldBy, Upgrader
<1>6. CASE Says(f, Wanted(r)) /\ Advance(r, {}) /\ UNCHANGED disk
  <2>1. /\ t.tool = s.tool /\ t.was = s.was /\ t.key = s.key /\ t.slip = s.slip
        /\ t.changed = s.changed \cup {} /\ ((t.pc = "put" /\ t.at = s.at + 1) \/ t.pc = "verify")
    BY <1>1, <1>6, Advanced
  <2>2. backups' = backups /\ trust' = trust /\ config' = config /\ exec' = exec
    BY <1>6 DEF disk
  <2>3. s.at = 1 => trust' = Raised(s)
    BY <1>2, <1>3, <1>6, <2>2 DEF Says
  <2> HIDE DEF s, t, f
  <2> QED
    BY <1>1, <1>5, <2>1, <2>2, <2>3
<1>7. ASSUME Install(f, Wanted(r))
      PROVE  /\ backups' = backups
             /\ trust' = (IF s.at = 1 THEN Raised(s) ELSE trust)
             /\ config' # config => f = "config"
             /\ exec' # exec => f = "service"
             /\ trust' # trust => f = "trust"
             /\ s.at > 1 => trust' = trust
  BY <1>2, <1>3, <1>7 DEF Install
<1>8. CASE Install(f, Wanted(r)) /\ Advance(r, {f})
  <2>1. /\ t.tool = s.tool /\ t.was = s.was /\ t.key = s.key /\ t.slip = s.slip
        /\ t.changed = s.changed \cup {f} /\ ((t.pc = "put" /\ t.at = s.at + 1) \/ t.pc = "verify")
    BY <1>1, <1>8, Advanced
  <2> HIDE DEF s, t, f
  <2> QED
    BY <1>1, <1>5, <1>7, <1>8, <2>1
<1>9. CASE Install(f, Wanted(r)) /\ RollBack(r, {f})
  <2>1. /\ t.tool = s.tool /\ t.was = s.was /\ t.key = s.key /\ t.slip = {f}
        /\ t.changed = s.changed /\ t.pc = "undo" /\ t.at = 1
    BY <1>9, RolledBack
  <2> HIDE DEF s, t, f
  <2> QED
    BY <1>5, <1>7, <1>9, <2>1
<1>10. CASE RollBack(r, {}) /\ UNCHANGED disk
  <2>1. /\ t.tool = s.tool /\ t.was = s.was /\ t.key = s.key /\ t.slip = {}
        /\ t.changed = s.changed /\ t.pc = "undo" /\ t.at = 1
    BY <1>10, RolledBack
  <2>2. backups' = backups /\ trust' = trust /\ config' = config /\ exec' = exec
    BY <1>10 DEF disk
  <2> HIDE DEF s, t, f
  <2> QED
    BY <1>5, <2>1, <2>2
<1> QED
  BY <1>4, <1>6, <1>8, <1>9, <1>10

\* The new files are loaded again: the upgrade is done, or begins to roll back.
LEMMA VerifyHeld ==
    ASSUME TypeOK, Phases, HeldInv, NEW r \in Run, VerifyUpgrade(r)
    PROVE  HeldBy(run'[r], trust', config', exec', backups')
<1> DEFINE s == run[r]
           t == run'[r]
<1>1. CASE Leave(r, "done")
  BY <1>1, HeldOver
<1>2. CASE RollBack(r, {})
  <2>1. /\ s.tool \in Upgrader /\ s.pc = "verify" /\ s.at \in Nat
        /\ backups' = backups /\ trust' = trust /\ config' = config /\ exec' = exec
    BY RunTypes DEF VerifyUpgrade, Upgrader, disk
  <2>2. UpgradeHeld(s, trust, config, exec, backups)
    BY <2>1 DEF HeldInv, HeldBy
  <2>3. /\ t.tool = s.tool /\ t.was = s.was /\ t.key = s.key /\ t.slip = {}
        /\ t.changed = s.changed /\ t.pc = "undo" /\ t.at = 1
    BY <1>2, RolledBack
  <2>4. UpgradeHeld(t, trust, config, exec, backups)
    <3> DEFINE f == "none"
    <3>1. (f = "trust" => s.at = 1) /\ (f = "config" => s.at = 2) /\ (f = "service" => s.at = 3)
      OBVIOUS
    <3> HIDE DEF s, t, f
    <3> QED
      BY <2>1, <2>2, <2>3, <3>1, UpgradePut
  <2> QED
    BY <2>1, <2>3, <2>4 DEF HeldBy, Upgrader
<1> QED
  BY <1>1, <1>2 DEF VerifyUpgrade

\* What is claimed of an upgrade that reports failure after its rollback.
Restores(r) ==
    run'[r].pc = "release" /\ run'[r].end = "failed" =>
        \A kind \in Target \ run[r].slip :
            CASE kind = "trust"   -> trust' = run[r].was.trust
              [] kind = "config"  -> config' = run[r].was.config
              [] kind = "service" -> run[r].tool = "fullcontrol" => exec' = run[r].was.exec

\* One step of the except clause; after its last step what was read stands.
LEMMA UndoHeld ==
    ASSUME TypeOK, Phases, HeldInv, NEW r \in Run, Undo(r)
    PROVE  HeldBy(run'[r], trust', config', exec', backups') /\ Restores(r)
<1> DEFINE s == run[r]
           t == run'[r]
           f == Targets(s.tool)[s.at]
           last == Len(Targets(s.tool))
           next == IF s.at = last THEN [run EXCEPT ![r] = Leaving(r, "failed")]
                                  ELSE [run EXCEPT ![r].at = @ + 1]
<1>1. /\ s.tool \in Upgrader /\ s.pc = "undo" /\ s \in State /\ s.at \in Nat
      /\ run \in [Run -> State]
      /\ UpgradeHeld(s, trust, config, exec, backups)
  <2>1. s.pc = "undo" /\ s \in State /\ s.at \in Nat /\ run \in [Run -> State]
    BY RunTypes DEF Undo, TypeOK
  <2>2. s.tool \in Upgrader
    BY <2>1 DEF Phases, Phased
  <2> QED
    BY <2>1, <2>2 DEF HeldInv, HeldBy
<1>2. /\ s.at \in 1..3 /\ last \in {2, 3} /\ (last = 3 <=> s.tool = "fullcontrol")
      /\ (f = "trust" <=> s.at = 1) /\ (f = "config" <=> s.at = 2) /\ (f = "service" <=> s.at = 3)
  BY <1>1, TargetAt
<1>3. CASE Leave(r, "manual")
  <2>1. t = Leaving(r, "manual")
    BY <1>1, <1>3 DEF Leave
  <2>2. t.end = "manual"
    BY <2>1 DEF Leaving, Idle
  <2> QED
    BY <1>3, <2>2, HeldOver DEF Restores
<1>4. CASE run' = next /\ (IF f \in s.changed THEN Install(f, s.was) ELSE UNCHANGED disk)
  <2>1. /\ backups' = backups
        /\ trust' = IF s.at = 1 /\ "trust" \in s.changed THEN s.was.trust ELSE trust
        /\ config' = IF s.at = 2 /\ "config" \in s.changed THEN s.was.config ELSE config
        /\ exec' = IF s.at = 3 /\ "service" \in s.changed THEN s.was.exec ELSE exec
    <3>1. CASE f \in s.changed
      <4>1. /\ trust' = (IF f = "trust" THEN s.was.trust ELSE trust)
            /\ config' = (IF f = "config" THEN s.was.config ELSE config)
            /\ exec' = (IF f = "service" THEN s.was.exec ELSE exec)
            /\ backups' = backups
        BY <1>4, <3>1 DEF Install
      <4> HIDE DEF f
      <4> QED
        BY <1>2, <3>1, <4>1
    <3>2. CASE f \notin s.changed
      <4>1. trust' = trust /\ config' = config /\ exec' = exec /\ backups' = backups
        BY <1>4, <3>2 DEF disk
      <4> HIDE DEF f
      <4> QED
        BY <1>2, <3>2, <4>1
    <3> QED
      BY <3>1, <3>2
  <2>2. /\ "trust" \notin s.slip /\ s.at >= 1 => trust' = s.was.trust
        /\ "config" \notin s.slip /\ s.at >= 2 => config' = s.was.config
        /\ s.tool = "fullcontrol" /\ "service" \notin s.slip /\ s.at >= 3 => exec' = s.was.exec
        /\ \A u : /\ u.tool = s.tool /\ u.pc = s.pc /\ u.at = s.at + 1 /\ u.key = s.key
                  /\ u.changed = s.changed /\ u.slip = s.slip /\ u.was = s.was
                  => UpgradeHeld(u, trust', config', exec', backups)
    <3> HIDE DEF s, f
    <3> QED
      BY <1>1, <2>1, UpgradeUndone
  <2>3. CASE s.at = last
    <3>1. Leave(r, "failed")
      BY <1>4, <2>3 DEF Leave
    <3>2. /\ "trust" \notin s.slip => trust' = s.was.trust
          /\ "config" \notin s.slip => config' = s.was.config
          /\ s.tool = "fullcontrol" /\ "service" \notin s.slip => exec' = s.was.exec
      <4>1. s.at >= 1 /\ s.at >= 2 /\ (s.tool = "fullcontrol" => s.at >= 3)
        <5> HIDE DEF last
        <5> QED
          BY <1>2, <2>3
      <4> QED
        BY <2>2, <4>1
    <3>3. Restores(r)
      BY <3>2 DEF Restores, Target
    <3> QED
      BY <3>1, <3>3, HeldOver
  <2>4. CASE s.at # last
    <3>1. /\ t.tool = s.tool /\ t.pc = s.pc /\ t.at = s.at + 1 /\ t.key = s.key
          /\ t.changed = s.changed /\ t.slip = s.slip /\ t.was = s.was
      <4>1. run' = [run EXCEPT ![r].at = @ + 1]
        BY <1>4, <2>4
      <4> QED
        BY <1>1, <4>1 DEF State
    <3>2. UpgradeHeld(t, trust', config', exec', backups)
      BY <2>2, <3>1
    <3>3. t.pc = "undo"
      BY <1>1, <3>1
    <3> QED
      BY <1>1, <2>1, <3>1, <3>2, <3>3 DEF HeldBy, Upgrader, Restores
  <2> QED
    BY <2>3, <2>4
<1> QED
  BY <1>3, <1>4 DEF Undo

\* Every step of an upgrade.
LEMMA UpgradeHolds ==
    ASSUME TypeOK, Phases, HeldInv, NEW r \in Run, UpgradeStep(r)
    PROVE  HeldBy(run'[r], trust', config', exec', backups')
<1> DEFINE s == run[r]
           t == run'[r]
<1>0. run \in [Run -> State] /\ s \in State /\ Phased(s)
  BY DEF TypeOK, Phases
<1>1. CASE StartUpgrade(r)
  <2>1. t.tool \in Upgrader /\ t.pc = "service" /\ t.changed = {} /\ t.slip = {}
    BY <1>0, <1>1 DEF StartUpgrade, Idle, Upgrader
  <2> QED
    BY <2>1, HeldBefore DEF Reading
<1>2. ASSUME s.pc \in Reading, t.pc \in Reading \cup {"lock"},
             t.tool = s.tool, t.changed = s.changed, t.slip = s.slip
      PROVE  HeldBy(t, trust', config', exec', backups')
  <2>1. s.tool \in Upgrader
    BY <1>0, <1>2 DEF Phased
  <2>2. UpgradeHeld(s, trust, config, exec, backups)
    BY <2>1 DEF HeldInv, HeldBy
  <2>3. s.changed = {} /\ s.slip = {}
    BY <1>2, <2>2 DEF UpgradeHeld, Noted
  <2> HIDE DEF s, t
  <2> QED
    BY <1>2, <2>1, <2>3, HeldBefore
<1>3. CASE ReadService(r)
  BY <1>0, <1>2, <1>3 DEF ReadService, Goto, State, Reading
<1>4. CASE ReadConfig(r)
  BY <1>0, <1>2, <1>4 DEF ReadConfig, State, Reading
<1>5. CASE ReadIdentity(r)
  BY <1>0, <1>2, <1>5 DEF ReadIdentity, State, Reading
<1>6. CASE ReadTrust(r)
  BY <1>0, <1>2, <1>6 DEF ReadTrust, State, Reading
<1>7. CASE ReadConfigAgain(r)
  BY <1>0, <1>2, <1>7 DEF ReadConfigAgain, State, Reading
<1>8. CASE ReadServiceAgain(r)
  BY <1>0, <1>2, <1>8 DEF ReadServiceAgain, State, Reading
<1>9. CASE Recheck(r)
  <2>1. s.tool \in Upgrader /\ s.pc = "recheck" /\ s.at = 1
    BY <1>0, <1>9 DEF Recheck, Phased
  <2>2. s.changed = {} /\ s.slip = {}
    BY <2>1 DEF HeldInv, HeldBy, UpgradeHeld, Noted
  <2>3. /\ t.tool = s.tool /\ t.pc = "backup" /\ t.at = 1 /\ t.changed = {} /\ t.slip = {}
        /\ t.was = s.was
    BY <1>0, <1>9, <2>1, <2>2 DEF Recheck, Goto, State
  <2>4. /\ trust' = s.was.trust /\ config' = s.was.config
        /\ s.tool = "fullcontrol" => exec' = s.was.exec
    BY <1>9 DEF Recheck, disk
  <2>5. UpgradeHeld(t, trust', config', exec', backups')
    <3> HIDE DEF s, t
    <3> QED
      BY <2>3, <2>4 DEF UpgradeHeld, TargetHeld, Noted
  <2> QED
    BY <2>1, <2>3, <2>5 DEF HeldBy, Upgrader
<1>10. CASE UpgradeFails(r)
  BY <1>10, HeldOver DEF UpgradeFails
<1> QED
  BY <1>1, <1>3, <1>4, <1>5, <1>6, <1>7, <1>8, <1>9, <1>10, BackupsHeld, PutHeld, VerifyHeld,
     UndoHeld DEF UpgradeStep

\* Recovery appends to the list it read and backed up.
LEMMA RecoverHolds ==
    ASSUME TypeOK, Phases, HeldInv, NEW r \in Run, Recover(r)
    PROVE  HeldBy(run'[r], trust', config', exec', backups')
<1> DEFINE s == run[r]
           t == run'[r]
<1>0. run \in [Run -> State] /\ s \in State /\ Phased(s)
  BY DEF TypeOK, Phases
<1>1. ASSUME t.tool \notin Upgrader, t.pc # "put"
      PROVE  HeldBy(t, trust', config', exec', backups')
  BY <1>1 DEF HeldBy, RecoverHeld
<1>2. CASE StartRecover(r)
  <2>1. t.tool = "recover" /\ t.pc = "lock"
    BY <1>0, <1>2 DEF StartRecover, Idle
  <2> QED
    BY <1>1, <2>1 DEF Upgrader
<1>3. CASE ReuseEnrolled(r) \/ VerifyEnrolled(r) \/ RecoverFails(r)
  BY <1>3, HeldOver DEF ReuseEnrolled, VerifyEnrolled, RecoverFails
<1>4. CASE ResumeGenerated(r) \/ GenerateKey(r)
  <2>1. t.tool = s.tool /\ s.tool = "recover" /\ t.pc \in {"backup", "create"}
    BY <1>0, <1>4 DEF ResumeGenerated, GenerateKey, Looking, State
  <2> QED
    BY <1>1, <2>1 DEF Upgrader
<1>5. CASE WriteRecoveryFile(r)
  <2>1. /\ s.tool = "recover"
        /\ \/ t = [s EXCEPT !.pc = "fill"]
           \/ t \in {Over(r), Leaving(r, "failed")}
           \/ \E pc \in {"backup", "create"} : t = [s EXCEPT !.pc = pc, !.at = @ + 1]
    BY <1>0, <1>5 DEF WriteRecoveryFile, Create, Fill, FillFails, NextFile, State
  <2>2. t.tool \in {"recover", "provision"} /\ t.pc # "put"
    BY <1>0, <2>1 DEF Over, Leaving, Idle, State
  <2> QED
    BY <1>1, <2>2 DEF Upgrader
<1>6. CASE BackupTrust(r)
  <2>1. s.tool = "recover" /\ trust = s.was.trust /\ "trust" \in Target
    BY <1>6 DEF BackupTrust, Target
  <2>2. Keep(r, "trust", trust, [run EXCEPT ![r].pc = "put"])
    BY <1>6 DEF BackupTrust
  <2>3. /\ UNCHANGED trust
        /\ \/ End(r)
           \/ /\ run' = [run EXCEPT ![r].pc = "put"]
              /\ [tool |-> s.tool, was |-> trust, whole |-> TRUE] \in backups'["trust"]
    BY <2>1, <2>2, Backed DEF HeldInv
  <2>4. CASE End(r)
    BY <2>4, HeldOver
  <2>5. CASE /\ run' = [run EXCEPT ![r].pc = "put"]
             /\ [tool |-> s.tool, was |-> trust, whole |-> TRUE] \in backups'["trust"]
    <3>1. t.tool = "recover" /\ t.was = s.was
      BY <1>0, <2>1, <2>5 DEF State
    <3>2. RecoverHeld(t, trust', backups')
      BY <2>1, <2>3, <2>5, <3>1 DEF RecoverHeld, Saved
    <3> QED
      BY <3>1, <3>2 DEF HeldBy, Upgrader
  <2> QED
    BY <2>3, <2>4, <2>5
<1>7. CASE Enroll(r)
  <2>1. CASE Goto(r, "verify")
    <3>1. t.tool = "recover" /\ t.pc = "verify"
      BY <1>0, <1>7, <2>1 DEF Enroll, Goto, State
    <3> QED
      BY <1>1, <3>1 DEF Upgrader
  <2>2. CASE Leave(r, "failed")
    BY <2>2, HeldOver
  <2> QED
    BY <1>7, <2>1, <2>2 DEF Enroll
<1> QED
  BY <1>2, <1>3, <1>4, <1>5, <1>6, <1>7 DEF Recover

\* A provisioner and attach never become another tool.
LEMMA ToolStays ==
    ASSUME TypeOK, Phases, FileInv, NEW r \in Run, Provision(r) \/ Attach(r)
    PROVE  run'[r].tool \in Provisioner \cup {"attach"}
<1>0. run \in [Run -> State] /\ run[r] \in State /\ Ordered(r)
  BY RunSteps DEF TypeOK, Act, FileInv, Step
<1>1. CASE StartProvision(r) \/ StartBootstrap(r) \/ StartPrepare(r)
  <2>1. \E tool \in Provisioner, level \in {2, 3} : Begin(r, tool, level)
    BY <1>1 DEF StartProvision, StartBootstrap, StartPrepare, Provisioner
  <2> QED
    BY <1>0, <2>1 DEF Begin, Idle
<1>2. CASE CreateNext(r) \/ FillNext(r) \/ FillNextFails(r) \/ Unlink(r)
  <2>1. run[r].tool \in Provisioner /\ run[r].pc \in {"create", "fill"}
    BY <1>2 DEF CreateNext, FillNext, FillNextFails, Unlink, Unlinking, Provisioner
  <2> QED
    BY <1>0, <2>1 DEF Ordered
<1>3. CASE StartAttach(r)
  BY <1>0, <1>3 DEF StartAttach, Idle
<1>4. CASE AttachLooks(r)
  BY <1>0, <1>4 DEF AttachLooks, Goto, State
<1>5. CASE WriteAttachFile(r)
  <2>1. /\ run[r].tool = "attach"
        /\ \/ run'[r] = [run[r] EXCEPT !.pc = "fill"]
           \/ run'[r] \in {Over(r), Leaving(r, "failed")}
           \/ \E pc \in {"create"} : run'[r] = [run[r] EXCEPT !.pc = pc, !.at = @ + 1]
    BY <1>0, <1>5 DEF WriteAttachFile, Create, Fill, FillFails, Reuse, NextFile, State
  <2> QED
    BY <1>0, <2>1 DEF Over, Leaving, Idle, State, Provisioner
<1> QED
  BY <1>1, <1>2, <1>3, <1>4, <1>5 DEF Provision, Attach

\* Every step keeps what the owner of the lock relies on.
LEMMA HeldKeeps ==
    ASSUME TypeOK, TypeOK', Phases, FileInv, HeldInv, [Next]_vars
    PROVE  HeldInv'
<1>1. ASSUME NEW r \in Run, Act(r) PROVE HeldInv'
  <2>1. backups' = [kind \in Target |-> backups'[kind]]
    BY <1>1, Replaced DEF HeldInv, Replaces, BackupsGrow
  <2>2. Others(r)
    BY <1>1, RunSteps DEF FileInv, Step
  <2>3. ASSUME NEW q \in Run \ {r} PROVE HeldBy(run'[q], trust', config', exec', backups')
    BY <1>1, <2>2, HeldByOthers DEF Others
  <2>4. HeldBy(run'[r], trust', config', exec', backups')
    <3>0. run \in [Run -> State] /\ run[r] \in State /\ Phased(run[r])
      BY DEF TypeOK, Phases
    <3>1. CASE Provision(r) \/ Attach(r)
      <4>1. run'[r].tool \in Provisioner \cup {"attach"}
        BY <3>1, ToolStays
      <4> QED
        BY <4>1 DEF HeldBy, Upgrader, Provisioner
    <3>2. CASE _acquire_recovery_lock(r)
      <4>1. /\ run[r].pc = "lock" /\ run'[r].tool = run[r].tool /\ run'[r].changed = run[r].changed
            /\ run'[r].slip = run[r].slip /\ run[r].tool \in Upgrader \cup {"recover"}
            /\ run'[r].pc = IF run[r].tool = "recover" THEN "look" ELSE "recheck"
        BY <3>0, <3>2 DEF _acquire_recovery_lock, Goto, State, Phased
      <4>2. CASE run[r].tool = "recover"
        BY <4>1, <4>2 DEF HeldBy, RecoverHeld, Upgrader
      <4>3. CASE run[r].tool \in Upgrader
        <5>1. run[r].changed = {} /\ run[r].slip = {}
          BY <4>1, <4>3 DEF HeldInv, HeldBy, UpgradeHeld, Noted
        <5> QED
          BY <4>1, <4>3, <5>1, HeldBefore DEF Upgrader
      <4> QED
        BY <4>1, <4>2, <4>3
    <3>3. CASE _release_recovery_lock(r) \/ Crash(r)
      BY <3>3, HeldOver DEF _release_recovery_lock, Crash
    <3> QED
      BY <1>1, <3>1, <3>2, <3>3, UpgradeHolds, RecoverHolds DEF Act
  <2>5. \A q \in Run : HeldBy(run'[q], trust', config', exec', backups')
    BY <2>3, <2>4
  <2> QED
    BY <2>1, <2>5 DEF HeldInv, HeldBy, UpgradeHeld, RecoverHeld, TargetHeld, Noted, Saved, Raised
<1>2. CASE Reconcile \/ UNCHANGED vars
  BY <1>2 DEF Reconcile, vars, disk, HeldInv
<1> QED
  BY <1>1, <1>2 DEF Next, Act

\* The installations a history begins with have no run and no backup.
LEMMA HeldAtFirst == Init => HeldInv
<1> SUFFICES ASSUME Init PROVE HeldInv
  OBVIOUS
<1>1. \A r \in Run : run[r].tool = "provision"
  BY IdleIsPhased DEF Init
<1>2. backups = [kind \in Target |-> backups[kind]]
  BY DEF Init
<1> QED
  BY <1>1, <1>2 DEF HeldInv, HeldBy, Upgrader

\* The inductive invariant of the tools that change an installation: while a
\* run has the trust file's lock, what it read stands except where it replaced
\* it, and of everything it may replace there is a complete backup.
THEOREM InstallationHeld == Spec => []RunInv
<1>1. Init => RunInv
  BY PhasesAtFirst, FilesAtFirst, KeysAtFirst, HeldAtFirst DEF RunInv
<1>2. RunInv /\ [Next]_vars => RunInv'
  BY PhaseSteps, FileKeeps, KeyKeeps, HeldKeeps DEF RunInv
<1> QED
  BY <1>1, <1>2, PTL DEF Spec

----------------------------------------------------------------------------
(* What a step may never do                                                *)

\* A failed upgrade that does not ask for manual reconciliation has put back
\* the trust list, the configuration and the service, except for one whose
\* replacement took effect and then raised an error.
THEOREM FailureRestores == Spec => FailedUpgradeRestores
<1> DEFINE A == \A r \in Run :
          run[r].pc = "undo" /\ run'[r].pc = "release" /\ run'[r].end = "failed" =>
              \A kind \in Target \ run[r].slip :
                  CASE kind = "trust"   -> trust' = run[r].was.trust
                    [] kind = "config"  -> config' = run[r].was.config
                    [] kind = "service" -> run[r].tool = "fullcontrol" => exec' = run[r].was.exec
<1>1. RunInv /\ [Next]_vars => [A]_vars
  <2> SUFFICES ASSUME RunInv, [Next]_vars, NEW r \in Run, run[r].pc = "undo",
                      run'[r].pc = "release", run'[r].end = "failed"
               PROVE  Restores(r)
    BY DEF Restores
  <2>0. TypeOK /\ Phases /\ FileInv /\ HeldInv /\ Phased(run[r])
    BY DEF RunInv, Phases
  <2>1. CASE Undo(r)
    BY <2>0, <2>1, UndoHeld
  <2>2. CASE Crash(r)
    <3>1. run'[r] = Over(r)
      BY <2>0, <2>2 DEF Crash, End, TypeOK
    <3> QED
      BY <3>1 DEF Over, Idle
  <2>3. ASSUME Act(r) PROVE Undo(r) \/ Crash(r)
    <3>1. run[r].tool \in Upgrader
      BY <2>0 DEF Phased
    <3>2. ~Provision(r) /\ ~Attach(r) /\ ~Recover(r)
      BY <3>1 DEF Provision, StartProvision, StartBootstrap, StartPrepare, Begin, CreateNext, FillNext,
         FillNextFails, Unlink, Attach, StartAttach, AttachLooks, WriteAttachFile, Recover,
         StartRecover, ReuseEnrolled, ResumeGenerated, GenerateKey, Looking, WriteRecoveryFile,
         BackupTrust, Enroll, VerifyEnrolled, RecoverFails, Upgrader
    <3>3. UpgradeStep(r) => Undo(r)
      BY DEF UpgradeStep, StartUpgrade, ReadService, ReadConfig, ReadIdentity, ReadTrust,
         ReadConfigAgain, ReadServiceAgain, Recheck, BackupNext, UpgradeFails, Put, VerifyUpgrade
    <3> QED
      BY <2>3, <3>2, <3>3 DEF Act, _acquire_recovery_lock, _release_recovery_lock
  <2>4. ASSUME NEW q \in Run \ {r}, Act(q) PROVE run'[r] = run[r]
    BY <2>0, <2>4, RunSteps DEF FileInv, Step, Others
  <2>5. CASE Reconcile \/ UNCHANGED vars
    BY <2>5 DEF Reconcile, vars
  <2> QED
    BY <2>1, <2>2, <2>3, <2>4, <2>5 DEF Next, Act
<1> QED
  BY <1>1, InstallationHeld, PTL DEF Spec, FailedUpgradeRestores

\* Two tools never overwrite each other's entries of controller-trust.json, and
\* nobody who is enrolled disappears, although an upgrade writes back a list it
\* read before it had the lock, and a rollback one that is older still.
THEOREM OwnEntriesOnly == Spec => OnlyOwnEntryChanges
<1> DEFINE A == Whole("trust") =>
          /\ \A k \in Key : trust[k] > 0 => trust'[k] > 0
          /\ \A k \in Key : trust'[k] # trust[k] =>
                \E r \in Run : lock = r /\ run[r].key = k
<1>1. RunInv /\ [Next]_vars => [A]_vars
  <2> SUFFICES ASSUME RunInv, [Next]_vars, Whole("trust") PROVE A
    OBVIOUS
  <2>0. /\ TypeOK /\ Phases /\ FileInv /\ KeyInv /\ HeldInv /\ trust \in [Key -> Level]
        /\ \A r \in Run : Phased(run[r]) /\ run[r] \in State
    BY DEF RunInv, Phases, TypeOK
  <2>1. ASSUME NEW r \in Run, lock = r, NEW k \in Key, run[r].key = k,
               \A j \in Key \ {k} : trust'[j] = trust[j], trust'[k] > 0
        PROVE  A
    BY <2>1
  <2>2. ASSUME NEW r \in Run, Enrolling(r) PROVE A
    <3>1. lock = r /\ run[r].key \in Key /\ trust = run[r].was.trust
      BY <2>0, <2>2 DEF Enrolling, Phases, Locks, KeyInv, Aims, Meant, HeldInv, HeldBy, RecoverHeld
    <3>2. trust' = [trust EXCEPT ![run[r].key] = 1]
      BY <2>2, <3>1 DEF Enrolling
    <3>3. trust'[run[r].key] > 0 /\ \A j \in Key \ {run[r].key} : trust'[j] = trust[j]
      BY <2>0, <3>1, <3>2
    <3> QED
      BY <2>1, <3>1, <3>3
  <2>3. ASSUME NEW r \in Run, run[r].tool \in Upgrader, run[r].pc \in {"put", "undo"},
               run[r].at = 1
        PROVE  /\ lock = r /\ run[r].key \in Key
               /\ run[r].was.trust[run[r].key] \in Nat \ {0} /\ Goal(run[r].tool) \in Nat \ {0}
               /\ run[r].was.trust \in [Key -> Level]
               /\ run[r].pc = "put" => trust = run[r].was.trust
               /\ run[r].pc = "undo" => trust \in {run[r].was.trust, Raised(run[r])}
    <3>1. lock = r
      BY <2>0, <2>3 DEF Phases, Locks
    <3>2. run[r].key \in Key /\ run[r].was.trust[run[r].key] \in Sources(run[r].tool)
      BY <2>0, <2>3 DEF KeyInv, Aims, Meant, HasTrust, Upgrader
    <3>3. UpgradeHeld(run[r], trust, config, exec, backups)
      BY <2>0, <2>3 DEF HeldInv, HeldBy
    <3>4. run[r].pc = "put" => trust = run[r].was.trust
      BY <2>3, <3>3 DEF UpgradeHeld, TargetHeld, Noted
    <3>5. run[r].pc = "undo" => trust \in {run[r].was.trust, Raised(run[r])}
      BY <3>3 DEF UpgradeHeld, Noted
    <3>6. run[r].was.trust \in [Key -> Level]
      BY <2>0 DEF State
    <3>7. Goal(run[r].tool) \in Nat \ {0} /\ Sources(run[r].tool) \subseteq Nat \ {0}
      BY DEF Goal, Sources
    <3> QED
      BY <3>1, <3>2, <3>4, <3>5, <3>6, <3>7
  <2>4. ASSUME NEW r \in Run, Raising(r) PROVE A
    <3>1. /\ lock = r /\ run[r].key \in Key /\ trust = run[r].was.trust
          /\ Goal(run[r].tool) \in Nat \ {0}
      BY <2>3, <2>4 DEF Raising
    <3>2. trust' = [trust EXCEPT ![run[r].key] = Goal(run[r].tool)]
      BY <2>4, <3>1 DEF Raising, Raised
    <3>3. trust'[run[r].key] > 0 /\ \A j \in Key \ {run[r].key} : trust'[j] = trust[j]
      BY <2>0, <3>1, <3>2
    <3> QED
      BY <2>1, <3>1, <3>3
  <2>5. ASSUME NEW r \in Run, Restoring(r) PROVE A
    <3>1. /\ lock = r /\ run[r].key \in Key /\ trust \in {run[r].was.trust, Raised(run[r])}
          /\ run[r].was.trust[run[r].key] \in Nat \ {0} /\ trust' = run[r].was.trust
          /\ run[r].was.trust \in [Key -> Level]
      BY <2>3, <2>5 DEF Restoring
    <3>2. trust'[run[r].key] > 0 /\ \A j \in Key \ {run[r].key} : trust'[j] = trust[j]
      BY <3>1 DEF Raised
    <3> QED
      BY <2>1, <3>1, <3>2
  <2>6. ASSUME NEW r \in Run PROVE ~Granting(r)
    <3> SUFFICES ASSUME Granting(r) PROVE FALSE
      OBVIOUS
    <3>1. run[r].pc = "fill" /\ FileOf(run[r]) = "trust"
      BY DEF Granting, FillNext
    <3> QED
      BY <2>0, <3>1 DEF FileInv, Filling, Whole
  <2>7. CASE trust' = trust
    BY <2>7
  <2> HIDE DEF A
  <2> QED
    BY <2>0, <2>2, <2>4, <2>5, <2>6, <2>7, TrustSteps DEF TrustStays, Whole
<1> QED
  BY <1>1, InstallationHeld, PTL DEF Spec, OnlyOwnEntryChanges

\* What is whole is replaced by three operations only.
LEMMA Replacers ==
    ASSUME TypeOK, Phases, FileInv, HeldInv, NEW r \in Run, Act(r),
           \/ Whole("trust") /\ trust' # trust
           \/ Whole("config") /\ config' # config
           \/ Whole("service") /\ exec' # exec
    PROVE  Enroll(r) \/ Put(r) \/ Undo(r)
<1>1. Replacing(run[r])
  BY Replaced DEF HeldInv, Replaces
<1>2. ~UNCHANGED disk
  BY DEF disk
<1>3. ~Provision(r) /\ ~Attach(r)
  BY <1>1 DEF Provision, StartProvision, StartBootstrap, StartPrepare, Begin, CreateNext, FillNext,
     FillNextFails, Unlink, Attach, StartAttach, AttachLooks, WriteAttachFile, Replacing, Upgrader,
     Unlinking, Provisioner
<1>4. Recover(r) => Enroll(r)
  BY <1>1, <1>2 DEF Recover, StartRecover, ReuseEnrolled, ResumeGenerated, GenerateKey, Looking,
     WriteRecoveryFile, BackupTrust, VerifyEnrolled, RecoverFails, Replacing
<1>5. UpgradeStep(r) => Put(r) \/ Undo(r)
  BY <1>1, <1>2 DEF UpgradeStep, StartUpgrade, ReadService, ReadConfig, ReadIdentity, ReadTrust,
     ReadConfigAgain, ReadServiceAgain, Recheck, BackupNext, UpgradeFails, VerifyUpgrade, Replacing
<1> QED
  BY <1>1, <1>2, <1>3, <1>4, <1>5 DEF Act, _acquire_recovery_lock, _release_recovery_lock, Crash,
     Replacing

\* What such an operation replaces, or puts back, is in a complete backup.
LEMMA ReplacedIsSaved ==
    ASSUME TypeOK, Phases, HeldInv, NEW r \in Run, Enroll(r) \/ Put(r) \/ Undo(r)
    PROVE  LET s == run[r]
           IN /\ trust' # trust =>
                    Saved(s, s.was.trust, backups["trust"]) /\ s.was.trust \in {trust, trust'}
              /\ config' # config =>
                    Saved(s, s.was.config, backups["config"]) /\ s.was.config \in {config, config'}
              /\ exec' # exec =>
                    Saved(s, s.was.exec, backups["service"]) /\ s.was.exec \in {exec, exec'}
<1> DEFINE s == run[r]
           f == Targets(s.tool)[s.at]
<1>0. s \in State /\ Phased(s) /\ HeldBy(s, trust, config, exec, backups)
  BY DEF TypeOK, Phases, HeldInv
<1>1. CASE Enroll(r)
  <2>1. s.tool = "recover" /\ s.pc = "put" /\ config' = config /\ exec' = exec
    BY <1>1 DEF Enroll, Install
  <2>2. trust = s.was.trust /\ Saved(s, s.was.trust, backups["trust"])
    BY <1>0, <2>1 DEF HeldBy, RecoverHeld
  <2> QED
    BY <2>1, <2>2
<1>2. CASE Put(r)
  <2>1. s.tool \in Upgrader /\ s.pc = "put"
    BY <1>2 DEF Put, Upgrader
  <2>2. /\ s.at \in 1..3
        /\ (f = "trust" <=> s.at = 1) /\ (f = "config" <=> s.at = 2) /\ (f = "service" <=> s.at = 3)
        /\ s.at = 3 => s.tool = "fullcontrol"
    BY <2>1, TargetAt
  <2>3. UpgradeHeld(s, trust, config, exec, backups)
    BY <1>0, <2>1 DEF HeldBy
  <2>4. /\ trust' # trust => f = "trust"
        /\ config' # config => f = "config"
        /\ exec' # exec => f = "service"
    BY <1>2 DEF Put, Install, disk
  <2>5. s.slip = {}
    BY <2>1, <2>3 DEF UpgradeHeld, Noted
  <2>6. s.at = 1 => Saved(s, s.was.trust, backups["trust"]) /\ trust = s.was.trust
    BY <2>1, <2>3, <2>5 DEF UpgradeHeld, TargetHeld
  <2>7. s.at = 2 => Saved(s, s.was.config, backups["config"]) /\ config = s.was.config
    BY <2>1, <2>3, <2>5 DEF UpgradeHeld, TargetHeld
  <2>8. s.at = 3 => Saved(s, s.was.exec, backups["service"]) /\ exec = s.was.exec
    BY <2>1, <2>2, <2>3, <2>5 DEF UpgradeHeld, TargetHeld
  <2> HIDE DEF s, f
  <2> QED
    BY <2>2, <2>4, <2>6, <2>7, <2>8 DEF s
<1>3. CASE Undo(r)
  <2>1. s.tool \in Upgrader /\ s.pc = "undo"
    BY <1>0, <1>3 DEF Undo, Phased
  <2>2. /\ s.at \in 1..3
        /\ (f = "trust" <=> s.at = 1) /\ (f = "config" <=> s.at = 2) /\ (f = "service" <=> s.at = 3)
        /\ s.at = 3 => s.tool = "fullcontrol"
    BY <2>1, TargetAt
  <2>3. UpgradeHeld(s, trust, config, exec, backups)
    BY <1>0, <2>1 DEF HeldBy
  <2>4. /\ trust' # trust => f = "trust" /\ trust' = s.was.trust
        /\ config' # config => f = "config" /\ config' = s.was.config
        /\ exec' # exec => f = "service" /\ exec' = s.was.exec
    BY <1>3 DEF Undo, Install, disk
  <2>5. Saved(s, s.was.trust, backups["trust"]) /\ Saved(s, s.was.config, backups["config"])
    BY <2>1, <2>3 DEF UpgradeHeld, TargetHeld
  <2>6. s.at = 3 => Saved(s, s.was.exec, backups["service"])
    BY <2>1, <2>2, <2>3 DEF UpgradeHeld, TargetHeld
  <2> HIDE DEF s, f
  <2> QED
    BY <2>2, <2>4, <2>5, <2>6 DEF s
<1> QED
  BY <1>1, <1>2, <1>3

\* What is replaced in place is never lost: its content, or the content that
\* replaces it, is in a complete backup, whichever step fails or dies.
THEOREM NothingReplacedIsLost == Spec => PreimageKept
<1> DEFINE A == \A kind \in Target :
          CASE kind = "trust"   -> Whole("trust") /\ trust' # trust =>
                                       \E b \in backups.trust : b.whole /\ b.was \in {trust, trust'}
            [] kind = "config"  -> Whole("config") /\ config' # config =>
                                       \E b \in backups.config : b.whole /\ b.was \in {config, config'}
            [] kind = "service" -> Whole("service") /\ exec' # exec =>
                                       \E b \in backups.service : b.whole /\ b.was \in {exec, exec'}
<1>1. RunInv /\ [Next]_vars => [A]_vars
  <2> SUFFICES ASSUME RunInv, [Next]_vars PROVE A
    OBVIOUS
  <2>0. TypeOK /\ Phases /\ FileInv /\ HeldInv
    BY DEF RunInv
  <2>1. ASSUME NEW r \in Run, Act(r) PROVE A
    <3>1. /\ Whole("trust") /\ trust' # trust =>
                \E b \in backups["trust"] : b.whole /\ b.was \in {trust, trust'}
          /\ Whole("config") /\ config' # config =>
                \E b \in backups["config"] : b.whole /\ b.was \in {config, config'}
          /\ Whole("service") /\ exec' # exec =>
                \E b \in backups["service"] : b.whole /\ b.was \in {exec, exec'}
      <4>1. /\ (Whole("trust") /\ trust' # trust) \/ (Whole("config") /\ config' # config)
               \/ (Whole("service") /\ exec' # exec) => Enroll(r) \/ Put(r) \/ Undo(r)
        BY <2>0, <2>1, Replacers
      <4>2. ASSUME NEW was, NEW kept, Saved(run[r], was, kept)
            PROVE  \E b \in kept : b.whole /\ b.was = was
        BY <4>2 DEF Saved
      <4> QED
        BY <2>0, <4>1, <4>2, ReplacedIsSaved
    <3> QED
      BY <3>1 DEF Target
  <2>2. CASE Reconcile \/ UNCHANGED vars
    BY <2>2 DEF Reconcile, vars, disk, Target
  <2> QED
    BY <2>1, <2>2 DEF Next, Act
<1> QED
  BY <1>1, InstallationHeld, PTL DEF Spec, PreimageKept

----------------------------------------------------------------------------
(* How the configuration and the service change                            *)

Bootstrapping(r) ==
    /\ run[r].tool = "bootstrap" /\ Owns(run[r]) /\ run[r].at > 5 /\ ~Whole("config")
    /\ config' = [by |-> "bootstrap", key |-> "ckey", req |-> run[r].level, ops |-> run[r].level]

Attaching(r) ==
    /\ run[r].tool = "attach" /\ Writing(run[r]) /\ ~Whole("config")
    /\ config' = Attached(r)

Asking(r) ==
    /\ run[r].tool \in Upgrader /\ run[r].pc = "put" /\ run[r].at = 2
    /\ config' = Wanted(r).config

Serving(r) ==
    /\ Owns(run[r]) /\ run[r].at > 5 /\ ~Whole("service")
    /\ exec' = (run[r].level = 3)

Executing(r) ==
    /\ run[r].tool = "fullcontrol" /\ run[r].pc = "put" /\ run[r].at = 3
    /\ exec' = TRUE

Undoing(r) == run[r].tool \in Upgrader /\ run[r].pc = "undo"

\* A file that is neither rewritten nor completed.
Remains(f) == file'[f] = file[f] \/ file'[f] # "whole"

SettingSteps(r) ==
    /\ \/ config' = config /\ Remains("config")
       \/ Bootstrapping(r) \/ Attaching(r)
       \/ Remains("config") /\ (Asking(r) \/ (Undoing(r) /\ config' = run[r].was.config))
    /\ \/ exec' = exec /\ Remains("service")
       \/ Serving(r)
       \/ Remains("service") /\ (Executing(r) \/ Undoing(r))

\* controller.json is written by bootstrap or attach, and veraport.json by a
\* provisioner; both are replaced by an upgrade only, and by its rollback.
LEMMA SettingsChange ==
    ASSUME TypeOK, Phases, FileInv, NEW r \in Run, Act(r)
    PROVE  SettingSteps(r)
<1> DEFINE s == run[r]
<1>0. /\ Phased(s) /\ Filling /\ file \in [File -> {"absent", "torn", "whole"}]
      /\ {"config", "service"} \subseteq File /\ {"config", "service"} \cap {"dirs"} = {}
  BY DEF Phases, FileInv, TypeOK, File, Root
<1>1. ASSUME config' = config, exec' = exec, Remains("config"), Remains("service")
      PROVE  SettingSteps(r)
  BY <1>1 DEF SettingSteps
<1>2. CASE Provision(r)
  <2>1. CASE FillNext(r)
    <3>1. Writing(s) /\ Current(r) = FileOf(s) /\ s.tool \in Provisioner /\ Owns(s)
      BY <1>0, <2>1, FilesInOrder DEF Current, Writing, FillNext, Owns
    <3>2. file[Current(r)] = "torn" /\ Places(s.tool, s.at, Current(r))
      BY <1>0, <2>1, <3>1, FilesInOrder DEF Filling, FillNext
    <3>3. /\ Current(r) \in {"service", "config"} => s.at > 5
          /\ Current(r) = "config" => s.tool = "bootstrap"
      BY <3>2 DEF Places
    <3>4. \A f \in {"config", "service"} : f # Current(r) => file'[f] = file[f]
      BY <1>0, <2>1 DEF FillNext, Fill, SetFile
    <3>5. /\ config' = (IF Current(r) = "config"
                        THEN [by |-> "bootstrap", key |-> "ckey", req |-> s.level, ops |-> s.level]
                        ELSE config)
          /\ exec' = (IF Current(r) = "service" THEN s.level = 3 ELSE exec)
      BY <2>1 DEF FillNext, Write
    <3>6. CASE Current(r) = "config"
      BY <3>1, <3>2, <3>3, <3>4, <3>5, <3>6 DEF SettingSteps, Bootstrapping, Remains, Whole
    <3>7. CASE Current(r) = "service"
      BY <3>1, <3>2, <3>3, <3>4, <3>5, <3>7 DEF SettingSteps, Serving, Remains, Whole
    <3>8. CASE Current(r) \notin {"config", "service"}
      BY <1>1, <3>4, <3>5, <3>8 DEF Remains
    <3> QED
      BY <3>6, <3>7, <3>8
  <2>2. CASE ~FillNext(r)
    <3>1. config' = config /\ exec' = exec
      BY <1>2, <2>2 DEF Provision, StartProvision, StartBootstrap, StartPrepare, Begin, CreateNext,
         Create, FillNextFails, FillFails, Unlink
    <3>2. \/ file' = [file EXCEPT !["dirs"] = "whole"]
          \/ \E f \in {Current(r)}, state \in {"torn", "absent"} : file' = [file EXCEPT ![f] = state]
      BY <1>2, <2>2 DEF Provision, StartProvision, StartBootstrap, StartPrepare, Begin, CreateNext,
         Create, FillNextFails, FillFails, Unlink, SetFile
    <3>3. Remains("config") /\ Remains("service")
      BY <1>0, <3>2 DEF Remains
    <3> QED
      BY <1>1, <3>1, <3>3
  <2> QED
    BY <2>1, <2>2
<1>3. CASE Recover(r)
  <2>1. CASE WriteRecoveryFile(r)
    <3>1. RecoveryFiles[s.at] \in {"gkey", "marker"}
      BY <1>0, <2>1, FilesInOrder DEF WriteRecoveryFile, Writing
    <3>2. /\ config' = config /\ exec' = exec
          /\ \E state \in {"absent", "torn", "whole"} :
                file' = [file EXCEPT ![RecoveryFiles[s.at]] = state]
      BY <2>1 DEF WriteRecoveryFile, Create, Fill, FillFails, SetFile
    <3> QED
      BY <1>0, <1>1, <3>1, <3>2 DEF Remains
  <2>2. CASE ~WriteRecoveryFile(r)
    <3>1. UNCHANGED <<file, config, exec>>
      BY <1>3, <2>2 DEF Recover, StartRecover, ReuseEnrolled, ResumeGenerated, GenerateKey,
         BackupTrust, Keep, Enroll, Install, VerifyEnrolled, RecoverFails, disk
    <3> QED
      BY <1>1, <3>1 DEF Remains
  <2> QED
    BY <2>1, <2>2
<1>4. CASE Attach(r)
  <2>1. CASE WriteAttachFile(r)
    <3> DEFINE f == AttachFiles[s.at]
    <3>1. Writing(s) /\ f = FileOf(s) /\ s.tool = "attach" /\ f # "service"
      BY <1>0, <2>1, FilesInOrder DEF WriteAttachFile, Writing
    <3>2. exec' = exec /\ \/ UNCHANGED <<file, config>>
                          \/ config' = config /\ \E state \in {"absent", "torn"} :
                                                    file' = [file EXCEPT ![f] = state]
                          \/ /\ s.pc = "fill" /\ file' = [file EXCEPT ![f] = "whole"]
                             /\ config' = IF f = "config" THEN Attached(r) ELSE config
      BY <2>1 DEF WriteAttachFile, Create, Fill, FillFails, Reuse, SetFile, disk
    <3>3. Remains("service")
      BY <1>0, <3>1, <3>2 DEF Remains
    <3>4. CASE s.pc = "fill" /\ f = "config"
      <4>1. ~Whole("config")
        BY <1>0, <3>1, <3>4 DEF Filling, Whole
      <4>2. Attaching(r) \/ (config' = config /\ Remains("config"))
        BY <1>0, <3>1, <3>2, <3>4, <4>1 DEF Attaching, Remains
      <4> QED
        BY <3>2, <3>3, <4>2 DEF SettingSteps
    <3>5. CASE ~(s.pc = "fill" /\ f = "config")
      <4>1. config' = config /\ Remains("config")
        BY <1>0, <3>2, <3>5 DEF Remains
      <4> QED
        BY <1>1, <3>2, <3>3, <4>1
    <3> QED
      BY <3>4, <3>5
  <2>2. CASE ~WriteAttachFile(r)
    <3>1. UNCHANGED <<file, config, exec>>
      BY <1>4, <2>2 DEF Attach, StartAttach, AttachLooks, disk
    <3> QED
      BY <1>1, <3>1 DEF Remains
  <2> QED
    BY <2>1, <2>2
<1>5. CASE UpgradeStep(r)
  <2> DEFINE f == Targets(s.tool)[s.at]
  <2>0. ASSUME BackupNext(r) PROVE UNCHANGED <<file, config, exec>>
    <3>1. s.tool \in Upgrader /\ s.pc = "backup"
      BY <2>0 DEF BackupNext, Upgrader
    <3>2. f \in Target
      BY <3>1, TargetAt
    <3> QED
      BY <2>0, <3>2 DEF BackupNext, Keep, Target
  <2>1. file' = file
    BY <1>5, <2>0 DEF UpgradeStep, StartUpgrade, ReadService, ReadConfig, ReadIdentity, ReadTrust,
       ReadConfigAgain, ReadServiceAgain, Recheck, UpgradeFails, Put, Install, VerifyUpgrade, Undo,
       disk
  <2>2. CASE Put(r)
    <3>1. s.tool \in Upgrader /\ s.pc = "put"
      BY <2>2 DEF Put, Upgrader
    <3>2. /\ (f = "config" <=> s.at = 2) /\ (f = "service" <=> s.at = 3)
          /\ s.at = 3 => s.tool = "fullcontrol"
      BY <3>1, TargetAt
    <3>3. /\ config' = config \/ (f = "config" /\ config' = Wanted(r).config)
          /\ exec' = exec \/ (f = "service" /\ exec' = Wanted(r).exec)
      BY <2>2 DEF Put, Install, disk
    <3>4. Wanted(r).exec = TRUE
      BY DEF Wanted
    <3> HIDE DEF f
    <3> QED
      BY <2>1, <3>1, <3>2, <3>3, <3>4 DEF SettingSteps, Asking, Executing, Remains
  <2>3. CASE Undo(r)
    <3>1. Undoing(r)
      BY <1>0, <2>3 DEF Undo, Undoing, Phased
    <3>2. config' = config \/ config' = s.was.config
      BY <2>3 DEF Undo, Install, disk
    <3> QED
      BY <2>1, <3>1, <3>2 DEF SettingSteps, Remains
  <2>4. CASE ~Put(r) /\ ~Undo(r)
    <3>1. config' = config /\ exec' = exec
      BY <1>5, <2>0, <2>4 DEF UpgradeStep, StartUpgrade, ReadService, ReadConfig, ReadIdentity,
         ReadTrust, ReadConfigAgain, ReadServiceAgain, Recheck, UpgradeFails, VerifyUpgrade, disk
    <3> QED
      BY <1>1, <2>1, <3>1 DEF Remains
  <2> QED
    BY <2>2, <2>3, <2>4
<1>6. CASE _acquire_recovery_lock(r) \/ _release_recovery_lock(r) \/ Crash(r)
  <2>1. UNCHANGED <<file, config, exec>>
    BY <1>6 DEF _acquire_recovery_lock, _release_recovery_lock, Crash, disk
  <2> QED
    BY <1>1, <2>1 DEF Remains
<1> QED
  BY <1>2, <1>3, <1>4, <1>5, <1>6 DEF Act

----------------------------------------------------------------------------
(* What a run comes to rely on                                             *)

Relies(r) ==
    /\ run[r].undid => run'[r].undid
    /\ Owns(run'[r]) /\ run'[r].at > 5 =>
          /\ Owns(run[r]) /\ run'[r].level = run[r].level
          /\ run[r].at > 5 \/ Granting(r)
    /\ run'[r].tool = "attach" /\ Writing(run'[r]) =>
          \/ run[r].tool = "attach" /\ Writing(run[r]) /\ run'[r].path = run[r].path
          \/ UNCHANGED disk /\ Whole(run'[r].path) /\ trust[holds[run'[r].path]] > 0
    /\ run'[r].tool \in Upgrader /\ run'[r].pc \notin {"service", "config"} =>
          \/ /\ run[r].tool \in Upgrader /\ run[r].pc \notin {"service", "config"}
             /\ run'[r].key = run[r].key
          \/ UNCHANGED disk /\ Whole(config.key) /\ run'[r].key = holds[config.key]
    /\ HasConfig(run'[r]) =>
          \/ HasConfig(run[r]) /\ run'[r].was.config = run[r].was.config
          \/ UNCHANGED disk /\ run'[r].was.config = config

\* A run that ends relies on nothing, and does not forget a rollback.
LEMMA ReliesOver ==
    ASSUME TypeOK, NEW r \in Run,
           End(r) \/ \E end \in {"done", "failed", "manual"} : Leave(r, end)
    PROVE  Relies(r)
<1>1. run'[r].tool = "provision" /\ ~Owns(run'[r])
  BY Ends
<1>2. run'[r] = Over(r) \/ \E end \in {"done", "failed", "manual"} : run'[r] = Leaving(r, end)
  BY DEF End, Leave, TypeOK
<1>3. run'[r].undid = run[r].undid
  BY <1>2 DEF Over, Leaving, Idle
<1> QED
  BY <1>1, <1>3 DEF Relies, Upgrader, HasConfig

\* The steps of the provisioners: a run whose trust list is written has granted
\* what its later files ask for.
LEMMA ProvisionRelies ==
    ASSUME TypeOK, Phases, FileInv, NEW r \in Run, Provision(r)
    PROVE  Relies(r)
<1> DEFINE s == run[r]
           t == run'[r]
<1>0. run \in [Run -> State] /\ s \in State /\ Phased(s) /\ s.at \in Nat
  BY RunTypes DEF TypeOK, Phases
<1>1. ASSUME t.tool \in Provisioner, t.undid = s.undid,
             Owns(t) /\ t.at > 5 => Owns(s) /\ t.level = s.level /\ (s.at > 5 \/ Granting(r))
      PROVE  Relies(r)
  BY <1>1 DEF Relies, Upgrader, Provisioner, HasConfig
<1>2. CASE StartProvision(r) \/ StartBootstrap(r) \/ StartPrepare(r)
  <2>1. \E tool \in Provisioner, level \in {2, 3} : Begin(r, tool, level)
    BY <1>2 DEF StartProvision, StartBootstrap, StartPrepare, Provisioner
  <2>2. s = Idle
    BY <1>0, <2>1 DEF Begin, Phased
  <2>3. t.tool \in Provisioner /\ t.at = 1 /\ t.undid = s.undid
    BY <1>0, <2>1, <2>2 DEF Begin, Idle
  <2> QED
    BY <1>1, <2>3
<1>3. CASE CreateNext(r)
  <2>1. t = [s EXCEPT !.pc = "fill"] /\ s.tool \in Provisioner /\ s.pc = "create"
    BY <1>0, <1>3 DEF CreateNext, Create
  <2>2. t.tool = s.tool /\ t.undid = s.undid /\ t.at = s.at /\ t.level = s.level
    BY <1>0, <2>1 DEF State
  <2>3. s.at > 5 => Owns(s)
    BY <1>0, <2>1 DEF Owns
  <2> QED
    BY <1>1, <2>1, <2>2, <2>3
<1>4. CASE FillNext(r)
  <2>1. s.tool \in Provisioner /\ s.pc = "fill" /\ NextFile(r, AfterThis(r))
    BY <1>4 DEF FillNext, Fill
  <2>2. CASE AfterThis(r) = "over"
    <3>1. End(r)
      BY <2>1, <2>2 DEF NextFile, End
    <3> QED
      BY <3>1, ReliesOver
  <2>3. CASE AfterThis(r) # "over"
    <3>1. t = [s EXCEPT !.pc = "create", !.at = @ + 1]
      BY <1>0, <2>1, <2>3 DEF NextFile, AfterThis
    <3>2. t.tool = s.tool /\ t.undid = s.undid /\ t.at = s.at + 1 /\ t.level = s.level
      BY <1>0, <3>1 DEF State
    <3>3. Owns(s)
      BY <2>1 DEF Owns
    <3>4. ASSUME s.at = 5 PROVE Granting(r)
      <4>1. Writing(s) /\ FileOf(s) = Current(r) /\ Places(s.tool, s.at, FileOf(s))
        BY <1>0, <2>1, FilesInOrder DEF Writing, Current
      <4>2. FileOf(s) = "trust"
        BY <3>4, <4>1 DEF Places
      <4> QED
        BY <1>4, <3>4, <4>1, <4>2 DEF Granting, FillNext, Write
    <3>5. t.at > 5 => s.at > 5 \/ s.at = 5
      BY <1>0, <3>2
    <3> QED
      BY <1>1, <2>1, <3>2, <3>3, <3>4, <3>5
  <2> QED
    BY <2>2, <2>3
<1>5. CASE FillNextFails(r)
  <2>1. End(r) \/ Leave(r, "failed")
    BY <1>5 DEF FillNextFails, FillFails, End, Leave
  <2> QED
    BY <2>1, ReliesOver
<1>6. CASE Unlink(r)
  <2>1. t = [s EXCEPT !.at = @ + 1] /\ s.tool = "prepare" /\ s.pc = "create" /\ s.at \in {16, 17}
    BY <1>0, <1>6 DEF Unlink, Unlinking
  <2>2. t.tool = s.tool /\ t.undid = s.undid /\ t.level = s.level
    BY <1>0, <2>1 DEF State
  <2>3. Owns(s) /\ s.at > 5
    BY <2>1 DEF Owns, Provisioner
  <2> QED
    BY <1>1, <2>1, <2>2, <2>3 DEF Provisioner
<1> QED
  BY <1>2, <1>3, <1>4, <1>5, <1>6 DEF Provision

\* The steps of recovery and attach: attach relies on a key that is enrolled.
LEMMA OthersRely ==
    ASSUME TypeOK, Phases, FileInv, NEW r \in Run, Recover(r) \/ Attach(r)
    PROVE  Relies(r)
<1> DEFINE s == run[r]
           t == run'[r]
<1>0. run \in [Run -> State] /\ s \in State /\ Phased(s)
  BY DEF TypeOK, Phases
<1>1. ASSUME t.tool = "recover", t.undid = s.undid PROVE Relies(r)
  BY <1>1 DEF Relies, Upgrader, Provisioner, Owns, HasConfig
<1>2. ASSUME t.tool = "attach", t.undid = s.undid,
             Writing(t) => \/ s.tool = "attach" /\ Writing(s) /\ t.path = s.path
                           \/ UNCHANGED disk /\ Whole(t.path) /\ trust[holds[t.path]] > 0
      PROVE  Relies(r)
  BY <1>2 DEF Relies, Upgrader, Provisioner, Owns, HasConfig
<1>3. CASE StartRecover(r)
  <2>1. s = Idle
    BY <1>0, <1>3 DEF StartRecover, Phased
  <2> QED
    BY <1>0, <1>1, <1>3, <2>1 DEF StartRecover, Idle
<1>4. CASE ReuseEnrolled(r) \/ VerifyEnrolled(r) \/ RecoverFails(r)
  BY <1>4, ReliesOver DEF ReuseEnrolled, VerifyEnrolled, RecoverFails
<1>5. CASE ResumeGenerated(r) \/ GenerateKey(r)
  <2>1. s.tool = "recover" /\ t.tool = s.tool /\ t.undid = s.undid
    BY <1>0, <1>5 DEF ResumeGenerated, GenerateKey, Looking, State
  <2> QED
    BY <1>1, <2>1
<1>6. CASE WriteRecoveryFile(r)
  <2>1. /\ s.tool = "recover"
        /\ \/ t = [s EXCEPT !.pc = "fill"]
           \/ End(r) \/ Leave(r, "failed")
           \/ \E pc \in {"backup", "create"} : t = [s EXCEPT !.pc = pc, !.at = @ + 1]
    BY <1>0, <1>6 DEF WriteRecoveryFile, Create, Fill, FillFails, NextFile, End, Leave
  <2>2. CASE End(r) \/ Leave(r, "failed")
    BY <2>2, ReliesOver
  <2>3. CASE ~(End(r) \/ Leave(r, "failed"))
    BY <1>0, <1>1, <2>1, <2>3 DEF State
  <2> QED
    BY <2>2, <2>3
<1>7. CASE BackupTrust(r)
  <2>1. s.tool = "recover" /\ (End(r) \/ run' = [run EXCEPT ![r].pc = "put"])
    BY <1>7 DEF BackupTrust, Keep
  <2>2. CASE End(r)
    BY <2>2, ReliesOver
  <2>3. CASE run' = [run EXCEPT ![r].pc = "put"]
    BY <1>0, <1>1, <2>1, <2>3 DEF State
  <2> QED
    BY <2>1, <2>2, <2>3
<1>8. CASE Enroll(r)
  <2>1. s.tool = "recover" /\ (Goto(r, "verify") \/ Leave(r, "failed"))
    BY <1>8 DEF Enroll
  <2>2. CASE Leave(r, "failed")
    BY <2>2, ReliesOver
  <2>3. CASE Goto(r, "verify")
    BY <1>0, <1>1, <2>1, <2>3 DEF Goto, State
  <2> QED
    BY <2>1, <2>2, <2>3
<1>9. CASE StartAttach(r)
  <2>1. s = Idle
    BY <1>0, <1>9 DEF StartAttach, Phased
  <2>2. t.tool = "attach" /\ t.pc = "look"
    BY <1>0, <1>9 DEF StartAttach, Idle
  <2>3. t.undid = s.undid
    BY <1>0, <1>9, <2>1 DEF StartAttach, Idle
  <2> QED
    BY <1>2, <2>2, <2>3 DEF Writing
<1>10. CASE AttachLooks(r)
  <2>1. t.tool = "attach" /\ t.undid = s.undid /\ t.path = s.path
    BY <1>0, <1>10 DEF AttachLooks, Goto, State
  <2> QED
    BY <1>2, <1>10, <2>1 DEF AttachLooks
<1>11. CASE WriteAttachFile(r)
  <2>1. /\ s.tool = "attach" /\ Writing(s)
        /\ \/ t = [s EXCEPT !.pc = "fill"]
           \/ End(r) \/ Leave(r, "failed")
           \/ \E pc \in {"create"} : t = [s EXCEPT !.pc = pc, !.at = @ + 1]
    BY <1>0, <1>11 DEF WriteAttachFile, Create, Fill, FillFails, Reuse, NextFile, Writing, End, Leave
  <2>2. CASE End(r) \/ Leave(r, "failed")
    BY <2>2, ReliesOver
  <2>3. CASE ~(End(r) \/ Leave(r, "failed"))
    <3>1. t.tool = s.tool /\ t.undid = s.undid /\ t.path = s.path
      BY <1>0, <2>1, <2>3 DEF State
    <3> QED
      BY <1>2, <2>1, <3>1
  <2> QED
    BY <2>2, <2>3
<1> QED
  BY <1>3, <1>4, <1>5, <1>6, <1>7, <1>8, <1>9, <1>10, <1>11 DEF Recover, Attach

\* The steps of the upgrades: the key is the one the configuration names, and
\* the configuration that is written back is the one that was read.
LEMMA UpgradeRelies ==
    ASSUME TypeOK, Phases, FileInv, NEW r \in Run, UpgradeStep(r)
    PROVE  Relies(r)
<1> DEFINE s == run[r]
           t == run'[r]
<1>0. run \in [Run -> State] /\ s \in State /\ Phased(s)
  BY DEF TypeOK, Phases
<1>1. ASSUME t.tool \in Upgrader, s.undid => t.undid,
             t.pc \notin {"service", "config"} =>
                 \/ s.tool \in Upgrader /\ s.pc \notin {"service", "config"} /\ t.key = s.key
                 \/ UNCHANGED disk /\ Whole(config.key) /\ t.key = holds[config.key],
             HasConfig(t) => \/ HasConfig(s) /\ t.was.config = s.was.config
                             \/ UNCHANGED disk /\ t.was.config = config
      PROVE  Relies(r)
  BY <1>1 DEF Relies, Upgrader, Provisioner, Owns
\* After the configuration was read again, all of it stays.
<1>2. ASSUME HasConfig(s), t.tool = s.tool, s.undid => t.undid, t.key = s.key, t.was = s.was
      PROVE  Relies(r)
  BY <1>1, <1>2 DEF HasConfig
<1>3. CASE StartUpgrade(r)
  <2>1. s = Idle
    BY <1>0, <1>3 DEF StartUpgrade, Phased
  <2>2. t.tool \in Upgrader /\ t.pc = "service" /\ ~s.undid
    BY <1>0, <1>3, <2>1 DEF StartUpgrade, Idle, Upgrader
  <2> QED
    BY <1>1, <2>2 DEF HasConfig
<1>4. ASSUME s.pc \in Reading PROVE s.tool \in Upgrader
  BY <1>0, <1>4 DEF Phased
<1>5. CASE ReadService(r)
  <2>1. s.pc = "service" /\ t.tool = s.tool /\ t.pc = "config" /\ t.undid = s.undid
    BY <1>0, <1>5 DEF ReadService, Goto, State
  <2> QED
    BY <1>1, <1>4, <2>1 DEF HasConfig, Reading
<1>6. CASE ReadConfig(r)
  <2>1. /\ s.pc = "config" /\ t.tool = s.tool /\ t.pc = "ident" /\ t.undid = s.undid
        /\ t.key = holds[config.key] /\ Whole(config.key) /\ UNCHANGED disk
    BY <1>0, <1>6 DEF ReadConfig, State
  <2> QED
    BY <1>1, <1>4, <2>1 DEF HasConfig, Reading
<1>7. CASE ReadIdentity(r) \/ ReadTrust(r)
  <2>1. /\ s.pc \in {"ident", "trust"} /\ t.tool = s.tool /\ t.pc \in {"trust", "config2"}
        /\ t.undid = s.undid /\ t.key = s.key
    BY <1>0, <1>7 DEF ReadIdentity, ReadTrust, State
  <2> QED
    BY <1>1, <1>4, <2>1 DEF HasConfig, Reading
<1>8. CASE ReadConfigAgain(r)
  <2>1. /\ s.pc = "config2" /\ t.tool = s.tool
        /\ t.undid = s.undid /\ t.key = s.key /\ t.was.config = config /\ UNCHANGED disk
    BY <1>0, <1>8 DEF ReadConfigAgain, State
  <2> QED
    BY <1>1, <1>4, <2>1 DEF Reading
<1>9. CASE ReadServiceAgain(r)
  <2>1. /\ s.pc = "service2" /\ t.tool = s.tool
        /\ t.undid = s.undid /\ t.key = s.key /\ t.was.config = s.was.config
    BY <1>0, <1>9 DEF ReadServiceAgain, State
  <2>2. s.tool \in Upgrader
    BY <1>4, <2>1 DEF Reading
  <2> QED
    BY <1>1, <2>1, <2>2 DEF HasConfig
<1>10. CASE Recheck(r)
  <2>1. s.pc = "recheck" /\ t.tool = s.tool /\ t.undid = s.undid /\ t.key = s.key /\ t.was = s.was
    BY <1>0, <1>10 DEF Recheck, Goto, State
  <2>2. HasConfig(s)
    BY <1>0, <2>1 DEF HasConfig, Phased
  <2> QED
    BY <1>2, <2>1, <2>2
<1>11. CASE BackupNext(r)
  <2>1. s.tool \in Upgrader /\ s.pc = "backup"
    BY <1>11 DEF BackupNext, Upgrader
  <2>2. Targets(s.tool)[s.at] \in {"trust", "config", "service"}
    BY <2>1, TargetAt DEF Target
  <2>3. \/ End(r) \/ run' = [run EXCEPT ![r].pc = "put", ![r].at = 1]
        \/ run' = [run EXCEPT ![r].at = @ + 1]
    BY <1>11, <2>2 DEF BackupNext, Keep
  <2>4. CASE End(r)
    BY <2>4, ReliesOver
  <2>5. CASE ~End(r)
    <3>1. t.tool = s.tool /\ t.undid = s.undid /\ t.key = s.key /\ t.was = s.was
      BY <1>0, <2>3, <2>5 DEF State
    <3> QED
      BY <1>2, <2>1, <3>1 DEF HasConfig
  <2> QED
    BY <2>4, <2>5
<1>12. CASE UpgradeFails(r)
  BY <1>12, ReliesOver DEF UpgradeFails
<1>13. CASE Put(r) \/ VerifyUpgrade(r)
  <2>1. s.tool \in Upgrader /\ s.pc \in {"put", "verify"} /\ HasConfig(s)
    BY <1>13 DEF Put, VerifyUpgrade, Upgrader, HasConfig
  <2>2. \/ Leave(r, "done") \/ \E g \in {{}, {Targets(s.tool)[s.at]}} : RollBack(r, g)
        \/ s.pc = "put" /\ \E g \in {{}, {Targets(s.tool)[s.at]}} : Advance(r, g)
    BY <1>13 DEF Put, VerifyUpgrade
  <2>3. CASE Leave(r, "done")
    BY <2>3, ReliesOver
  <2>4. CASE \E g \in {{}, {Targets(s.tool)[s.at]}} : RollBack(r, g)
    <3>1. t.tool = s.tool /\ t.undid /\ t.key = s.key /\ t.was = s.was
      BY <2>4, RolledBack
    <3> QED
      BY <1>2, <2>1, <3>1
  <2>5. CASE s.pc = "put" /\ \E g \in {{}, {Targets(s.tool)[s.at]}} : Advance(r, g)
    <3>1. t.tool = s.tool /\ t.undid = s.undid /\ t.key = s.key /\ t.was = s.was
      BY <2>5, Advanced
    <3> QED
      BY <1>2, <2>1, <3>1
  <2> QED
    BY <2>2, <2>3, <2>4, <2>5
<1>14. CASE Undo(r)
  <2>1. s.tool \in Upgrader /\ s.pc = "undo" /\ HasConfig(s)
    BY <1>0, <1>14 DEF Undo, HasConfig, Phased
  <2>2. Leave(r, "manual") \/ Leave(r, "failed") \/ run' = [run EXCEPT ![r].at = @ + 1]
    BY <1>14 DEF Undo, Leave
  <2>3. CASE Leave(r, "manual") \/ Leave(r, "failed")
    BY <2>3, ReliesOver
  <2>4. CASE run' = [run EXCEPT ![r].at = @ + 1]
    <3>1. t.tool = s.tool /\ t.undid = s.undid /\ t.key = s.key /\ t.was = s.was
      BY <1>0, <2>4 DEF State
    <3> QED
      BY <1>2, <2>1, <3>1
  <2> QED
    BY <2>2, <2>3, <2>4
<1> QED
  BY <1>3, <1>5, <1>6, <1>7, <1>8, <1>9, <1>10, <1>11, <1>12, <1>13, <1>14 DEF UpgradeStep

\* Every step of a run.
LEMMA RunRelies ==
    ASSUME TypeOK, Phases, FileInv, NEW r \in Run, Act(r)
    PROVE  Relies(r)
<1>0. run \in [Run -> State] /\ run[r] \in State /\ Phased(run[r])
  BY DEF TypeOK, Phases
<1>1. CASE _acquire_recovery_lock(r)
  <2>1. /\ run'[r].tool = run[r].tool /\ run'[r].undid = run[r].undid /\ run'[r].key = run[r].key
        /\ run'[r].was = run[r].was /\ run[r].pc = "lock" /\ run'[r].pc \in {"look", "recheck"}
        /\ run[r].tool \in Upgrader \cup {"recover"}
    BY <1>0, <1>1 DEF _acquire_recovery_lock, Goto, State, Phased
  <2> QED
    BY <2>1 DEF Relies, HasConfig, Upgrader, Owns, Provisioner
<1>2. CASE _release_recovery_lock(r) \/ Crash(r)
  BY <1>2, ReliesOver DEF _release_recovery_lock, Crash
<1> QED
  BY <1>1, <1>2, ProvisionRelies, OthersRely, UpgradeRelies DEF Act

----------------------------------------------------------------------------
(* Ceilings                                                                *)

\* Without a rollback no entry of the trust list is lowered.
LEMMA TrustGrows ==
    ASSUME RunInv, [Next]_vars, NobodyUndid, Whole("trust")
    PROVE  \A k \in Key : trust'[k] >= trust[k]
<1>0. /\ TypeOK /\ Phases /\ FileInv /\ KeyInv /\ HeldInv /\ trust \in [Key -> Nat]
      /\ \A r \in Run : Phased(run[r]) /\ run[r] \in State
  BY DEF RunInv, Phases, TypeOK, Level
<1>1. ASSUME NEW r \in Run, Enrolling(r) PROVE \A k \in Key : trust'[k] >= trust[k]
  <2>1. trust = run[r].was.trust /\ run[r].was.trust[run[r].key] = 0 /\ run[r].key \in Key
    BY <1>0, <1>1 DEF Enrolling, KeyInv, Aims, Meant, HeldInv, HeldBy, RecoverHeld
  <2>2. trust' = [trust EXCEPT ![run[r].key] = 1]
    BY <1>1, <2>1 DEF Enrolling
  <2> QED
    BY <1>0, <2>1, <2>2
<1>2. ASSUME NEW r \in Run, Raising(r) PROVE \A k \in Key : trust'[k] >= trust[k]
  <2>1. run[r].tool \in Upgrader /\ run[r].pc = "put" /\ run[r].at = 1
    BY <1>2 DEF Raising
  <2>2. run[r].key \in Key /\ run[r].was.trust[run[r].key] \in Sources(run[r].tool)
    BY <1>0, <2>1 DEF KeyInv, Aims, Meant, HasTrust, Upgrader
  <2>3. trust = run[r].was.trust
    BY <1>0, <2>1 DEF HeldInv, HeldBy, UpgradeHeld, TargetHeld, Noted
  <2>4. trust' = [trust EXCEPT ![run[r].key] = Goal(run[r].tool)]
    BY <1>2, <2>3 DEF Raising, Raised
  <2>5. trust[run[r].key] <= Goal(run[r].tool) /\ Goal(run[r].tool) \in Nat
    BY <2>2, <2>3 DEF Sources, Goal
  <2> QED
    BY <1>0, <2>2, <2>4, <2>5
<1>3. ASSUME NEW r \in Run PROVE ~Restoring(r)
  BY <1>0 DEF Restoring, Phased, NobodyUndid
<1>4. ASSUME NEW r \in Run PROVE ~Granting(r)
  <2> SUFFICES ASSUME Granting(r) PROVE FALSE
    OBVIOUS
  <2>1. run[r].pc = "fill" /\ FileOf(run[r]) = "trust"
    BY DEF Granting, FillNext
  <2> QED
    BY <1>0, <2>1 DEF FileInv, Filling, Whole
<1>5. CASE trust' = trust
  BY <1>0, <1>5
<1> QED
  BY <1>0, <1>1, <1>2, <1>3, <1>4, <1>5, TrustSteps DEF TrustStays

\* Once the trust list is whole the controller's private key is not made again.
LEMMA ControllerKeyStays ==
    ASSUME TypeOK, Phases, FileInv, NEW r \in Run, Step(r), Whole("trust"), file'["ckey"] = "whole"
    PROVE  Whole("ckey") /\ holds'["ckey"] = holds["ckey"]
<1>0. /\ file \in [File -> {"absent", "torn", "whole"}] /\ "ckey" \in Identity /\ "trust" \in Identity
      /\ "ckey" \in File \ {"dirs"} /\ Phased(run[r])
  BY DEF TypeOK, File, Identity, Phases
<1> SUFFICES ASSUME file'["ckey"] # file["ckey"] \/ holds'["ckey"] # holds["ckey"] PROVE FALSE
  BY DEF Whole
<1>1. /\ "ckey" = FileOf(run[r]) /\ run[r].tool \in Provisioner /\ Writing(run[r])
      /\ Places(run[r].tool, run[r].at, "ckey") /\ run[r].at \in Nat /\ Owns(run[r])
  <2>1. ~\A g \in Identity : file[g] = "absent"
    BY <1>0 DEF Whole
  <2> QED
    BY <1>0, <2>1, IdentityTouched
<1>2. run[r].at # 3
  BY <1>1 DEF FileInv, Owned, Whole
<1>3. run[r].tool = "prepare" /\ run[r].at = 16
  BY <1>1, <1>2 DEF Places
<1>4. Creates(r) \/ Fills(r) \/ Unmakes(r) \/ Unlinks(r)
  BY <1>0, Touches
<1> QED
  BY <1>0, <1>1, <1>3, <1>4 DEF Phased, Creates, Fills, Unmakes, Unlinks, SetFile

\* The key a whole configuration names stays the same, and is not made again.
NamedKeyStays ==
    /\ Whole("trust") => file'["trust"] = "whole"
    /\ Whole("gkey") => file'["gkey"] = "whole" /\ holds'["gkey"] = holds["gkey"]
    /\ Whole("trust") /\ file'["ckey"] = "whole" => Whole("ckey") /\ holds'["ckey"] = holds["ckey"]
    /\ Whole("config") => /\ file'["config"] = "whole" /\ config'.key = config.key
                          /\ file'[config.key] = "whole" =>
                                Whole(config.key) /\ holds'[config.key] = holds[config.key]

\* No step of any tool takes the named key from a configuration.
LEMMA NamedKey ==
    ASSUME RunInv, ConfiguredKey, NEW r \in Run, Act(r)
    PROVE  NamedKeyStays
<1>0. TypeOK /\ Phases /\ FileInv /\ Step(r) /\ SettingSteps(r) /\ config \in Config
  BY RunSteps, SettingsChange DEF RunInv, FileInv, TypeOK
<1>1. {"trust", "gkey", "config"} \subseteq File \ {"dirs", "ckey", "cpub"}
  BY DEF File, Identity, Root
<1>2. \A f \in {"trust", "gkey", "config"} :
          Whole(f) => file'[f] = "whole" /\ holds'[f] = holds[f]
  BY <1>0, <1>1, WholeStays DEF Whole
<1>3. Whole("trust") /\ file'["ckey"] = "whole" => Whole("ckey") /\ holds'["ckey"] = holds["ckey"]
  BY <1>0, ControllerKeyStays
<1>4. ASSUME Whole("config") PROVE config'.key = config.key
  <2>1. Configures(run[r]) /\ run[r] \in State
    BY <1>0 DEF ConfiguredKey, TypeOK
  <2>2. CASE config' = config
    BY <2>2
  <2>3. CASE Asking(r)
    <3>1. run[r].was.config.key = config.key /\ run[r].was.config \in Config
      BY <2>1, <2>3 DEF Asking, Configures, HasConfig, State
    <3> QED
      BY <2>3, <3>1 DEF Asking, Wanted, Config
  <2>4. CASE Undoing(r) /\ config' = run[r].was.config
    BY <2>1, <2>4 DEF Undoing, Configures, HasConfig
  <2> QED
    BY <1>0, <1>4, <2>2, <2>3, <2>4 DEF SettingSteps, Bootstrapping, Attaching
<1>5. ASSUME Whole("config"), file'[config.key] = "whole"
      PROVE  Whole(config.key) /\ holds'[config.key] = holds[config.key]
  <2>1. Whole("trust")
    BY <1>0, <1>5 DEF FileInv, Built, Whole
  <2>2. CASE config.key = "gkey"
    BY <1>2, <1>5, <2>2 DEF ConfiguredKey
  <2>3. CASE config.key = "ckey"
    BY <1>3, <1>5, <2>1, <2>3
  <2> QED
    BY <1>0, <2>2, <2>3 DEF Config
<1> QED
  BY <1>2, <1>3, <1>4, <1>5 DEF NamedKeyStays

\* What the runs assume about the configured key is kept.
LEMMA ConfiguredKeeps ==
    ASSUME RunInv, ConfiguredKey, NEW r \in Run, Act(r)
    PROVE  ConfiguredKey'
<1>0. /\ TypeOK /\ Phases /\ FileInv /\ Step(r) /\ SettingSteps(r) /\ Relies(r) /\ NamedKeyStays
      /\ Built /\ \A q \in Run : Configures(run[q]) /\ BuiltRun(run[q])
  BY RunSteps, SettingsChange, RunRelies, NamedKey DEF RunInv, FileInv, Built, ConfiguredKey
<1>1. ASSUME file'["config"] = "whole", config'.key = "gkey" PROVE file'["gkey"] = "whole"
  <2>1. CASE Whole("config")
    BY <1>0, <1>1, <2>1 DEF NamedKeyStays, ConfiguredKey
  <2>2. CASE ~Whole("config")
    <3>1. ~Remains("config")
      BY <1>1, <2>2 DEF Remains, Whole
    <3>2. Bootstrapping(r) \/ Attaching(r)
      BY <1>0, <3>1 DEF SettingSteps
    <3>3. Attaching(r)
      BY <1>1, <3>2 DEF Bootstrapping
    <3>4. Whole("gkey")
      BY <1>0, <1>1, <3>3 DEF Attaching, Attached, Configures
    <3> QED
      BY <1>0, <3>4 DEF NamedKeyStays
  <2> QED
    BY <2>1, <2>2
<1>2. ASSUME NEW s, Configures(s), BuiltRun(s)
      PROVE  /\ s.tool = "attach" /\ Writing(s) /\ s.path = "gkey" => file'["gkey"] = "whole"
             /\ s.tool \in Upgrader /\ s.pc \notin {"service", "config"} =>
                   (file'[config'.key] = "whole" => holds'[config'.key] = s.key)
             /\ HasConfig(s) => s.was.config.key = config'.key
  <2>1. s.tool = "attach" /\ Writing(s) /\ s.path = "gkey" => file'["gkey"] = "whole"
    BY <1>0, <1>2 DEF Configures, NamedKeyStays
  <2>2. ASSUME s.tool \in Upgrader, s.pc \notin {"service", "config"}
        PROVE  /\ config'.key = config.key
               /\ file'[config'.key] = "whole" => holds'[config'.key] = s.key
    <3>1. Whole("config")
      BY <1>2, <2>2 DEF BuiltRun
    <3> QED
      BY <1>0, <1>2, <2>2, <3>1 DEF Configures, NamedKeyStays
  <2>3. HasConfig(s) => s.was.config.key = config'.key
    BY <1>2, <2>2 DEF HasConfig, Configures
  <2> QED
    BY <2>1, <2>2, <2>3
<1>3. ASSUME NEW q \in Run
      PROVE  /\ run'[q].tool = "attach" /\ Writing(run'[q]) /\ run'[q].path = "gkey" =>
                   file'["gkey"] = "whole"
             /\ run'[q].tool \in Upgrader /\ run'[q].pc \notin {"service", "config"} =>
                   (file'[config'.key] = "whole" => holds'[config'.key] = run'[q].key)
             /\ HasConfig(run'[q]) => run'[q].was.config.key = config'.key
  <2>1. CASE q # r
    <3>1. run'[q] = run[q]
      BY <1>0, <2>1 DEF Step, Others
    <3> QED
      BY <1>0, <1>2, <3>1
  <2>2. CASE q = r
    <3>1. /\ run[r].tool = "attach" /\ Writing(run[r]) /\ run[r].path = "gkey" => file'["gkey"] = "whole"
          /\ run[r].tool \in Upgrader /\ run[r].pc \notin {"service", "config"} =>
                (file'[config'.key] = "whole" => holds'[config'.key] = run[r].key)
          /\ HasConfig(run[r]) => run[r].was.config.key = config'.key
      BY <1>0, <1>2
    <3>2. UNCHANGED disk => file' = file /\ holds' = holds /\ config' = config
      BY DEF disk
    <3>3. run'[r].tool = "attach" /\ Writing(run'[r]) /\ run'[r].path = "gkey" =>
              file'["gkey"] = "whole"
      BY <1>0, <3>1, <3>2 DEF Relies, Whole
    <3>4. run'[r].tool \in Upgrader /\ run'[r].pc \notin {"service", "config"} =>
              (file'[config'.key] = "whole" => holds'[config'.key] = run'[r].key)
      BY <1>0, <3>1, <3>2 DEF Relies
    <3>5. HasConfig(run'[r]) => run'[r].was.config.key = config'.key
      BY <1>0, <3>1, <3>2 DEF Relies
    <3> QED
      BY <2>2, <3>3, <3>4, <3>5
  <2> QED
    BY <2>1, <2>2
<1> QED
  BY <1>1, <1>3 DEF ConfiguredKey, Configures, HasConfig, Writing, Whole

\* No step, without a rollback, makes anything rely on a ceiling that is not
\* granted: the trust list comes first, and an upgrade raises it first.
LEMMA CeilingsKeep ==
    ASSUME RunInv, TypeOK', ConfiguredKey, NobodyUndid, Ceilings, NEW r \in Run, Act(r)
    PROVE  Ceilings'
<1> DEFINE s == run[r]
<1>0. /\ TypeOK /\ Phases /\ FileInv /\ HeldInv /\ Step(r) /\ SettingSteps(r) /\ Relies(r)
      /\ NamedKeyStays /\ Built /\ \A q \in Run : Entitled(q, run[q]) /\ BuiltRun(run[q])
  BY RunSteps, SettingsChange, RunRelies, NamedKey DEF RunInv, FileInv, Built, Ceilings
<1>1. /\ s \in State /\ Phased(s) /\ ~Undoing(r) /\ s.at \in Nat /\ s.level \in Nat
      /\ config \in Config /\ r \in Key
      /\ \A k \in Key : trust[k] \in 0..3 /\ trust'[k] \in 0..3
  BY <1>0, RunTypes DEF TypeOK, Phases, Phased, Undoing, NobodyUndid, State, Level, Key
<1>2. Whole("trust") => \A k \in Key : trust'[k] >= trust[k]
  BY TrustGrows DEF Act, Next
<1>3. /\ Whole("ckey") => holds["ckey"] \in Key
      /\ Whole("gkey") => holds["gkey"] \in Key
  BY <1>0 DEF FileInv, Keys
\* The trust list is written: its run's key is there, and is granted its level.
<1>4. ASSUME Granting(r)
      PROVE  /\ ~Whole("trust") /\ trust'[r] = s.level /\ s.level >= 2
             /\ Whole("ckey") /\ holds["ckey"] = r
             /\ holds'["ckey"] = holds["ckey"] /\ file'["ckey"] = "whole"
  <2>1. s.pc = "fill" /\ s.tool \in Provisioner /\ FileOf(s) = "trust" /\ s.at = 5
    BY <1>4 DEF Granting, FillNext
  <2>2. ~Whole("trust")
    BY <1>0, <2>1 DEF FileInv, Filling, Whole
  <2>3. s.level \in {2, 3}
    BY <1>1, <2>1 DEF Phased, Writing
  <2>4. trust'[r] = s.level
    BY <1>1, <1>4 DEF Granting, NoTrust
  <2>5. Whole("ckey") /\ holds["ckey"] = r
    <3>1. Owns(s) /\ ~Removed(s) /\ s.at > 3
      BY <2>1 DEF Owns, Removed
    <3> QED
      BY <1>0, <3>1 DEF FileInv, Owned
  <2>6. file'["ckey"] = file["ckey"] /\ holds'["ckey"] = holds["ckey"]
    <3>1. "ckey" \in File \ {"dirs"}
      BY DEF File, Identity
    <3> QED
      BY <1>0, <2>1, <3>1, Touches
  <2> QED
    BY <2>2, <2>3, <2>4, <2>5, <2>6 DEF Whole
<1>5. ASSUME ~Whole("trust"), file'["trust"] = "whole" PROVE Granting(r)
  <2>1. "trust" \in File \ {"dirs"} /\ file \in [File -> {"absent", "torn", "whole"}]
    BY <1>0 DEF File, Identity, TypeOK
  <2>2. FileOf(s) = "trust" /\ Writing(s) /\ (Creates(r) \/ Fills(r) \/ Unmakes(r) \/ Unlinks(r))
    BY <1>0, <1>5, <2>1, Touches DEF Whole
  <2>3. s.pc = "fill"
    BY <1>5, <2>1, <2>2 DEF Creates, Fills, Unmakes, Unlinks, SetFile
  <2>4. s.tool \in Provisioner /\ s.at = 5
    BY <1>1, <2>2, FilesInOrder DEF Phased, Places
  <2>5. FillNext(r)
    <3>1. file' # file
      BY <1>5 DEF Whole
    <3>2. ~FillNextFails(r)
      BY <1>1, <1>5, <2>1, <2>2, <2>3, <2>4, FilesInOrder
      DEF FillNextFails, FillFails, SetFile, Current
    <3> QED
      BY <2>3, <2>4, <3>1, <3>2 DEF Act, Provision, StartProvision, StartBootstrap, StartPrepare,
         Begin, CreateNext, Create, Unlink, Recover, StartRecover, ReuseEnrolled, ResumeGenerated,
         GenerateKey, Looking, WriteRecoveryFile, BackupTrust, Enroll, VerifyEnrolled, RecoverFails,
         Attach, StartAttach, AttachLooks, WriteAttachFile, UpgradeStep, StartUpgrade, ReadService,
         ReadConfig, ReadIdentity, ReadTrust, ReadConfigAgain, ReadServiceAgain, Recheck, BackupNext,
         UpgradeFails, Put, VerifyUpgrade, Undo, _acquire_recovery_lock, _release_recovery_lock,
         Crash, Provisioner, disk
  <2>6. FileOf(s) = Current(r)
    BY <1>1, <2>2, <2>4, FilesInOrder DEF Current
  <2> QED
    BY <2>2, <2>4, <2>5, <2>6 DEF Granting, FillNext, Write
\* The entry of the controller's key.
<1>6. ASSUME file'["ckey"] = "whole", file'["trust"] = "whole" PROVE trust'[holds'["ckey"]] >= 1
  <2>1. CASE Whole("trust")
    <3>1. Whole("ckey") /\ holds'["ckey"] = holds["ckey"]
      BY <1>0, <1>6, <2>1 DEF NamedKeyStays
    <3>2. trust[holds["ckey"]] >= 1
      BY <2>1, <3>1 DEF Ceilings
    <3> QED
      BY <1>1, <1>2, <1>3, <2>1, <3>1, <3>2
  <2>2. CASE ~Whole("trust")
    BY <1>1, <1>4, <1>5, <1>6, <2>2
  <2> QED
    BY <2>1, <2>2
\* What a run has been granted.
<1>7. ASSUME NEW q \in Run
      PROVE  /\ Owns(run'[q]) /\ run'[q].at > 5 => trust'[q] >= run'[q].level
             /\ run'[q].tool = "attach" /\ Writing(run'[q]) /\ run'[q].path = "gkey" =>
                   trust'[holds'["gkey"]] >= 1
  <2>0. run[q].level \in Nat /\ q \in Key
    <3>1. run[q] \in State
      BY <1>0 DEF TypeOK
    <3>2. run[q].level \in 0..3
      BY <3>1 DEF State, Level
    <3>3. q \in Key
      BY DEF Key
    <3> QED
      BY <3>2, <3>3
  <2>1. Owns(run[q]) /\ run[q].at > 5 => trust'[q] >= run[q].level
    <3> SUFFICES ASSUME Owns(run[q]), run[q].at > 5 PROVE trust'[q] >= run[q].level
      OBVIOUS
    <3>1. Whole("trust")
      BY <1>0 DEF FileInv, Owned
    <3>2. trust[q] >= run[q].level
      BY <1>0 DEF Entitled
    <3> QED
      BY <1>1, <1>2, <2>0, <3>1, <3>2
  <2>2. run[q].tool = "attach" /\ Writing(run[q]) /\ run[q].path = "gkey" =>
            trust'[holds'["gkey"]] >= 1
    <3> SUFFICES ASSUME run[q].tool = "attach", Writing(run[q]), run[q].path = "gkey"
                 PROVE  trust'[holds'["gkey"]] >= 1
      OBVIOUS
    <3>1. Whole("trust") /\ Whole("gkey") /\ trust[holds["gkey"]] >= 1
      BY <1>0 DEF BuiltRun, ConfiguredKey, Configures, Entitled
    <3>2. holds'["gkey"] = holds["gkey"]
      BY <1>0, <3>1 DEF NamedKeyStays
    <3> QED
      BY <1>1, <1>2, <1>3, <3>1, <3>2
  <2>3. CASE q # r
    <3>1. run'[q] = run[q]
      BY <1>0, <2>3 DEF Step, Others
    <3> QED
      BY <2>1, <2>2, <3>1
  <2>4. CASE q = r
    <3>1. Owns(run'[r]) /\ run'[r].at > 5 => trust'[r] >= run'[r].level
      <4> SUFFICES ASSUME Owns(run'[r]), run'[r].at > 5 PROVE trust'[r] >= run'[r].level
        OBVIOUS
      <4>1. Owns(s) /\ run'[r].level = s.level /\ (s.at > 5 \/ Granting(r))
        BY <1>0 DEF Relies
      <4>2. Granting(r) => trust'[r] >= s.level
        BY <1>1, <1>4
      <4> QED
        BY <2>1, <2>4, <4>1, <4>2
    <3>2. run'[r].tool = "attach" /\ Writing(run'[r]) /\ run'[r].path = "gkey" =>
              trust'[holds'["gkey"]] >= 1
      <4>1. UNCHANGED disk /\ Whole("gkey") /\ trust[holds["gkey"]] > 0 =>
                trust'[holds'["gkey"]] >= 1
        BY <1>1, <1>3 DEF disk
      <4> QED
        BY <1>0, <2>2, <2>4, <4>1 DEF Relies
    <3> QED
      BY <2>4, <3>1, <3>2
  <2> QED
    BY <2>3, <2>4
\* What the configuration asks for.
<1>8. ASSUME file'["config"] = "whole", file'[config'.key] = "whole"
      PROVE  config'.req <= trust'[holds'[config'.key]]
  <2>1. CASE Whole("config")
    <3>1. /\ config'.key = config.key /\ Whole(config.key)
          /\ holds'[config.key] = holds[config.key] /\ Whole("trust") /\ config.key \in {"ckey", "gkey"}
      BY <1>0, <1>1, <1>8, <2>1 DEF NamedKeyStays, Built, Whole, Config
    <3>2. holds[config.key] \in Key /\ config.req <= trust[holds[config.key]] /\ config.req \in Nat
      BY <1>1, <1>3, <2>1, <3>1 DEF Ceilings, Config
    <3>3. CASE config' = config
      BY <1>1, <1>2, <3>1, <3>2, <3>3
    <3>4. CASE Asking(r)
      <4>1. s.tool \in Upgrader /\ s.pc = "put" /\ s.at = 2
        BY <3>4 DEF Asking
      <4>2. trust = Raised(s) /\ holds[config.key] = s.key
        BY <1>0, <3>1, <4>1
        DEF HeldInv, HeldBy, UpgradeHeld, Noted, ConfiguredKey, Configures, Upgrader
      <4>3. s.was.trust \in [Key -> Level] /\ s.was.config \in Config /\ s.key \in Key
        BY <1>1, <3>2, <4>2 DEF State
      <4>4. trust[s.key] = Goal(s.tool)
        BY <4>2, <4>3 DEF Raised
      <4>5. config'.req = Goal(s.tool) /\ Goal(s.tool) \in Nat
        BY <3>4, <4>3 DEF Asking, Wanted, Config, Goal
      <4> QED
        BY <1>1, <1>2, <3>1, <4>2, <4>3, <4>4, <4>5
    <3> QED
      BY <1>0, <1>1, <2>1, <3>3, <3>4 DEF SettingSteps, Bootstrapping, Attaching
  <2>2. CASE ~Whole("config")
    <3>1. ~Remains("config")
      BY <1>8, <2>2 DEF Remains, Whole
    <3>2. CASE Bootstrapping(r)
      <4>1. s.tool = "bootstrap" /\ Owns(s) /\ s.at > 5 /\ config'.key = "ckey"
            /\ config'.req = s.level
        BY <3>2 DEF Bootstrapping
      <4>2. Whole("trust") /\ holds["ckey"] = r
        BY <1>0, <1>1, <4>1 DEF FileInv, Owned, Removed
      <4>3. holds'["ckey"] = r
        BY <1>0, <1>8, <4>1, <4>2 DEF NamedKeyStays
      <4>4. trust[r] >= s.level
        BY <1>0, <4>1 DEF Entitled
      <4> QED
        BY <1>1, <1>2, <4>1, <4>2, <4>3, <4>4
    <3>3. CASE Attaching(r)
      <4>1. /\ s.tool = "attach" /\ Writing(s) /\ config'.key = s.path /\ config'.req = 1
            /\ s.path \in {"ckey", "gkey"}
        BY <1>1, <3>3 DEF Attaching, Attached, State
      <4>2. Whole("trust")
        BY <1>0, <4>1 DEF BuiltRun
      <4>3. CASE s.path = "ckey"
        BY <1>0, <1>6, <1>8, <4>1, <4>2, <4>3 DEF NamedKeyStays
      <4>4. CASE s.path = "gkey"
        <5>1. Whole("gkey") /\ trust[holds["gkey"]] >= 1
          BY <1>0, <4>1, <4>4 DEF ConfiguredKey, Configures, Entitled
        <5>2. holds'["gkey"] = holds["gkey"]
          BY <1>0, <5>1 DEF NamedKeyStays
        <5> QED
          BY <1>1, <1>2, <1>3, <4>1, <4>2, <4>4, <5>1, <5>2
      <4>5. trust'[holds'[config'.key]] >= 1
        BY <4>1, <4>3, <4>4
      <4> QED
        BY <4>1, <4>5
    <3> QED
      BY <1>0, <3>1, <3>2, <3>3 DEF SettingSteps
  <2> QED
    BY <2>1, <2>2
\* Whether the service runs processes.
<1>9. ASSUME file'["service"] = "whole", exec' PROVE \E k \in Key : trust'[k] = 3
  <2>1. ASSUME NEW k \in Key, trust[k] = 3, Whole("trust") PROVE \E j \in Key : trust'[j] = 3
    BY <1>1, <1>2, <2>1
  <2>2. CASE exec' = exec /\ Whole("service")
    <3>1. Whole("trust") /\ \E k \in Key : trust[k] = 3
      BY <1>0, <1>9, <2>2 DEF Built, Ceilings
    <3> QED
      BY <2>1, <3>1
  <2>3. CASE Serving(r)
    <3>1. Owns(s) /\ s.at > 5 /\ s.level = 3
      BY <1>9, <2>3 DEF Serving
    <3>2. Whole("trust") /\ trust[r] >= 3
      BY <1>0, <3>1 DEF FileInv, Owned, Entitled
    <3>3. trust[r] = 3
      BY <1>1, <3>2
    <3> QED
      BY <1>1, <2>1, <3>2, <3>3
  <2>4. CASE Executing(r)
    <3>1. s.tool = "fullcontrol" /\ s.pc = "put" /\ s.at = 3
      BY <2>4 DEF Executing
    <3>2. trust = Raised(s) /\ Whole("trust")
      BY <1>0, <3>1
      DEF HeldInv, HeldBy, UpgradeHeld, Noted, Upgrader, BuiltRun, Built, Whole
    <3>3. s.was.trust \in [Key -> Level] /\ s.key \in Key
      <4>1. Meant(r, s)
        BY DEF RunInv, KeyInv, Aims
      <4> QED
        BY <1>1, <3>1, <4>1 DEF State, Meant, Upgrader
    <3>4. trust[s.key] = 3
      BY <3>1, <3>2, <3>3 DEF Raised, Goal
    <3> QED
      BY <2>1, <3>2, <3>3, <3>4
  <2>5. exec' = exec /\ ~Whole("service") => ~Remains("service")
    BY <1>9 DEF Remains, Whole
  <2> QED
    BY <1>0, <1>1, <2>2, <2>3, <2>4, <2>5 DEF SettingSteps
<1> QED
  BY <1>6, <1>7, <1>8, <1>9 DEF Ceilings, Entitled, Owns, Writing, Whole

\* Every step keeps what the ceilings rest on: no step takes back that a
\* rollback has begun, so before one every step finds the ceilings in place.
LEMMA GrantKeeps ==
    ASSUME RunInv, TypeOK', GrantInv, [Next]_vars
    PROVE  GrantInv'
<1>1. ASSUME NEW r \in Run, Act(r) PROVE GrantInv'
  <2>1. ConfiguredKey'
    BY <1>1, ConfiguredKeeps DEF GrantInv
  <2>2. NobodyUndid' => NobodyUndid
    <3>1. Relies(r) /\ Others(r)
      BY <1>1, RunRelies, RunSteps DEF RunInv, FileInv, Step
    <3>2. ASSUME NobodyUndid', NEW q \in Run PROVE ~run[q].undid
      BY <3>1, <3>2 DEF Relies, Others, NobodyUndid
    <3> QED
      BY <3>2 DEF NobodyUndid
  <2>3. NobodyUndid' => Ceilings'
    BY <1>1, <2>2, CeilingsKeep DEF GrantInv
  <2> QED
    BY <2>1, <2>3 DEF GrantInv
<1>2. CASE Reconcile \/ UNCHANGED vars
  <2>1. UNCHANGED <<file, holds, trust, config, exec, run>>
    BY <1>2 DEF Reconcile, vars, disk
  <2> QED
    BY <2>1 DEF GrantInv, ConfiguredKey, Configures, HasConfig, Ceilings, Entitled,
       NobodyUndid, Owns, Writing, Whole
<1> QED
  BY <1>1, <1>2 DEF Next, Act

\* A new installation asks for nothing, and the two an earlier run made ask for
\* what that run granted.
LEMMA GrantsAtFirst == Init => GrantInv
<1> SUFFICES ASSUME Init PROVE GrantInv
  OBVIOUS
<1>1. \A r \in Run : run[r].tool = "provision" /\ run[r].pc = "idle"
  BY IdleIsPhased DEF Init
<1>2. \A r \in Run : Configures(run[r]) /\ Entitled(r, run[r])
  BY <1>1 DEF Configures, Entitled, HasConfig, Writing, Owns, Upgrader
<1>3. CASE Blank
  <2>1. ~Whole("config") /\ ~Whole("service") /\ ~Whole("trust")
    BY <1>3 DEF Blank, Whole, File, Identity, Root
  <2> QED
    BY <1>2, <2>1 DEF GrantInv, ConfiguredKey, Ceilings
<1>4. ASSUME NEW p \in Past, BootstrappedBy(p) PROVE GrantInv
  <2>1. config.key = "ckey" /\ config.req = 2 /\ ~exec
    BY <1>4 DEF BootstrappedBy
  <2>2. holds["ckey"] = p
    BY <1>4 DEF BootstrappedBy, File, Identity
  <2>3. trust[p] = 2
    BY <1>4 DEF BootstrappedBy, NoTrust, Key
  <2> QED
    BY <1>2, <2>1, <2>2, <2>3 DEF GrantInv, ConfiguredKey, Ceilings
<1>5. ASSUME NEW p \in Past, NEW q \in Past, p # q, AttachedBy(p, q) PROVE GrantInv
  <2>1. config.key = "gkey" /\ config.req = 1 /\ ~exec
    BY <1>5 DEF AttachedBy
  <2>2. holds["gkey"] = q /\ Whole("gkey") /\ ~Whole("ckey")
    BY <1>5 DEF AttachedBy, Whole, File, Root, Identity, Export
  <2>3. trust[q] = 1
    BY <1>5 DEF AttachedBy, NoTrust, Key
  <2> QED
    BY <1>2, <2>1, <2>2, <2>3 DEF GrantInv, ConfiguredKey, Ceilings
<1> QED
  BY <1>3, <1>4, <1>5 DEF Init

\* The inductive invariant of an installation: what its files hold, what its
\* runs rely on and, until a rollback begins, what they have been granted.
THEOREM InstallationInvariant == Spec => []Inv
<1>1. Init => GrantInv
  BY GrantsAtFirst
<1>2. RunInv /\ RunInv' /\ GrantInv /\ [Next]_vars => GrantInv'
  BY GrantKeeps DEF RunInv
<1>3. Inv <=> RunInv /\ GrantInv
  BY DEF Inv
<1> QED
  BY <1>1, <1>2, <1>3, InstallationHeld, PTL DEF Spec

\* Until some rollback begins, nothing relies on a ceiling that is not granted:
\* the configuration asks for no more than the trust list gives its key, and
\* the service runs processes only when some controller may, whichever runs die
\* and in whatever order they wrote.
THEOREM GrantsPrecedeUse == Spec => []GrantedBeforeUsed
<1>1. Inv => GrantedBeforeUsed
  BY DEF Inv, GrantInv, NobodyUndid, Ceilings, GrantedBeforeUsed
<1> QED
  BY <1>1, InstallationInvariant, PTL

============================================================================
