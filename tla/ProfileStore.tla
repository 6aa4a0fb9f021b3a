---------------------------- MODULE ProfileStore ----------------------------
(***************************************************************************)
(* The profiles of one browser (web/src/profiles.ts): the registry, kept   *)
(* in a file and in a localStorage mirror; the boot that moves an          *)
(* installation from before profiles into /profiles/default, guarded by a  *)
(* progress marker; the boot that repairs a lost registry; and the calls   *)
(* that change the registry, which each read it, compute and write it back *)
(* with awaits in between.  The page may be killed between any two steps,  *)
(* and a file being written is unreadable until its writer closes it.      *)
(*                                                                         *)
(* A registry is a function from the names of profiles to their ids; a     *)
(* file that is missing, empty or corrupt reads as no registry at all.     *)
(* One File stands for one entry of the origin root.                       *)
(***************************************************************************)
EXTENDS Naturals, FiniteSets

CONSTANTS File,        \* the entries at the origin root before profiles
          Profile,     \* the names of profiles
          Default,     \* DEFAULT_PROFILE
          ProfileId,   \* the ids newProfileId may return
          MaxUpsets,   \* bound on the crashes and failed writes
          MaxCalls     \* bound on the calls that change the registry

ASSUME StoreAssumption ==
  /\ Default \in Profile
  /\ IsFiniteSet(File) /\ IsFiniteSet(Profile) /\ IsFiniteSet(ProfileId)
  /\ MaxUpsets \in Nat /\ MaxCalls \in Nat

VARIABLES root,     \* the originals still at the origin root
          dest,     \* each original's copy in /profiles/default
          marker,   \* migration.json: [there, copied]
          file,     \* profiles.json
          mirror,   \* localStorage "bob:profile-registry"
          latest,   \* history: the mirror, had no write of it been refused
          dirs,     \* the directories below /profiles
          boot,     \* the page: where its boot is, and what it holds
          cache,    \* main.ts profileRegistry, the page's own copy
          ops,      \* the registry changes under way
          known,    \* history: the profiles whose creation was reported done
          misled,   \* history: a registry was computed from one that was not
                    \* the latest (see KeepsProfiles)
          upsets, calls

storeVars == <<root, dest, marker, file, mirror, latest, dirs, boot, cache, ops, known,
               misled, upsets, calls>>

(* A registry gives no id twice (parseProfileRegistry repairs one that does).*)
Registry   == {reg \in UNION {[names -> ProfileId] : names \in SUBSET Profile} :
                 \A p, q \in DOMAIN reg : reg[p] = reg[q] => p = q}
NoRegistry == [p \in {} |-> CHOOSE i \in ProfileId : TRUE]
NoMarker   == [there |-> FALSE, copied |-> {}]
Off        == [pc |-> "off", why |-> "none", names |-> {}, copied |-> {},
               reg |-> NoRegistry]

(***************************************************************************)
(* What a reader gets: the file, or the mirror when the file is unusable.  *)
(***************************************************************************)
ReadRegistry == IF file # NoRegistry THEN file ELSE mirror

(* What it would get had no write of the mirror been refused.               *)
Current == IF file # NoRegistry THEN file ELSE latest

IdsOf(reg) == {reg[p] : p \in DOMAIN reg}

(* newProfileId: ids nothing on this device holds, a different one each.    *)
NewIds(names) ==
  LET held == IdsOf(file) \cup IdsOf(mirror) \cup IdsOf(latest) \cup IdsOf(known) \cup IdsOf(boot.reg)
              \cup UNION {IdsOf(op.base) \cup {op.id} : op \in ops}
  IN CHOOSE f \in [names -> ProfileId \ held] : \A p, q \in names : f[p] = f[q] => p = q

(* registryFromDirs: a profile for every directory and the default one,     *)
(* under the id the mirror knows for its name.                              *)
FromDirs ==
  LET names == dirs \cup {Default}
      fresh == NewIds(names)
  IN IF dirs = {} THEN NoRegistry
     ELSE [p \in names |-> IF p \in DOMAIN mirror THEN mirror[p] ELSE fresh[p]]

Recovered  == IF FromDirs # NoRegistry THEN FromDirs ELSE mirror
OnlyDefault == LET fresh == NewIds({Default}) IN [p \in {Default} |-> fresh[p]]

StoreTypes ==
  /\ root \in SUBSET File
  /\ dest \in [File -> {"absent", "empty", "whole"}]
  /\ marker \in [there : BOOLEAN, copied : SUBSET File]
  /\ {file, mirror, latest, cache, boot.reg} \subseteq Registry /\ DOMAIN known \subseteq Profile
  /\ dirs \in SUBSET Profile
  /\ boot.pc \in {"off", "marking", "marked", "open", "copied", "verify", "remove",
                  "mirror", "file", "close", "unmark", "up", "failed"}
  /\ boot.names \in SUBSET File /\ boot.copied \in SUBSET File
  /\ \A op \in ops : op.base \in Registry /\ Default \in DOMAIN op.base
  /\ misled \in BOOLEAN /\ upsets \in 0..MaxUpsets /\ calls \in 0..MaxCalls

(* An installation from before profiles, or a new one (no originals).       *)
StoreInit ==
  /\ root \in {{}, File}
  /\ dest = [f \in File |-> "absent"]
  /\ marker = NoMarker
  /\ file = NoRegistry /\ mirror = NoRegistry /\ latest = NoRegistry
  /\ cache = NoRegistry /\ known = NoRegistry
  /\ dirs = {} /\ boot = Off /\ ops = {} /\ misled = FALSE /\ upsets = 0 /\ calls = 0

-----------------------------------------------------------------------------
(* Writing the registry: the mirror first, then the file, unreadable while  *)
(* it is open.                                                              *)
Writing(reg, why) == [boot EXCEPT !.pc = "mirror", !.why = why, !.reg = reg]

(***************************************************************************)
(* bootProfiles: a readable file is the registry; else a marker or          *)
(* anything at the root is a migration to do or to resume; else the         *)
(* registry is put together again from the directories and the mirror;      *)
(* else the installation is fresh.                                          *)
(***************************************************************************)
Migrating == marker.there \/ root # {}

BootProfiles ==
  /\ boot.pc \in {"off", "failed"}
  /\ \/ /\ file # NoRegistry
        /\ boot' = Writing(file, "touch")
        /\ dirs' = dirs \cup {Default}
        /\ UNCHANGED misled
     \/ /\ file = NoRegistry /\ Migrating
        /\ boot' = [Off EXCEPT !.pc = "marking", !.names = root, !.copied = marker.copied]
        /\ dirs' = dirs \cup {Default}
        /\ UNCHANGED misled
     \/ /\ file = NoRegistry /\ ~Migrating
        /\ boot' = Writing(IF Recovered # NoRegistry THEN Recovered ELSE OnlyDefault,
                           IF Recovered # NoRegistry THEN "recover" ELSE "fresh")
        /\ dirs' = dirs \cup {Default}
        /\ misled' = (misled \/ ReadRegistry # Current)
  /\ cache' = NoRegistry
  /\ UNCHANGED <<root, dest, marker, file, mirror, latest, ops, known, upsets, calls>>

(* A resumed boot keeps what the boots before it copied.                    *)
(* Mutant: like the import of a seed, it starts from an empty directory.    *)
Resumed_Empty(files) == [f \in File |-> "absent"]

Resumed(files) == files

(* migrate: the marker is saved before the first file, and after each.      *)
SaveMarker ==
  /\ boot.pc \in {"marking", "copied"}
  /\ \/ /\ marker # NoMarker            \* the file is open: unreadable
        /\ marker' = NoMarker
        /\ UNCHANGED <<boot, dest>>
     \/ /\ marker' = [there |-> TRUE, copied |-> boot.copied]
        /\ boot' = [boot EXCEPT !.pc = "marked"]
        /\ dest' = IF boot.pc = "marking" THEN Resumed(dest) ELSE dest
  /\ UNCHANGED <<root, file, mirror, latest, dirs, cache, ops, known, misled, upsets, calls>>

(* copyInto: the target is created, or truncated, when its writer opens.    *)
(* Mutant: the file is listed, and the list saved, before its copy closes.  *)
CopyOpen_Listed(f) ==
  /\ boot.pc = "marked" /\ f \in boot.names \ boot.copied
  /\ dest' = [dest EXCEPT ![f] = "empty"]
  /\ boot' = [boot EXCEPT !.pc = "open", !.why = f]
  /\ marker' = [there |-> TRUE, copied |-> boot.copied \cup {f}]
  /\ UNCHANGED <<root, file, mirror, latest, dirs, cache, ops, known, misled, upsets, calls>>

CopyOpen(f) ==
  /\ boot.pc = "marked" /\ f \in boot.names \ boot.copied
  /\ dest' = [dest EXCEPT ![f] = "empty"]
  /\ boot' = [boot EXCEPT !.pc = "open", !.why = f]
  /\ UNCHANGED <<root, marker, file, mirror, latest, dirs, cache, ops, known, misled, upsets, calls>>

(* The file joins the list once its copy is closed.                         *)
CopyClose ==
  /\ boot.pc = "open"
  /\ dest' = [dest EXCEPT ![boot.why] = "whole"]
  /\ boot' = [boot EXCEPT !.pc = "copied", !.copied = @ \cup {boot.why}, !.why = "none"]
  /\ UNCHANGED <<root, marker, file, mirror, latest, dirs, cache, ops, known, misled, upsets, calls>>

(* The files and the bytes of the originals against those of the copy.  The *)
(* extra pass copies what is not in the list, and by now all of it is.      *)
Verified == /\ boot.names = {f \in File : dest[f] # "absent"}
            /\ \A f \in boot.names : dest[f] = "whole"

Verify ==
  /\ boot.pc = "marked" /\ boot.names \subseteq boot.copied
  /\ boot' = [boot EXCEPT !.pc = IF Verified THEN "remove" ELSE "failed"]
  /\ UNCHANGED <<root, dest, marker, file, mirror, latest, dirs, cache, ops, known, misled, upsets, calls>>

(* removeRootEntries, one entry at a time, and then the registry.           *)
RemoveRootEntry(f) ==
  /\ boot.pc = "remove" /\ f \in root
  /\ root' = root \ {f}
  /\ UNCHANGED <<dest, marker, file, mirror, latest, dirs, boot, cache, ops, known, misled, upsets, calls>>

Migrated ==
  /\ boot.pc = "remove" /\ root = {}
  /\ boot' = Writing(OnlyDefault, "migrate")
  /\ UNCHANGED <<root, dest, marker, file, mirror, latest, dirs, cache, ops, known, misled, upsets, calls>>

(* The mirror before the file, for whoever writes the registry;             *)
(* writeRegistryMirror swallows a setItem that throws (quota, private mode) *)
(* and its caller goes on to the file.                                      *)
(* Mutant: the file alone is written.                                       *)
MirrorFirst_Never(reg) == mirror

MirrorFirst(reg) == reg

WriteRegistryMirror(reg) ==
  \/ /\ mirror' = MirrorFirst(reg) /\ latest' = mirror'
     /\ UNCHANGED upsets
  \/ /\ upsets < MaxUpsets
     /\ upsets' = upsets + 1
     /\ latest' = reg
     /\ UNCHANGED mirror

BootMirror ==
  /\ boot.pc = "mirror"
  /\ WriteRegistryMirror(boot.reg)
  /\ boot' = [boot EXCEPT !.pc = "file"]
  /\ UNCHANGED <<root, dest, marker, file, dirs, cache, ops, known, misled, calls>>

BootOpen ==
  /\ boot.pc = "file"
  /\ file' = NoRegistry
  /\ boot' = [boot EXCEPT !.pc = "close"]
  /\ UNCHANGED <<root, dest, marker, mirror, latest, dirs, cache, ops, known, misled, upsets, calls>>

(* What follows a registry write of the boot: the migration removes its     *)
(* marker; every boot then touches the active profile and is up.            *)
AfterWrite == CASE boot.why = "migrate" -> [boot EXCEPT !.pc = "unmark"]
                [] boot.why = "touch"   -> [boot EXCEPT !.pc = "up"]
                [] OTHER                -> Writing(boot.reg, "touch")

Known(reg) == IF Default \in DOMAIN known THEN known
              ELSE [p \in DOMAIN known \cup {Default} |->
                      IF p = Default THEN reg[p] ELSE known[p]]

BootClose ==
  /\ boot.pc = "close"
  /\ file' = boot.reg
  /\ boot' = AfterWrite
  /\ cache' = IF boot.why = "touch" THEN boot.reg ELSE cache
  /\ known' = IF boot.why = "touch" THEN Known(boot.reg) ELSE known
  /\ UNCHANGED <<root, dest, marker, mirror, latest, dirs, ops, misled, upsets, calls>>

Unmark ==
  /\ boot.pc = "unmark"
  /\ marker' = NoMarker
  /\ boot' = Writing(boot.reg, "touch")
  /\ UNCHANGED <<root, dest, file, mirror, latest, dirs, cache, ops, known, misled, upsets, calls>>

(* A boot's write that fails: a touch (tried twice) goes on with what it    *)
(* has; so does a repair, but its touch reads the registry again and throws *)
(* when there is none; the others give the boot up.                         *)
BootWriteFails ==
  /\ boot.pc = "close" /\ upsets < MaxUpsets
  /\ boot' = CASE boot.why = "touch" -> AfterWrite
               [] boot.why = "recover" /\ mirror # NoRegistry -> Writing(mirror, "touch")
               [] OTHER -> Off
  /\ misled' = (misled \/ (boot.why = "recover" /\ mirror # latest))
  /\ cache' = IF boot.why = "touch" THEN boot.reg ELSE cache
  /\ known' = IF boot.why = "touch" THEN Known(boot.reg) ELSE known
  /\ upsets' = upsets + 1
  /\ UNCHANGED <<root, dest, marker, file, mirror, latest, dirs, ops, calls>>

(* The page is killed or reloaded.                                          *)
Crash ==
  /\ boot.pc # "off" /\ upsets < MaxUpsets
  /\ boot' = Off /\ ops' = {} /\ cache' = NoRegistry
  /\ upsets' = upsets + 1
  /\ UNCHANGED <<root, dest, marker, file, mirror, latest, dirs, known, misled, calls>>

-----------------------------------------------------------------------------
(* The calls that change the registry.  Each computes its write from the    *)
(* registry it read when it began.                                          *)
Begin(op) ==
  /\ boot.pc = "up" /\ calls < MaxCalls
  /\ calls' = calls + 1
  /\ ops' = ops \cup {op}
  /\ misled' = (misled \/ ReadRegistry # Current
                       \/ \E other \in ops : other.name = op.name)

(* An id that a peer gave its profile is refused when another one has it.   *)
Free(id, reg) == id \notin IdsOf(reg)

(* The ids a peer may offer: one no profile here has, or one of ours.       *)
Offered(p) == {NewIds({p})[p]} \cup IdsOf(ReadRegistry) \cup IdsOf(mirror)

Forget(p) == [q \in DOMAIN known \ {p} |-> known[q]]

(* createProfile: the directory first; a seed is imported into it.          *)
CreateProfile(p, seeded) ==
  /\ ReadRegistry # NoRegistry
  /\ p \notin DOMAIN ReadRegistry
  /\ \E id \in Offered(p) :
       /\ Free(id, ReadRegistry)
       /\ Begin([kind |-> "create", name |-> p, id |-> id, base |-> ReadRegistry,
                 at |-> IF seeded THEN "import" ELSE "mirror"])
  /\ dirs' = dirs \cup {p}
  /\ UNCHANGED <<root, dest, marker, file, mirror, latest, boot, cache, known, upsets>>

At(op, at) == (ops \ {op}) \cup {[op EXCEPT !.at = at]}

(* importWorkspace, which ends or throws; a partial directory is dropped.   *)
ImportWorkspace(op) ==
  /\ op.at = "import"
  /\ \/ /\ ops' = At(op, "mirror")
        /\ UNCHANGED dirs
     \/ /\ ops' = ops \ {op}
        /\ dirs' = dirs \ {op.name}
  /\ UNCHANGED <<root, dest, marker, file, mirror, latest, boot, cache, known, misled, upsets, calls>>

(* deleteProfile: the directory goes before the entry.                      *)
DeleteProfile(p) ==
  /\ p # Default /\ p \in DOMAIN ReadRegistry /\ p \in dirs
  /\ Begin([kind |-> "delete", name |-> p, id |-> ReadRegistry[p], base |-> ReadRegistry,
            at |-> "mirror"])
  /\ dirs' = dirs \ {p}
  /\ known' = Forget(p)
  /\ UNCHANGED <<root, dest, marker, file, mirror, latest, boot, cache, upsets>>

(* setSeedBinding, setProfileVisibleApps, bindDesktopMirror: a record is    *)
(* patched, the names and the ids stay.                                     *)
PatchRegistry(p) ==
  /\ p \in DOMAIN ReadRegistry
  /\ Begin([kind |-> "patch", name |-> p, id |-> ReadRegistry[p], base |-> ReadRegistry,
            at |-> "mirror"])
  /\ UNCHANGED <<root, dest, marker, file, mirror, latest, dirs, boot, cache, known, upsets>>

(* relinkProfile (main.ts): the id changes in the page's own copy, and that *)
(* copy is written.                                                         *)
RelinkProfile(p) ==
  /\ p \in DOMAIN cache
  /\ \E id \in Offered(p) :
       /\ Free(id, cache)
       /\ Begin([kind |-> "relink", name |-> p, id |-> id, base |-> cache, at |-> "mirror"])
       /\ cache' = [cache EXCEPT ![p] = id]
  /\ known' = Forget(p)
  /\ UNCHANGED <<root, dest, marker, file, mirror, latest, dirs, boot, upsets>>

(* refreshRegistry: the page reads the registry again.                      *)
RefreshRegistry ==
  /\ boot.pc = "up" /\ ReadRegistry # NoRegistry /\ cache # ReadRegistry
  /\ cache' = ReadRegistry
  /\ UNCHANGED <<root, dest, marker, file, mirror, latest, dirs, boot, ops, known, misled, upsets, calls>>

Patched(op) ==
  LET names == IF op.kind = "delete" THEN DOMAIN op.base \ {op.name}
               ELSE DOMAIN op.base \cup {op.name}
  IN [p \in names |-> IF p = op.name THEN op.id ELSE op.base[p]]

WriteMirror(op) ==
  /\ op.at = "mirror"
  /\ WriteRegistryMirror(Patched(op))
  /\ misled' = (misled \/ op.base # Current)
  /\ ops' = At(op, "file")
  /\ UNCHANGED <<root, dest, marker, file, dirs, boot, cache, known, calls>>

OpenFile(op) ==
  /\ op.at = "file"
  /\ file' = NoRegistry
  /\ ops' = At(op, "close")
  /\ misled' = (misled \/ latest # Patched(op))
  /\ UNCHANGED <<root, dest, marker, mirror, latest, dirs, boot, cache, known, upsets, calls>>

CloseFile(op) ==
  /\ op.at = "close"
  /\ file' = Patched(op)
  /\ ops' = ops \ {op}
  /\ known' = IF \/ op.kind \notin {"create", "relink"}
                 \/ op.name \notin dirs
                 \/ \E other \in ops \ {op} : other.name = op.name
              THEN known
              ELSE [p \in DOMAIN known \cup {op.name} |->
                      IF p = op.name THEN op.id ELSE known[p]]
  /\ misled' = (misled \/ latest # Patched(op))
  /\ UNCHANGED <<root, dest, marker, mirror, latest, dirs, boot, cache, upsets, calls>>

(* The write throws: the call fails, and the file is left as it was before  *)
(* the writer opened it, or empty.                                          *)
WriteFails(op) ==
  /\ op.at \in {"file", "close"} /\ upsets < MaxUpsets
  /\ ops' = ops \ {op}
  /\ upsets' = upsets + 1
  /\ UNCHANGED <<root, dest, marker, file, mirror, latest, dirs, boot, cache, known, misled, calls>>

-----------------------------------------------------------------------------
BootStep == \/ BootProfiles \/ SaveMarker \/ CopyClose \/ Verify \/ Migrated
            \/ BootMirror \/ BootOpen \/ BootClose \/ Unmark
            \/ \E f \in File : CopyOpen(f) \/ RemoveRootEntry(f)

CallStep == \E op \in ops : \/ ImportWorkspace(op) \/ WriteMirror(op)
                            \/ OpenFile(op) \/ CloseFile(op)

Call == \E p \in Profile : \/ \E seeded \in BOOLEAN : CreateProfile(p, seeded)
                           \/ DeleteProfile(p) \/ PatchRegistry(p) \/ RelinkProfile(p)

StoreNext == \/ BootStep \/ CallStep \/ Call \/ RefreshRegistry
        \/ BootWriteFails \/ Crash \/ \E op \in ops : WriteFails(op)

(* A page that started runs its boot on; one that is closed is opened again.*)
StoreFairness == WF_storeVars(BootStep)

StoreSpec == StoreInit /\ [][StoreNext]_storeVars /\ StoreFairness

-----------------------------------------------------------------------------
(***************************************************************************)
(* Whatever the boots and the crashes, every original is at the root or    *)
(* whole in the default profile: "it never deletes the originals before    *)
(* the copy verifies" (profiles.ts:16).                                     *)
(***************************************************************************)
Installed   == root # {} \/ \E f \in File : dest[f] # "absent"
NothingLost == Installed => \A f \in File : f \in root \/ dest[f] = "whole"

(***************************************************************************)
(* A profile whose creation (or new id) was reported done is in the        *)
(* registry of every later page that is up, with its id, until its         *)
(* deletion begins: an interrupted write loses no profile (the comment at  *)
(* profiles.ts:402).  Excused are (1) two calls of one page that race: a   *)
(* registry written over one that changed since it was read, and two calls *)
(* about one profile (the failed import of one drops the directory of the  *)
(* other); (2) the two failures together that leave no copy of the latest  *)
(* registry: a mirror whose last setItem was refused (profiles.ts:423) and *)
(* a file that is torn; and whatever a boot or a call did with what it read*)
(* then.  A refused mirror alone, and a torn file alone, lose nothing.     *)
(***************************************************************************)
KeepsProfiles ==
  boot.pc = "up" /\ ~misled /\ ReadRegistry = Current =>
    \A p \in DOMAIN known : p \in DOMAIN ReadRegistry /\ ReadRegistry[p] = known[p]

(***************************************************************************)
(* The registry is gone, some originals are already moved, and either the  *)
(* marker or the other originals send every boot back to a verification    *)
(* that compares the rest with the whole copy.                             *)
(***************************************************************************)
Stranded == /\ file = NoRegistry /\ (Migrating \/ boot.pc = "marking")
            /\ \E f \in File \ root : dest[f] = "whole"

(* Once the crashes end, the page comes up for good, unless it is stranded. *)
Boots == <>[](boot.pc = "up" \/ Stranded)

(***************************************************************************)
(* "The move is guarded by a progress marker so an interrupted boot        *)
(* resumes" (profiles.ts:14): no boot ends in the failed verification.  It *)
(* does not hold: a page killed while it removes the originals leaves fewer *)
(* of them than there are copies.                                          *)
(***************************************************************************)
Resumes == boot.pc # "failed"

=============================================================================
