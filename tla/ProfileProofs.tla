---------------------------- MODULE ProfileProofs ----------------------------
(***************************************************************************)
(* Theorems about the profiles of a browser and about the links of two.    *)
(*                                                                         *)
(* ProfileStore, for every set of originals and of profiles and every      *)
(* number of upsets and calls:                                             *)
(*   NothingIsLost   every original is at the root or whole in its copy    *)
(*   ProfilesStay    a profile that was reported done is kept, with its id *)
(* The first follows from what a boot knows of the originals while it      *)
(* copies and removes them.  The second is about the latest registry, the  *)
(* one the mirror has unless it refused it: as long as no page computed a  *)
(* registry from another one it knows every profile that was reported,     *)
(* whatever the file is, and the directories know their names.             *)
(*                                                                         *)
(* ProfileLinks, for any profiles, names, links and changes:               *)
(*   LinkTypes       the types                                             *)
(*   RestIsAgreed    two devices at rest agree on what they allow and on   *)
(*                   what is attached, if a device pairs again only once   *)
(*                   the old channel is closed and dealt with              *)
(* It follows from what is on its way to each end (Line) and from how the  *)
(* consent of the other device still gets there (Heard).                   *)
(***************************************************************************)
EXTENDS ProfileStore, ProfileLinks, SequenceTheorems, TLAPS

-----------------------------------------------------------------------------
(* The page's boot, field by field.                                         *)
Booted(p, w, n, c, g) == [pc |-> p, why |-> w, names |-> n, copied |-> c, reg |-> g]

BootShape == boot = Booted(boot.pc, boot.why, boot.names, boot.copied, boot.reg)

LEMMA BootChanges ==
  ASSUME BootShape, NEW p, NEW w, NEW c, NEW g
  PROVE  /\ [boot EXCEPT !.pc = p] = Booted(p, boot.why, boot.names, boot.copied, boot.reg)
         /\ [boot EXCEPT !.pc = p, !.why = w] = Booted(p, w, boot.names, boot.copied, boot.reg)
         /\ [boot EXCEPT !.pc = p, !.why = w, !.reg = g] = Booted(p, w, boot.names, boot.copied, g)
         /\ [boot EXCEPT !.pc = p, !.copied = c, !.why = w] = Booted(p, w, boot.names, c, boot.reg)
<1>1. PICK q, v, n, d, h : boot = [pc |-> q, why |-> v, names |-> n, copied |-> d, reg |-> h]
  BY DEF BootShape, Booted
<1>2. boot.why = v /\ boot.names = n /\ boot.copied = d /\ boot.reg = h
  BY <1>1
<1>3. PICK x : x = [pc |-> p, why |-> v, names |-> n, copied |-> d, reg |-> h]
  OBVIOUS
<1>4. [boot EXCEPT !.pc = p] = x
  BY <1>1, <1>3
<1>5. PICK y : y = [pc |-> p, why |-> w, names |-> n, copied |-> d, reg |-> h]
  OBVIOUS
<1>6. [x EXCEPT !.why = w] = y
  BY <1>3, <1>5
<1>7. [y EXCEPT !.reg = g] = [pc |-> p, why |-> w, names |-> n, copied |-> d, reg |-> g]
  BY <1>5
<1>8. PICK z : z = [x EXCEPT !.copied = c]
  OBVIOUS
<1>9. z = [pc |-> p, why |-> v, names |-> n, copied |-> c, reg |-> h]
  BY <1>3, <1>8
<1>10. [z EXCEPT !.why = w] = [pc |-> p, why |-> w, names |-> n, copied |-> c, reg |-> h]
  BY <1>9
<1>11. [boot EXCEPT !.pc = p, !.why = w] = y
  BY <1>4, <1>6
<1>12. [boot EXCEPT !.pc = p, !.why = w, !.reg = g] = [y EXCEPT !.reg = g]
  BY <1>11
<1>13. [boot EXCEPT !.pc = p, !.copied = c, !.why = w] = [z EXCEPT !.why = w]
  BY <1>4, <1>8
<1>. QED BY <1>2, <1>3, <1>4, <1>5, <1>7, <1>10, <1>11, <1>12, <1>13 DEF Booted

LEMMA BootIs ==
  ASSUME NEW p, NEW w, NEW n, NEW c, NEW g, boot' = Booted(p, w, n, c, g)
  PROVE  /\ BootShape' /\ boot'.pc = p /\ boot'.why = w /\ boot'.names = n /\ boot'.reg = g
  BY DEF BootShape, Booted

(* Where a boot goes: it becomes a boot at p that writes g.                 *)
Becomes(p, g) ==
  /\ BootShape' /\ boot'.pc = p /\ boot'.reg = g
  /\ boot'.names = boot.names

LEMMA BootBecomes ==
  ASSUME BootShape, NEW p, NEW w, NEW c, NEW g, NEW n,
         \/ boot' = [boot EXCEPT !.pc = p] /\ g = boot.reg
         \/ boot' = [boot EXCEPT !.pc = p, !.why = w] /\ g = boot.reg
         \/ boot' = [boot EXCEPT !.pc = p, !.why = w, !.reg = g]
         \/ boot' = [boot EXCEPT !.pc = p, !.copied = c, !.why = w] /\ g = boot.reg
  PROVE  Becomes(p, g)
<1>1. \E v, d : boot' = Booted(p, v, boot.names, d, g)
  <2>1. CASE boot' = [boot EXCEPT !.pc = p] /\ g = boot.reg
    <3>1. [boot EXCEPT !.pc = p] = Booted(p, boot.why, boot.names, boot.copied, boot.reg)
      BY BootChanges
    <3>. QED BY <2>1, <3>1
  <2>2. CASE boot' = [boot EXCEPT !.pc = p, !.why = w] /\ g = boot.reg
    <3>1. [boot EXCEPT !.pc = p, !.why = w] = Booted(p, w, boot.names, boot.copied, boot.reg)
      BY BootChanges
    <3>. QED BY <2>2, <3>1
  <2>3. CASE boot' = [boot EXCEPT !.pc = p, !.why = w, !.reg = g]
    <3>1. [boot EXCEPT !.pc = p, !.why = w, !.reg = g] = Booted(p, w, boot.names, boot.copied, g)
      BY BootChanges
    <3>. QED BY <2>3, <3>1
  <2>4. CASE boot' = [boot EXCEPT !.pc = p, !.copied = c, !.why = w] /\ g = boot.reg
    <3>1. [boot EXCEPT !.pc = p, !.copied = c, !.why = w] = Booted(p, w, boot.names, c, boot.reg)
      BY BootChanges
    <3>. QED BY <2>4, <3>1
  <2>. QED BY <2>1, <2>2, <2>3, <2>4
<1>2. PICK v, d : boot' = Booted(p, v, boot.names, d, g)
  BY <1>1
<1>. QED BY <1>2, BootIs DEF Becomes

LEMMA OffShape == Off = Booted("off", "none", {}, {}, NoRegistry)
  BY DEF Off, Booted

(* What the actions of a boot do to it.                                     *)
LEMMA BootProfilesDoes ==
  ASSUME BootShape, BootProfiles
  PROVE  \/ file # NoRegistry /\ Becomes("mirror", file)
         \/ /\ file = NoRegistry /\ Migrating
            /\ BootShape' /\ boot'.pc = "marking" /\ boot'.names = root
         \/ /\ file = NoRegistry /\ ~Migrating
            /\ Becomes("mirror", IF Recovered # NoRegistry THEN Recovered ELSE OnlyDefault)
<1>1. CASE file # NoRegistry /\ boot' = Writing(file, "touch")
  <2>1. boot' = [boot EXCEPT !.pc = "mirror", !.why = "touch", !.reg = file]
    BY <1>1 DEF Writing
  <2>. QED BY <1>1, <2>1, BootBecomes
<1>2. CASE /\ file = NoRegistry /\ Migrating
           /\ boot' = [Off EXCEPT !.pc = "marking", !.names = root, !.copied = marker.copied]
  <2>1. boot' = Booted("marking", "none", root, marker.copied, NoRegistry)
    BY <1>2, OffShape DEF Booted
  <2>. QED BY <1>2, <2>1, BootIs
<1>3. CASE /\ file = NoRegistry /\ ~Migrating
           /\ boot' = Writing(IF Recovered # NoRegistry THEN Recovered ELSE OnlyDefault,
                              IF Recovered # NoRegistry THEN "recover" ELSE "fresh")
  <2>1. PICK g, w : /\ g = IF Recovered # NoRegistry THEN Recovered ELSE OnlyDefault
                    /\ w = IF Recovered # NoRegistry THEN "recover" ELSE "fresh"
    OBVIOUS
  <2>2. boot' = [boot EXCEPT !.pc = "mirror", !.why = w, !.reg = g]
    BY <1>3, <2>1 DEF Writing
  <2>3. Becomes("mirror", g)
    BY <2>2, BootBecomes
  <2>. QED BY <1>3, <2>1, <2>3
<1>. QED BY <1>1, <1>2, <1>3 DEF BootProfiles

LEMMA AfterWriteDoes ==
  ASSUME BootShape, boot' = AfterWrite
  PROVE  \/ boot.why = "migrate" /\ Becomes("unmark", boot.reg)
         \/ boot.why = "touch" /\ Becomes("up", boot.reg)
         \/ boot.why \notin {"migrate", "touch"} /\ Becomes("mirror", boot.reg)
<1>1. CASE boot.why = "migrate"
  <2>1. boot' = [boot EXCEPT !.pc = "unmark"]
    BY <1>1 DEF AfterWrite
  <2>. QED BY <1>1, <2>1, BootBecomes
<1>2. CASE boot.why = "touch"
  <2>1. boot' = [boot EXCEPT !.pc = "up"]
    BY <1>2 DEF AfterWrite
  <2>. QED BY <1>2, <2>1, BootBecomes
<1>3. CASE boot.why \notin {"migrate", "touch"}
  <2>1. boot' = [boot EXCEPT !.pc = "mirror", !.why = "touch", !.reg = boot.reg]
    BY <1>3 DEF AfterWrite, Writing
  <2>. QED BY <1>3, <2>1, BootBecomes
<1>. QED BY <1>1, <1>2, <1>3

(* Where a boot's last write, or its failure, takes it: a repair that failed *)
(* reads the mirror again.                                                  *)
LEMMA BootEndsAt ==
  ASSUME BootShape, BootClose \/ BootWriteFails
  PROVE  \/ boot' = AfterWrite \/ boot' = Off
         \/ Becomes("mirror", mirror) /\ misled' = (misled \/ mirror # latest)
<1>1. CASE BootWriteFails /\ boot.why = "recover" /\ mirror # NoRegistry
  <2>1. boot' = [boot EXCEPT !.pc = "mirror", !.why = "touch", !.reg = mirror]
    BY <1>1 DEF BootWriteFails, Writing
  <2>2. Becomes("mirror", mirror)
    BY <2>1, BootBecomes
  <2>. QED BY <1>1, <2>2 DEF BootWriteFails
<1>. QED BY <1>1 DEF BootClose, BootWriteFails

LEMMA OffDoes == ASSUME boot' = Off PROVE BootShape' /\ boot'.pc = "off" /\ boot'.reg = NoRegistry
  BY OffShape, BootIs

-----------------------------------------------------------------------------
(* The originals.  A boot that copies knows them all; one that removes them *)
(* found a whole copy of each.                                              *)
Copying == boot.pc \in {"marking", "marked", "open", "copied"}

Moved ==
  /\ BootShape
  /\ root \subseteq File /\ dest \in [File -> {"absent", "empty", "whole"}]
  /\ Copying => boot.names = root /\ Installed
  /\ marker.there => Installed
  /\ boot.pc = "open" => boot.why \in File
  /\ boot.pc = "remove" =>
       /\ root \subseteq boot.names /\ boot.names # {} /\ boot.names \subseteq File
       /\ \A f \in boot.names : dest[f] = "whole"
  /\ NothingLost

(* The calls leave the move alone.                                          *)
Apart == UNCHANGED <<root, dest, marker, boot>>

LEMMA CallsApart ==
  /\ CallStep \/ Call \/ RefreshRegistry \/ UNCHANGED storeVars => Apart
  /\ \A op \in ops : WriteFails(op) => Apart
<1>1. CallStep => Apart
  BY DEF CallStep, ImportWorkspace, WriteMirror, OpenFile, CloseFile, Apart
<1>2. Call => Apart
  BY DEF Call, CreateProfile, DeleteProfile, PatchRegistry, RelinkProfile, Apart
<1>3. RefreshRegistry \/ UNCHANGED storeVars => Apart
  BY DEF RefreshRegistry, storeVars, Apart
<1>4. \A op \in ops : WriteFails(op) => Apart
  BY DEF WriteFails, Apart
<1>. QED BY <1>1, <1>2, <1>3, <1>4

LEMMA ApartKeeps == Moved /\ Apart => Moved'
  BY DEF Moved, Apart, BootShape, Copying, Installed, NothingLost

(* So does a boot that neither copies nor removes.                          *)
Beyond == {"mirror", "file", "close", "unmark", "up", "off", "failed"}

LEMMA BeyondKeeps ==
  ASSUME Moved, UNCHANGED <<root, dest>>, marker' = marker \/ marker' = NoMarker,
         BootShape', boot'.pc \in Beyond
  PROVE  Moved'
<1>1. /\ root' \subseteq File /\ dest' \in [File -> {"absent", "empty", "whole"}]
      /\ (Installed' <=> Installed) /\ NothingLost'
  BY DEF Moved, Installed, NothingLost
<1>2. marker'.there => Installed'
  BY <1>1 DEF Moved, NoMarker
<1>. QED BY <1>1, <1>2 DEF Moved, Copying, Beyond

LEMMA MovedStep == Moved /\ [StoreNext]_storeVars => Moved'
<1> SUFFICES ASSUME Moved, [StoreNext]_storeVars PROVE Moved'
  OBVIOUS
<1>0. BootShape
  BY DEF Moved
<1>1. CASE Apart
  BY <1>1, ApartKeeps
<1>2. CASE BootProfiles
  <2>1. UNCHANGED <<root, dest, marker>>
    BY <1>2 DEF BootProfiles
  <2>2. CASE BootShape' /\ boot'.pc = "mirror"
    BY <2>1, <2>2, BeyondKeeps DEF Beyond
  <2>3. CASE Migrating /\ BootShape' /\ boot'.pc = "marking" /\ boot'.names = root
    <3>1. Installed
      BY <2>3 DEF Moved, Migrating, Installed
    <3>. QED BY <2>1, <2>3, <3>1 DEF Moved, Copying, Installed, NothingLost
  <2>. QED BY <1>0, <1>2, <2>2, <2>3, BootProfilesDoes DEF Becomes
<1>3. CASE SaveMarker
  <2>1. Copying /\ UNCHANGED <<root, dest>>
    BY <1>3 DEF SaveMarker, Copying, Resumed
  <2>2. CASE marker' = NoMarker /\ UNCHANGED boot
    BY <2>1, <2>2 DEF Moved, BootShape, Copying, Installed, NothingLost, NoMarker
  <2>3. CASE boot' = [boot EXCEPT !.pc = "marked"]
    <3>1. Becomes("marked", boot.reg)
      BY <1>0, <2>3, BootBecomes
    <3>. QED BY <2>1, <3>1 DEF Moved, Becomes, Copying, Installed, NothingLost
  <2>. QED BY <1>3, <2>2, <2>3 DEF SaveMarker
<1>4. ASSUME NEW f \in File, CopyOpen(f) PROVE Moved'
  <2>1. /\ Copying /\ f \in root /\ UNCHANGED <<root, marker>> /\ dest' = [dest EXCEPT ![f] = "empty"]
        /\ boot.pc = "marked"
    BY <1>4 DEF CopyOpen, Moved, Copying
  <2>2. boot' = [boot EXCEPT !.pc = "open", !.why = f]
    BY <1>4 DEF CopyOpen
  <2>3. Becomes("open", boot.reg) /\ boot'.why = f
    <3>1. [boot EXCEPT !.pc = "open", !.why = f]
            = Booted("open", f, boot.names, boot.copied, boot.reg)
      BY <1>0, BootChanges
    <3>. QED BY <2>2, <3>1, BootIs DEF Becomes
  <2>4. Installed' /\ dest' \in [File -> {"absent", "empty", "whole"}]
    BY <2>1 DEF Moved, Installed
  <2>5. NothingLost'
    BY <2>1 DEF Moved, NothingLost, Installed
  <2>. QED BY <2>1, <2>3, <2>4, <2>5 DEF Moved, Becomes, Copying
<1>5. CASE CopyClose
  <2>1. /\ Copying /\ boot.why \in File /\ UNCHANGED <<root, marker>>
        /\ dest' = [dest EXCEPT ![boot.why] = "whole"]
        /\ boot' = [boot EXCEPT !.pc = "copied", !.copied = boot.copied \cup {boot.why}, !.why = "none"]
    BY <1>5 DEF CopyClose, Moved, Copying
  <2>2. Becomes("copied", boot.reg)
    BY <1>0, <2>1, BootBecomes
  <2>3. Installed /\ Installed' /\ dest' \in [File -> {"absent", "empty", "whole"}]
    BY <2>1 DEF Moved, Installed
  <2>4. NothingLost'
    BY <2>1, <2>3 DEF Moved, NothingLost
  <2>. QED BY <2>1, <2>2, <2>3, <2>4 DEF Moved, Becomes, Copying
<1>6. CASE Verify
  <2>1. /\ Copying /\ boot.names = root /\ Installed /\ UNCHANGED <<root, dest, marker>>
        /\ boot' = [boot EXCEPT !.pc = IF Verified THEN "remove" ELSE "failed"]
    BY <1>6 DEF Verify, Moved, Copying
  <2>2. CASE Verified
    <3>1. Becomes("remove", boot.reg)
      BY <1>0, <2>1, <2>2, BootBecomes
    <3>2. boot.names # {} /\ boot.names \subseteq File /\ \A f \in boot.names : dest[f] = "whole"
      BY <2>1, <2>2 DEF Verified, Installed, Moved
    <3>. QED BY <2>1, <3>1, <3>2 DEF Moved, Becomes, Copying, Installed, NothingLost
  <2>3. CASE ~Verified
    <3>1. Becomes("failed", boot.reg)
      BY <1>0, <2>1, <2>3, BootBecomes
    <3>. QED BY <2>1, <3>1, BeyondKeeps DEF Becomes, Beyond
  <2>. QED BY <2>2, <2>3
<1>7. ASSUME NEW f \in File, RemoveRootEntry(f) PROVE Moved'
  <2>1. /\ boot.pc = "remove" /\ f \in root /\ root' = root \ {f} /\ UNCHANGED <<dest, marker, boot>>
    BY <1>7 DEF RemoveRootEntry
  <2>2. Installed /\ Installed'
    BY <2>1 DEF Moved, Installed
  <2>3. NothingLost'
    BY <2>1, <2>2 DEF Moved, NothingLost
  <2>. QED BY <2>1, <2>2, <2>3 DEF Moved, BootShape, Copying
<1>8. CASE Migrated
  <2>1. UNCHANGED <<root, dest, marker>>
        /\ boot' = [boot EXCEPT !.pc = "mirror", !.why = "migrate", !.reg = OnlyDefault]
    BY <1>8 DEF Migrated, Writing
  <2>2. Becomes("mirror", OnlyDefault)
    BY <1>0, <2>1, BootBecomes
  <2>. QED BY <2>1, <2>2, BeyondKeeps DEF Becomes, Beyond
<1>9. CASE BootMirror \/ BootOpen
  <2>1. UNCHANGED <<root, dest, marker>>
    BY <1>9 DEF BootMirror, BootOpen
  <2>2. Becomes("file", boot.reg) \/ Becomes("close", boot.reg)
    BY <1>0, <1>9, BootBecomes DEF BootMirror, BootOpen
  <2>. QED BY <2>1, <2>2, BeyondKeeps DEF Becomes, Beyond
<1>10. CASE BootClose \/ BootWriteFails
  <2>1. UNCHANGED <<root, dest, marker>>
    BY <1>10 DEF BootClose, BootWriteFails
  <2>2. BootShape' /\ boot'.pc \in Beyond
    BY <1>0, <1>10, BootEndsAt, AfterWriteDoes, OffDoes DEF Becomes, Beyond
  <2>. QED BY <2>1, <2>2, BeyondKeeps
<1>11. CASE Unmark
  <2>1. UNCHANGED <<root, dest>> /\ marker' = NoMarker
        /\ boot' = [boot EXCEPT !.pc = "mirror", !.why = "touch", !.reg = boot.reg]
    BY <1>11 DEF Unmark, Writing
  <2>2. Becomes("mirror", boot.reg)
    BY <1>0, <2>1, BootBecomes
  <2>. QED BY <2>1, <2>2, BeyondKeeps DEF Becomes, Beyond
<1>12. CASE Crash
  <2>1. UNCHANGED <<root, dest, marker>> /\ boot' = Off
    BY <1>12 DEF Crash
  <2>. QED BY <2>1, OffDoes, BeyondKeeps DEF Beyond
<1>. QED
  BY <1>1, <1>2, <1>3, <1>4, <1>5, <1>6, <1>7, <1>8, <1>9, <1>10, <1>11, <1>12, CallsApart
     DEF StoreNext, BootStep

LEMMA MovedInit == StoreInit => Moved
<1> SUFFICES ASSUME StoreInit PROVE Moved
  OBVIOUS
<1>1. /\ root \in {{}, File} /\ dest = [f \in File |-> "absent"] /\ marker = NoMarker /\ boot = Off
  BY DEF StoreInit
<1>2. BootShape /\ boot.pc = "off"
  BY <1>1, OffShape DEF BootShape, Booted
<1>3. NothingLost
  BY <1>1 DEF NothingLost, Installed
<1>. QED BY <1>1, <1>2, <1>3 DEF Moved, Copying, NoMarker

(* NothingLost (profiles.ts:16, :640-670): killed at any step and booted    *)
(* again, a migration never leaves an original neither at the root nor      *)
(* whole in the default profile.                                            *)
THEOREM NothingIsLost == StoreSpec => []NothingLost
<1>1. Moved => NothingLost
  BY DEF Moved
<1>. QED BY <1>1, MovedInit, MovedStep, PTL DEF StoreSpec

-----------------------------------------------------------------------------
(* The registry.  Until its migration has ended an installation knows no   *)
(* profile and has no file, and nothing is called before the boot is up.   *)
Writes == boot.pc \in {"mirror", "file", "close", "unmark"}

AfterMove ==
  /\ DOMAIN known # {} \/ file # NoRegistry \/ Writes \/ boot.pc = "up" => root = {}
  /\ boot.pc = "remove" => DOMAIN known = {}
  /\ boot.pc # "up" => ops = {}

Keeps(reg, k)   == \A p \in DOMAIN k : p \in DOMAIN reg /\ reg[p] = k[p]
HasDefault(reg) == reg = NoRegistry \/ Default \in DOMAIN reg

(* The latest registry keeps what was reported, and so does the file when  *)
(* there is one; the directories have the names.                           *)
Registries ==
  /\ Keeps(latest, known) /\ (file # NoRegistry => Keeps(file, known))
  /\ HasDefault(file) /\ HasDefault(mirror) /\ HasDefault(latest) /\ HasDefault(cache)
  /\ DOMAIN known \subseteq dirs \cup {Default}

(* So does what a boot writes, which is the latest before the file is      *)
(* opened.                                                                 *)
BootHolds ==
  /\ Writes => Keeps(boot.reg, known) /\ Default \in DOMAIN boot.reg
  /\ boot.pc \in {"file", "close"} => latest = boot.reg
  /\ boot.pc = "close" => file = NoRegistry

(* A call is about a profile of its own, which is not known meanwhile      *)
(* unless it is only patched.                                              *)
OpOK(op, k) ==
  /\ op = [kind |-> op.kind, name |-> op.name, id |-> op.id, base |-> op.base, at |-> op.at]
  /\ Default \in DOMAIN op.base
  /\ op.kind = "delete" => op.name # Default
  /\ op.at = "import" => op.kind = "create"
  /\ op.kind = "patch" => op.name \in DOMAIN op.base /\ op.id = op.base[op.name]
  /\ op.kind # "patch" => op.name \notin DOMAIN k

Calls ==
  /\ \A op \in ops : OpOK(op, known)
  /\ \A op, other \in ops : op.name = other.name => op = other

Kept == ~misled => Registries /\ BootHolds /\ Calls

LEMMA EmptyRegistry == DOMAIN NoRegistry = {}
  BY DEF NoRegistry

(* A reader gets the latest registry unless the mirror is behind and the   *)
(* file torn.                                                              *)
LEMMA ReadKeeps ==
  Registries => /\ HasDefault(ReadRegistry) /\ Keeps(Current, known)
                /\ ReadRegistry = Current => Keeps(ReadRegistry, known)
  BY DEF Registries, ReadRegistry, Current

(* What a write of the mirror does.                                        *)
LEMMA MirrorWrites ==
  ASSUME NEW reg, WriteRegistryMirror(reg)
  PROVE  latest' = reg /\ (mirror' = reg \/ mirror' = mirror)
  BY DEF WriteRegistryMirror, MirrorFirst

(* Putting a registry together again from the directories.                 *)
LEMMA RepairKeeps ==
  ASSUME Registries, file = NoRegistry, ReadRegistry = Current
  PROVE  LET g == IF Recovered # NoRegistry THEN Recovered ELSE OnlyDefault
         IN Keeps(g, known) /\ Default \in DOMAIN g
<1>0. mirror = latest
  BY DEF ReadRegistry, Current
<1>1. DOMAIN OnlyDefault = {Default}
  BY DEF OnlyDefault
<1>2. CASE dirs = {}
  <2>1. Recovered = mirror
    BY <1>2 DEF Recovered, FromDirs
  <2>2. mirror = NoRegistry => DOMAIN known = {}
    BY <1>0, EmptyRegistry DEF Registries, Keeps
  <2>. QED BY <1>0, <1>1, <2>1, <2>2 DEF Registries, HasDefault, Keeps
<1>3. CASE dirs # {}
  <2>1. PICK fresh : fresh = NewIds(dirs \cup {Default})
    OBVIOUS
  <2>2. FromDirs = [p \in dirs \cup {Default} |-> IF p \in DOMAIN mirror THEN mirror[p] ELSE fresh[p]]
    BY <1>3, <2>1 DEF FromDirs
  <2>3. DOMAIN FromDirs = dirs \cup {Default} /\ FromDirs # NoRegistry
    BY <2>2, EmptyRegistry
  <2>4. Recovered = FromDirs
    BY <2>3 DEF Recovered
  <2>5. Keeps(FromDirs, known)
    BY <1>0, <2>2, <2>3 DEF Registries, Keeps
  <2>. QED BY <2>3, <2>4, <2>5
<1>. QED BY <1>2, <1>3

(* The first page that is up reports the default profile.                  *)
LEMMA KnownKeeps ==
  ASSUME NEW reg, Keeps(reg, known), Default \in DOMAIN reg
  PROVE  Keeps(reg, Known(reg)) /\ DOMAIN Known(reg) = DOMAIN known \cup {Default}
<1>1. CASE Default \in DOMAIN known
  BY <1>1 DEF Known, Keeps
<1>2. CASE Default \notin DOMAIN known
  <2>1. Known(reg) = [p \in DOMAIN known \cup {Default} |-> IF p = Default THEN reg[p] ELSE known[p]]
    BY <1>2 DEF Known
  <2>. QED BY <1>2, <2>1 DEF Keeps
<1>. QED BY <1>1, <1>2

(* What a call writes keeps what its base kept.                            *)
LEMMA PatchedKeeps ==
  ASSUME NEW op, OpOK(op, known), Keeps(op.base, known)
  PROVE  Keeps(Patched(op), known) /\ Default \in DOMAIN Patched(op)
<1>1. PICK names : names = IF op.kind = "delete" THEN DOMAIN op.base \ {op.name}
                                                ELSE DOMAIN op.base \cup {op.name}
  OBVIOUS
<1>2. Patched(op) = [p \in names |-> IF p = op.name THEN op.id ELSE op.base[p]]
  BY <1>1 DEF Patched
<1>3. DOMAIN Patched(op) = names /\ Default \in names
  BY <1>1, <1>2 DEF OpOK
<1>4. ASSUME NEW p \in DOMAIN known PROVE p \in names /\ Patched(op)[p] = known[p]
  <2>1. p \in DOMAIN op.base /\ op.base[p] = known[p]
    BY <1>4 DEF Keeps
  <2>2. p \in names
    BY <1>1, <1>4, <2>1 DEF OpOK
  <2>3. p = op.name => op.id = known[p]
    BY <1>4, <2>1 DEF OpOK
  <2>. QED BY <1>2, <2>1, <2>2, <2>3
<1>. QED BY <1>3, <1>4 DEF Keeps

(* The actions of a boot that write no registry.                           *)
Silent == UNCHANGED <<file, mirror, latest, cache, known, ops, misled>> /\ dirs \subseteq dirs'

LEMMA SilentSteps ==
  /\ SaveMarker \/ CopyClose \/ Verify \/ Migrated \/ Unmark => Silent
  /\ \A f \in File : CopyOpen(f) \/ RemoveRootEntry(f) => Silent
  BY DEF SaveMarker, CopyClose, Verify, Migrated, Unmark, CopyOpen, RemoveRootEntry, Silent

(* Where they take the boot.                                               *)
LEMMA CopyingGoesOn ==
  ASSUME Moved
  PROVE  /\ SaveMarker => boot'.pc = boot.pc \/ boot'.pc = "marked"
         /\ \A f \in File : CopyOpen(f) => boot'.pc = "open"
         /\ CopyClose => boot'.pc = "copied"
         /\ Verify => boot'.pc = "failed" \/ (boot'.pc = "remove" /\ Verified)
         /\ SaveMarker \/ CopyClose \/ Verify => Copying /\ root' = root
         /\ \A f \in File : CopyOpen(f) => Copying /\ root' = root
<1>0. BootShape
  BY DEF Moved
<1>1. SaveMarker => boot'.pc = boot.pc \/ boot'.pc = "marked"
  <2>1. SaveMarker => boot' = boot \/ boot' = [boot EXCEPT !.pc = "marked"]
    BY DEF SaveMarker
  <2>2. boot' = [boot EXCEPT !.pc = "marked"] => boot'.pc = "marked"
    BY <1>0, BootBecomes DEF Becomes
  <2>. QED BY <2>1, <2>2
<1>2. ASSUME NEW f \in File, CopyOpen(f) PROVE boot'.pc = "open"
  <2>1. boot' = [boot EXCEPT !.pc = "open", !.why = f]
    BY <1>2 DEF CopyOpen
  <2>. QED BY <1>0, <2>1, BootBecomes DEF Becomes
<1>3. ASSUME CopyClose PROVE boot'.pc = "copied"
  <2>1. boot' = [boot EXCEPT !.pc = "copied", !.copied = boot.copied \cup {boot.why}, !.why = "none"]
    BY <1>3 DEF CopyClose
  <2>. QED BY <1>0, <2>1, BootBecomes DEF Becomes
<1>4. ASSUME Verify PROVE boot'.pc = "failed" \/ (boot'.pc = "remove" /\ Verified)
  <2>1. boot' = [boot EXCEPT !.pc = IF Verified THEN "remove" ELSE "failed"]
    BY <1>4 DEF Verify
  <2>2. boot'.pc = IF Verified THEN "remove" ELSE "failed"
    BY <1>0, <2>1, BootBecomes DEF Becomes
  <2>. QED BY <2>2
<1>5. /\ SaveMarker \/ CopyClose \/ Verify => Copying /\ root' = root
      /\ \A f \in File : CopyOpen(f) => Copying /\ root' = root
  BY DEF SaveMarker, CopyClose, Verify, CopyOpen, Copying
<1>. QED BY <1>1, <1>2, <1>3, <1>4, <1>5

(* What the writes of a boot do to it.                                     *)
LEMMA BootWrites ==
  ASSUME BootShape
  PROVE  /\ Migrated => boot.pc = "remove" /\ root = {} /\ Becomes("mirror", OnlyDefault)
         /\ BootMirror => boot.pc = "mirror" /\ Becomes("file", boot.reg)
         /\ BootOpen => boot.pc = "file" /\ Becomes("close", boot.reg)
         /\ Unmark => boot.pc = "unmark" /\ Becomes("mirror", boot.reg)
<1>1. ASSUME Migrated PROVE boot.pc = "remove" /\ root = {} /\ Becomes("mirror", OnlyDefault)
  <2>1. boot' = [boot EXCEPT !.pc = "mirror", !.why = "migrate", !.reg = OnlyDefault]
    BY <1>1 DEF Migrated, Writing
  <2>. QED BY <1>1, <2>1, BootBecomes DEF Migrated
<1>2. ASSUME Unmark PROVE boot.pc = "unmark" /\ Becomes("mirror", boot.reg)
  <2>1. boot' = [boot EXCEPT !.pc = "mirror", !.why = "touch", !.reg = boot.reg]
    BY <1>2 DEF Unmark, Writing
  <2>. QED BY <1>2, <2>1, BootBecomes DEF Unmark
<1>3. BootMirror => boot.pc = "mirror" /\ Becomes("file", boot.reg)
  BY BootBecomes DEF BootMirror
<1>4. BootOpen => boot.pc = "file" /\ Becomes("close", boot.reg)
  BY BootBecomes DEF BootOpen
<1>. QED BY <1>1, <1>2, <1>3, <1>4

(* A boot's last write, or the failure of one.                             *)
LEMMA BootEnds ==
  ASSUME BootShape, BootClose \/ BootWriteFails
  PROVE  /\ boot.pc = "close" /\ UNCHANGED <<root, mirror, latest, dirs, ops>>
         /\ file' = boot.reg \/ file' = file
         /\ cache' = boot.reg \/ cache' = cache
         /\ known' = known \/ known' = Known(boot.reg)
         /\ \/ boot'.pc \in {"unmark", "mirror", "up"} /\ boot'.reg = boot.reg
            \/ boot'.pc = "mirror" /\ (misled' \/ boot'.reg = latest)
            \/ boot'.pc = "off"
<1>1. \/ boot' = AfterWrite \/ boot' = Off
      \/ Becomes("mirror", mirror) /\ misled' = (misled \/ mirror # latest)
  BY BootEndsAt
<1>2. \/ boot'.pc \in {"unmark", "mirror", "up"} /\ boot'.reg = boot.reg
      \/ boot'.pc = "mirror" /\ (misled' \/ boot'.reg = latest)
      \/ boot'.pc = "off"
  BY <1>1, AfterWriteDoes, OffDoes DEF Becomes
<1>. QED BY <1>2 DEF BootClose, BootWriteFails

LEMMA AfterMoveStep == Moved /\ AfterMove /\ [StoreNext]_storeVars => AfterMove'
<1> SUFFICES ASSUME Moved, AfterMove, [StoreNext]_storeVars PROVE AfterMove'
  OBVIOUS
<1>0. BootShape
  BY DEF Moved
<1>1. CASE Copying /\ root' = root /\ Silent /\ boot'.pc \in {"marking", "marked", "open", "copied", "failed"}
  BY <1>1 DEF AfterMove, Silent, Writes, Copying
<1>2. CASE SaveMarker \/ CopyClose
  BY <1>1, <1>2, CopyingGoesOn, SilentSteps DEF Copying
<1>3. ASSUME NEW f \in File, CopyOpen(f) PROVE AfterMove'
  BY <1>1, <1>3, CopyingGoesOn, SilentSteps
<1>4. CASE Verify
  <2>1. Copying /\ root' = root /\ Silent /\ boot.names = root /\ Installed
    BY <1>4, CopyingGoesOn, SilentSteps DEF Moved
  <2>2. CASE boot'.pc = "failed"
    BY <1>1, <2>1, <2>2
  <2>3. CASE boot'.pc = "remove" /\ Verified
    <3>1. root # {}
      BY <2>1, <2>3 DEF Verified, Installed
    <3>. QED BY <2>1, <2>3, <3>1 DEF AfterMove, Silent, Writes, Copying
  <2>. QED BY <1>4, <2>2, <2>3, CopyingGoesOn
<1>5. ASSUME NEW f \in File, RemoveRootEntry(f) PROVE AfterMove'
  <2>1. Silent /\ boot' = boot /\ root' \subseteq root /\ boot.pc = "remove"
    BY <1>5, SilentSteps DEF RemoveRootEntry
  <2>. QED BY <2>1 DEF AfterMove, Silent, Writes
<1>6. CASE BootProfiles
  <2>1. UNCHANGED <<root, file, known, ops>> /\ boot.pc \in {"off", "failed"}
    BY <1>6 DEF BootProfiles
  <2>2. file = NoRegistry /\ ~Migrating => root = {}
    BY DEF Migrating
  <2>3. /\ boot'.pc \in {"mirror", "marking"}
        /\ boot'.pc = "mirror" => file # NoRegistry \/ ~Migrating
    BY <1>0, <1>6, BootProfilesDoes DEF Becomes
  <2>. QED BY <2>1, <2>2, <2>3 DEF AfterMove, Writes
<1>7. CASE Migrated
  <2>1. Silent /\ root' = {} /\ boot'.pc = "mirror" /\ boot.pc = "remove"
    BY <1>0, <1>7, BootWrites, SilentSteps DEF Becomes, Migrated
  <2>. QED BY <2>1 DEF AfterMove, Silent
<1>8. CASE Unmark
  <2>1. Silent /\ root' = root /\ boot'.pc = "mirror" /\ boot.pc = "unmark"
    BY <1>0, <1>8, BootWrites, SilentSteps DEF Becomes, Unmark
  <2>. QED BY <2>1 DEF AfterMove, Silent, Writes
<1>9. CASE BootMirror \/ BootOpen
  <2>1. /\ UNCHANGED <<root, known, ops>> /\ boot.pc \in {"mirror", "file"}
        /\ boot'.pc \in {"file", "close"}
    BY <1>0, <1>9, BootWrites DEF Becomes, BootMirror, BootOpen
  <2>. QED BY <2>1 DEF AfterMove, Writes
<1>10. CASE BootClose \/ BootWriteFails
  <2>1. /\ UNCHANGED <<root, ops>> /\ boot.pc = "close"
        /\ boot'.pc \in {"unmark", "mirror", "up", "off"}
    BY <1>0, <1>10, BootEnds
  <2>. QED BY <2>1 DEF AfterMove, Writes
<1>11. CASE Crash
  <2>1. UNCHANGED <<root, file, known>> /\ ops' = {} /\ boot'.pc = "off"
    BY <1>11, OffDoes DEF Crash
  <2>. QED BY <2>1 DEF AfterMove, Writes
<1>12. CASE boot.pc = "up" /\ UNCHANGED <<root, boot>>
  BY <1>12 DEF AfterMove, Writes
<1>13. CASE Call \/ RefreshRegistry
  <2>1. boot.pc = "up"
    BY <1>13 DEF Call, CreateProfile, DeleteProfile, PatchRegistry, RelinkProfile, Begin, RefreshRegistry
  <2>. QED BY <1>12, <1>13, <2>1, CallsApart DEF Apart
<1>14. ASSUME NEW op \in ops, CallStep \/ WriteFails(op) PROVE AfterMove'
  <2>1. boot.pc = "up"
    BY DEF AfterMove
  <2>. QED BY <1>12, <1>14, <2>1, CallsApart DEF Apart
<1>15. CASE UNCHANGED storeVars
  BY <1>15 DEF storeVars, AfterMove, Writes
<1>. QED
  BY <1>2, <1>3, <1>4, <1>5, <1>6, <1>7, <1>8, <1>9, <1>10, <1>11, <1>13, <1>14, <1>15
     DEF StoreNext, BootStep, CallStep

-----------------------------------------------------------------------------
(* The calls under way.                                                    *)
LEMMA FewerKnown ==
  ASSUME NEW op, NEW k, NEW l, OpOK(op, k), DOMAIN l \subseteq DOMAIN k
  PROVE  OpOK(op, l)
  BY DEF OpOK

LEMMA CallsBegin ==
  ASSUME Calls, NEW op, OpOK(op, known'), DOMAIN known' \subseteq DOMAIN known,
         \A other \in ops : other.name # op.name, ops' = ops \cup {op}
  PROVE  Calls'
<1>1. \A other \in ops : OpOK(other, known')
  BY FewerKnown DEF Calls
<1>2. \A other \in ops' : OpOK(other, known')
  BY <1>1
<1>3. \A one, other \in ops' : one.name = other.name => one = other
  BY DEF Calls
<1>. QED BY <1>2, <1>3 DEF Calls

LEMMA CallsGoOn ==
  ASSUME Calls, NEW op \in ops, NEW a, a # "import", ops' = At(op, a), known' = known
  PROVE  Calls'
<1>1. PICK new : new = [op EXCEPT !.at = a]
  OBVIOUS
<1>2. PICK d, n, i, b, t : op = [kind |-> d, name |-> n, id |-> i, base |-> b, at |-> t]
  BY DEF Calls, OpOK
<1>3. new = [kind |-> d, name |-> n, id |-> i, base |-> b, at |-> a]
  BY <1>1, <1>2
<1>4. OpOK(op, known)
  BY DEF Calls
<1>5. /\ new.kind = op.kind /\ new.name = op.name /\ new.id = op.id /\ new.base = op.base /\ new.at = a
      /\ new = [kind |-> new.kind, name |-> new.name, id |-> new.id, base |-> new.base, at |-> new.at]
  BY <1>2, <1>3
<1>6. OpOK(new, known)
  BY <1>4, <1>5 DEF OpOK
<1>7. ops' = (ops \ {op}) \cup {new}
  BY <1>1 DEF At
<1>8. \A other \in ops' : OpOK(other, known')
  BY <1>6, <1>7 DEF Calls
<1>9. \A one, other \in ops' : one.name = other.name => one = other
  BY <1>5, <1>7 DEF Calls
<1>. QED BY <1>8, <1>9 DEF Calls

LEMMA CallsEnd ==
  ASSUME Calls, ops' \subseteq ops, \A op \in ops' : OpOK(op, known')
  PROVE  Calls'
  BY DEF Calls

(* While the page is up a call changes the registries only.                *)
LEMMA Up == boot.pc = "up" /\ boot' = boot => BootHolds'
  BY DEF BootHolds, Writes

-----------------------------------------------------------------------------
(* The steps of a call.                                                    *)
LEMMA CreateKept ==
  ASSUME Registries, Calls, ~misled', NEW p, NEW seeded, CreateProfile(p, seeded)
  PROVE  Registries' /\ Calls'
<1>1. PICK op : /\ Begin(op)
                /\ op.kind = "create" /\ op.name = p /\ op.base = ReadRegistry
                /\ op = [kind |-> op.kind, name |-> op.name, id |-> op.id, base |-> op.base, at |-> op.at]
  BY DEF CreateProfile
<1>2. /\ ReadRegistry # NoRegistry /\ p \notin DOMAIN known /\ dirs \subseteq dirs'
      /\ UNCHANGED <<file, mirror, latest, cache, known>>
  BY <1>1, ReadKeeps DEF CreateProfile, Begin, Keeps
<1>3. OpOK(op, known')
  BY <1>1, <1>2, ReadKeeps DEF OpOK, HasDefault
<1>4. \A other \in ops : other.name # op.name
  BY <1>1 DEF Begin
<1>5. Calls'
  BY <1>1, <1>2, <1>3, <1>4, CallsBegin DEF Begin
<1>. QED BY <1>2, <1>5 DEF Registries

LEMMA DeleteKept ==
  ASSUME Registries, Calls, ~misled', NEW p, DeleteProfile(p)
  PROVE  Registries' /\ Calls'
<1>1. PICK op : /\ Begin(op)
                /\ op.kind = "delete" /\ op.name = p /\ op.base = ReadRegistry /\ op.at = "mirror"
                /\ op = [kind |-> op.kind, name |-> op.name, id |-> op.id, base |-> op.base, at |-> op.at]
  BY DEF DeleteProfile
<1>2. /\ p # Default /\ p \in DOMAIN ReadRegistry /\ dirs' = dirs \ {p}
      /\ known' = [q \in DOMAIN known \ {p} |-> known[q]]
      /\ UNCHANGED <<file, mirror, latest, cache>>
  BY DEF DeleteProfile, Forget
<1>3. ReadRegistry # NoRegistry
  BY <1>2, EmptyRegistry
<1>4. OpOK(op, known')
  BY <1>1, <1>2, <1>3, ReadKeeps DEF OpOK, HasDefault
<1>5. \A other \in ops : other.name # op.name
  BY <1>1 DEF Begin
<1>6. Calls'
  BY <1>1, <1>2, <1>4, <1>5, CallsBegin DEF Begin
<1>. QED BY <1>2, <1>6 DEF Registries, Keeps

LEMMA PatchKept ==
  ASSUME Registries, Calls, ~misled', NEW p, PatchRegistry(p)
  PROVE  Registries' /\ Calls'
<1>1. PICK op : /\ Begin(op)
                /\ op.kind = "patch" /\ op.name = p /\ op.base = ReadRegistry /\ op.at = "mirror"
                /\ op.id = ReadRegistry[p]
                /\ op = [kind |-> op.kind, name |-> op.name, id |-> op.id, base |-> op.base, at |-> op.at]
  BY DEF PatchRegistry
<1>2. p \in DOMAIN ReadRegistry /\ UNCHANGED <<file, mirror, latest, cache, known, dirs>>
  BY DEF PatchRegistry
<1>3. ReadRegistry # NoRegistry
  BY <1>2, EmptyRegistry
<1>4. OpOK(op, known')
  BY <1>1, <1>2, <1>3, ReadKeeps DEF OpOK, HasDefault
<1>5. \A other \in ops : other.name # op.name
  BY <1>1 DEF Begin
<1>6. Calls'
  BY <1>1, <1>2, <1>4, <1>5, CallsBegin DEF Begin
<1>. QED BY <1>2, <1>6 DEF Registries

LEMMA RelinkKept ==
  ASSUME Registries, Calls, ~misled', NEW p, RelinkProfile(p)
  PROVE  Registries' /\ Calls'
<1>1. PICK op, id : /\ Begin(op) /\ cache' = [cache EXCEPT ![p] = id]
                    /\ op.kind = "relink" /\ op.name = p /\ op.base = cache /\ op.at = "mirror"
                    /\ op = [kind |-> op.kind, name |-> op.name, id |-> op.id, base |-> op.base, at |-> op.at]
  <2>1. PICK id : /\ Begin([kind |-> "relink", name |-> p, id |-> id, base |-> cache, at |-> "mirror"])
                  /\ cache' = [cache EXCEPT ![p] = id]
    BY DEF RelinkProfile
  <2>2. PICK op : op = [kind |-> "relink", name |-> p, id |-> id, base |-> cache, at |-> "mirror"]
    OBVIOUS
  <2>3. Begin(op)
    BY <2>1, <2>2
  <2>4. /\ op.kind = "relink" /\ op.name = p /\ op.base = cache /\ op.at = "mirror"
        /\ op = [kind |-> op.kind, name |-> op.name, id |-> op.id, base |-> op.base, at |-> op.at]
    BY <2>2
  <2>. QED BY <2>1, <2>3, <2>4
<1>2. /\ p \in DOMAIN cache /\ UNCHANGED <<file, mirror, latest, dirs>>
      /\ known' = [q \in DOMAIN known \ {p} |-> known[q]]
  BY DEF RelinkProfile, Forget
<1>3. Default \in DOMAIN cache
  BY <1>2, EmptyRegistry DEF Registries, HasDefault
<1>4. OpOK(op, known')
  BY <1>1, <1>2, <1>3 DEF OpOK
<1>5. \A other \in ops : other.name # op.name
  BY <1>1 DEF Begin
<1>6. Calls'
  BY <1>1, <1>2, <1>4, <1>5, CallsBegin DEF Begin
<1>. QED BY <1>1, <1>2, <1>3, <1>6 DEF Registries, Keeps, HasDefault

LEMMA ImportKept ==
  ASSUME Registries, Calls, NEW op \in ops, ImportWorkspace(op)
  PROVE  Registries' /\ Calls'
<1>1. op.at = "import" /\ UNCHANGED <<file, mirror, latest, cache, known>>
  BY DEF ImportWorkspace
<1>2. CASE ops' = At(op, "mirror") /\ UNCHANGED dirs
  <2>1. Calls'
    BY <1>1, <1>2, CallsGoOn
  <2>. QED BY <1>1, <1>2, <2>1 DEF Registries
<1>3. CASE ops' = ops \ {op} /\ dirs' = dirs \ {op.name}
  <2>1. op.name \notin DOMAIN known
    BY <1>1 DEF Calls, OpOK
  <2>2. Calls'
    BY <1>1, <1>3, CallsEnd DEF Calls
  <2>. QED BY <1>1, <1>3, <2>1, <2>2 DEF Registries
<1>. QED BY <1>2, <1>3 DEF ImportWorkspace

LEMMA WriteKept ==
  ASSUME Registries, Calls, ~misled', NEW op \in ops, WriteMirror(op)
  PROVE  Registries' /\ Calls'
<1>1. /\ latest' = Patched(op) /\ (mirror' = Patched(op) \/ mirror' = mirror)
      /\ op.base = Current /\ ops' = At(op, "file")
      /\ UNCHANGED <<file, cache, known, dirs>>
  BY MirrorWrites DEF WriteMirror
<1>2. OpOK(op, known)
  BY DEF Calls
<1>3. Keeps(op.base, known)
  BY <1>1, ReadKeeps
<1>4. Keeps(latest', known') /\ Default \in DOMAIN latest'
  BY <1>1, <1>2, <1>3, PatchedKeeps
<1>5. Calls'
  BY <1>1, CallsGoOn
<1>. QED BY <1>1, <1>4, <1>5 DEF Registries, HasDefault

LEMMA OpenKept ==
  ASSUME Registries, Calls, NEW op \in ops, OpenFile(op)
  PROVE  Registries' /\ Calls'
<1>1. /\ file' = NoRegistry /\ ops' = At(op, "close")
      /\ UNCHANGED <<mirror, latest, cache, known, dirs>>
  BY DEF OpenFile
<1>2. Calls'
  BY <1>1, CallsGoOn
<1>. QED BY <1>1, <1>2 DEF Registries, HasDefault

LEMMA CloseKept ==
  ASSUME Registries, Calls, ~misled', NEW op \in ops, CloseFile(op)
  PROVE  Registries' /\ Calls'
<1>1. /\ file' = Patched(op) /\ latest = Patched(op) /\ ops' = ops \ {op}
      /\ UNCHANGED <<mirror, latest, cache, dirs>>
  BY DEF CloseFile
<1>2. CASE known' = known
  <2>1. Calls'
    BY <1>1, <1>2, CallsEnd DEF Calls
  <2>. QED BY <1>1, <1>2, <2>1 DEF Registries, HasDefault
<1>3. CASE /\ op.kind \in {"create", "relink"} /\ op.name \in dirs
           /\ known' = [p \in DOMAIN known \cup {op.name} |-> IF p = op.name THEN op.id ELSE known[p]]
  <2>1. /\ op.name \in DOMAIN file' /\ file'[op.name] = op.id
    <3>1. PICK names : /\ names = IF op.kind = "delete" THEN DOMAIN op.base \ {op.name}
                                  ELSE DOMAIN op.base \cup {op.name}
                       /\ Patched(op) = [p \in names |-> IF p = op.name THEN op.id ELSE op.base[p]]
      BY DEF Patched
    <3>. QED BY <1>1, <1>3, <3>1
  <2>2. file' = latest /\ latest' = latest
    BY <1>1
  <2>3. Keeps(latest, known')
    BY <1>3, <2>1, <2>2 DEF Registries, Keeps
  <2>4. \A other \in ops' : OpOK(other, known')
    <3>1. TAKE other \in ops'
    <3>2. OpOK(other, known) /\ other.name # op.name
      BY <1>1 DEF Calls
    <3>. QED BY <1>3, <3>2 DEF OpOK
  <2>5. Calls'
    BY <1>1, <2>4, CallsEnd
  <2>6. DOMAIN known' \subseteq dirs' \cup {Default}
    BY <1>1, <1>3 DEF Registries
  <2>. QED BY <1>1, <2>2, <2>3, <2>5, <2>6 DEF Registries, HasDefault
<1>. QED BY <1>2, <1>3 DEF CloseFile

LEMMA FailKept ==
  ASSUME Registries, Calls, NEW op \in ops, WriteFails(op)
  PROVE  Registries' /\ Calls'
<1>1. /\ ops' = ops \ {op} /\ UNCHANGED <<file, mirror, latest, cache, known, dirs>>
  BY DEF WriteFails
<1>2. Calls'
  BY <1>1, CallsEnd DEF Calls
<1>. QED BY <1>1, <1>2 DEF Registries

-----------------------------------------------------------------------------
(* The steps of a boot.                                                    *)
LEMMA SilentKept ==
  ASSUME Registries, Silent
  PROVE  Registries'
  BY DEF Registries, Silent

LEMMA BootProfilesKept ==
  ASSUME BootShape, Registries, ~misled', BootProfiles
  PROVE  Registries' /\ BootHolds'
<1>1. UNCHANGED <<file, mirror, latest, known>> /\ dirs \subseteq dirs' /\ cache' = NoRegistry
  BY DEF BootProfiles
<1>2. Registries'
  BY <1>1 DEF Registries, HasDefault
<1>3. ASSUME NEW g, Becomes("mirror", g), Keeps(g, known), Default \in DOMAIN g
      PROVE  BootHolds'
  BY <1>1, <1>3 DEF BootHolds, Becomes, Writes
<1>. USE <1>2
<1>4. CASE file # NoRegistry /\ Becomes("mirror", file)
  <2>1. Keeps(file, known) /\ Default \in DOMAIN file
    BY <1>4 DEF Registries, HasDefault
  <2>. QED BY <1>3, <1>4, <2>1
<1>5. CASE boot'.pc = "marking"
  BY <1>5 DEF BootHolds, Writes
<1>6. CASE /\ file = NoRegistry /\ ~Migrating
           /\ Becomes("mirror", IF Recovered # NoRegistry THEN Recovered ELSE OnlyDefault)
  <2>1. ReadRegistry = Current
    BY <1>6 DEF BootProfiles
  <2>. QED BY <1>3, <1>6, <2>1, RepairKeeps
<1>. QED BY <1>2, <1>4, <1>5, <1>6, BootProfilesDoes

LEMMA BootWritesKept ==
  ASSUME BootShape, Registries, BootHolds, BootMirror \/ BootOpen \/ Unmark
  PROVE  Registries' /\ BootHolds'
<1>1. CASE BootMirror
  <2>1. /\ boot.pc = "mirror" /\ boot'.pc = "file" /\ boot'.reg = boot.reg
        /\ latest' = boot.reg /\ (mirror' = boot.reg \/ mirror' = mirror)
        /\ UNCHANGED <<file, known, cache, dirs>>
    BY <1>1, BootWrites, MirrorWrites DEF Becomes, BootMirror
  <2>2. Keeps(boot.reg, known) /\ Default \in DOMAIN boot.reg
    BY <2>1 DEF BootHolds, Writes
  <2>. QED BY <2>1, <2>2 DEF Registries, HasDefault, BootHolds, Writes
<1>2. CASE BootOpen
  <2>1. /\ boot.pc = "file" /\ boot'.pc = "close" /\ boot'.reg = boot.reg
        /\ file' = NoRegistry /\ UNCHANGED <<mirror, latest, known, cache, dirs>>
    BY <1>2, BootWrites DEF Becomes, BootOpen
  <2>2. Keeps(boot.reg, known) /\ Default \in DOMAIN boot.reg /\ latest = boot.reg
    BY <2>1 DEF BootHolds, Writes
  <2>. QED BY <2>1, <2>2 DEF Registries, HasDefault, BootHolds, Writes
<1>3. CASE Unmark
  <2>1. /\ boot.pc = "unmark" /\ boot'.pc = "mirror" /\ boot'.reg = boot.reg
        /\ UNCHANGED <<file, mirror, latest, known, cache, dirs>>
    BY <1>3, BootWrites DEF Becomes, Unmark
  <2>2. Keeps(boot.reg, known) /\ Default \in DOMAIN boot.reg
    BY <2>1 DEF BootHolds, Writes
  <2>. QED BY <2>1, <2>2 DEF Registries, BootHolds, Writes
<1>. QED BY <1>1, <1>2, <1>3

LEMMA BootEndsKept ==
  ASSUME BootShape, Registries, BootHolds, ~misled', BootClose \/ BootWriteFails
  PROVE  Registries' /\ BootHolds'
<1>1. /\ boot.pc = "close" /\ UNCHANGED <<mirror, latest, dirs>>
      /\ file' = boot.reg \/ file' = file
      /\ cache' = boot.reg \/ cache' = cache
      /\ known' = known \/ known' = Known(boot.reg)
      /\ \/ boot'.pc \in {"unmark", "mirror", "up"} /\ boot'.reg \in {boot.reg, latest}
         \/ boot'.pc = "off"
  BY BootEnds
<1>2. /\ Keeps(boot.reg, known) /\ Default \in DOMAIN boot.reg
      /\ latest = boot.reg /\ file = NoRegistry
  BY <1>1 DEF BootHolds, Writes
<1>3. Keeps(boot.reg, known') /\ DOMAIN known' \subseteq DOMAIN known \cup {Default}
  BY <1>1, <1>2, KnownKeeps
<1>4. Registries'
  BY <1>1, <1>2, <1>3 DEF Registries, HasDefault
<1>5. BootHolds'
  BY <1>1, <1>2, <1>3 DEF BootHolds, Writes
<1>. QED BY <1>4, <1>5

(* The migration ends: nothing was known before it.                        *)
LEMMA MigratedKept ==
  ASSUME BootShape, AfterMove, Registries, Migrated
  PROVE  Registries' /\ BootHolds'
<1>1. Silent /\ boot.pc = "remove" /\ boot'.pc = "mirror" /\ boot'.reg = OnlyDefault
  BY BootWrites, SilentSteps DEF Becomes
<1>2. DOMAIN known = {} /\ known' = known
  BY <1>1 DEF AfterMove, Silent
<1>3. Keeps(OnlyDefault, known) /\ Default \in DOMAIN OnlyDefault
  BY <1>2 DEF Keeps, OnlyDefault
<1>. QED BY <1>1, <1>2, <1>3, SilentKept DEF BootHolds, Writes

-----------------------------------------------------------------------------
LEMMA MisledStays == [StoreNext]_storeVars /\ ~misled' => ~misled
<1>1. CASE BootProfiles \/ SaveMarker \/ CopyClose \/ Verify \/ Migrated \/ BootMirror \/ BootOpen
             \/ BootClose \/ Unmark \/ BootWriteFails \/ Crash \/ RefreshRegistry \/ UNCHANGED storeVars
  BY <1>1 DEF BootProfiles, SaveMarker, CopyClose, Verify, Migrated, BootMirror, BootOpen,
              BootClose, Unmark, BootWriteFails, Crash, RefreshRegistry, storeVars
<1>2. ASSUME NEW f \in File, CopyOpen(f) \/ RemoveRootEntry(f) PROVE misled' = misled
  BY <1>2 DEF CopyOpen, RemoveRootEntry
<1>3. ASSUME NEW op, ImportWorkspace(op) \/ WriteMirror(op) \/ OpenFile(op) \/ CloseFile(op) \/ WriteFails(op)
      PROVE  ~misled' => ~misled
  BY <1>3 DEF ImportWorkspace, WriteMirror, OpenFile, CloseFile, WriteFails
<1>4. ASSUME NEW p \in Profile,
             \/ \E seeded \in BOOLEAN : CreateProfile(p, seeded)
             \/ DeleteProfile(p) \/ PatchRegistry(p) \/ RelinkProfile(p)
      PROVE  ~misled' => ~misled
  BY <1>4 DEF CreateProfile, DeleteProfile, PatchRegistry, RelinkProfile, Begin
<1>. QED BY <1>1, <1>2, <1>3, <1>4 DEF StoreNext, BootStep, CallStep, Call

LEMMA KeptStep == Moved /\ AfterMove /\ Kept /\ [StoreNext]_storeVars => Kept'
<1> SUFFICES ASSUME Moved, AfterMove, Kept, [StoreNext]_storeVars, ~misled'
             PROVE  Registries' /\ BootHolds' /\ Calls'
  BY DEF Kept
<1>0. Registries /\ BootHolds /\ Calls /\ BootShape
  BY MisledStays DEF Kept, Moved
<1>1. ASSUME ops' = {} PROVE Calls'
  BY <1>1 DEF Calls
<1>2. ASSUME boot.pc # "up", ops' = ops PROVE Calls'
  BY <1>1, <1>2 DEF AfterMove
<1>3. CASE BootProfiles
  <2>1. boot.pc # "up" /\ ops' = ops
    BY <1>3 DEF BootProfiles
  <2>. QED BY <1>0, <1>2, <1>3, <2>1, BootProfilesKept
<1>4. ASSUME Silent, boot.pc # "up", ~Writes' PROVE Registries' /\ BootHolds' /\ Calls'
  BY <1>0, <1>2, <1>4, SilentKept DEF Silent, BootHolds, Writes
<1>5. CASE SaveMarker \/ CopyClose \/ Verify
  <2>1. boot'.pc \in {"marking", "marked", "open", "copied", "failed", "remove"} /\ Copying
    BY <1>5, CopyingGoesOn DEF Copying
  <2>. QED BY <1>4, <1>5, <2>1, SilentSteps DEF Writes, Copying
<1>6. ASSUME NEW f \in File, CopyOpen(f) PROVE Registries' /\ BootHolds' /\ Calls'
  BY <1>4, <1>6, CopyingGoesOn, SilentSteps DEF Writes, Copying
<1>7. ASSUME NEW f \in File, RemoveRootEntry(f) PROVE Registries' /\ BootHolds' /\ Calls'
  <2>1. boot.pc = "remove" /\ boot' = boot
    BY <1>7 DEF RemoveRootEntry
  <2>. QED BY <1>4, <1>7, <2>1, SilentSteps DEF Writes
<1>8. CASE Migrated
  <2>1. boot.pc # "up" /\ ops' = ops
    BY <1>8 DEF Migrated
  <2>. QED BY <1>0, <1>2, <1>8, <2>1, MigratedKept
<1>9. CASE BootMirror \/ BootOpen \/ Unmark
  <2>1. boot.pc # "up" /\ ops' = ops
    BY <1>9 DEF BootMirror, BootOpen, Unmark
  <2>. QED BY <1>0, <1>2, <1>9, <2>1, BootWritesKept
<1>10. CASE BootClose \/ BootWriteFails
  <2>1. boot.pc # "up" /\ ops' = ops
    BY <1>10 DEF BootClose, BootWriteFails
  <2>. QED BY <1>0, <1>2, <1>10, <2>1, BootEndsKept
<1>11. CASE Crash
  <2>1. /\ ops' = {} /\ cache' = NoRegistry /\ boot' = Off
        /\ UNCHANGED <<file, mirror, latest, known, dirs>>
    BY <1>11 DEF Crash
  <2>2. Registries'
    BY <1>0, <2>1 DEF Registries, HasDefault
  <2>3. BootHolds'
    BY <2>1, OffDoes DEF BootHolds, Writes
  <2>. QED BY <1>1, <2>1, <2>2, <2>3
<1>12. CASE Call
  <2>1. PICK p \in Profile : \/ \E seeded \in BOOLEAN : CreateProfile(p, seeded)
                             \/ DeleteProfile(p) \/ PatchRegistry(p) \/ RelinkProfile(p)
    BY <1>12 DEF Call
  <2>2. boot.pc = "up" /\ boot' = boot
    BY <2>1 DEF CreateProfile, DeleteProfile, PatchRegistry, RelinkProfile, Begin
  <2>3. ASSUME NEW seeded \in BOOLEAN, CreateProfile(p, seeded) PROVE Registries' /\ Calls'
    BY <1>0, <2>3, CreateKept
  <2>4. DeleteProfile(p) => Registries' /\ Calls'
    BY <1>0, DeleteKept
  <2>5. PatchRegistry(p) => Registries' /\ Calls'
    BY <1>0, PatchKept
  <2>6. RelinkProfile(p) => Registries' /\ Calls'
    BY <1>0, RelinkKept
  <2>. QED BY <2>1, <2>2, <2>3, <2>4, <2>5, <2>6, Up
<1>13. ASSUME NEW op \in ops,
              ImportWorkspace(op) \/ WriteMirror(op) \/ OpenFile(op) \/ CloseFile(op) \/ WriteFails(op)
       PROVE  Registries' /\ BootHolds' /\ Calls'
  <2>1. boot.pc = "up"
    BY DEF AfterMove
  <2>2. boot' = boot
    BY <1>13 DEF ImportWorkspace, WriteMirror, OpenFile, CloseFile, WriteFails
  <2>3. ImportWorkspace(op) => Registries' /\ Calls'
    BY <1>0, ImportKept
  <2>4. WriteMirror(op) => Registries' /\ Calls'
    BY <1>0, WriteKept
  <2>5. OpenFile(op) => Registries' /\ Calls'
    BY <1>0, OpenKept
  <2>6. CloseFile(op) => Registries' /\ Calls'
    BY <1>0, CloseKept
  <2>7. WriteFails(op) => Registries' /\ Calls'
    BY <1>0, FailKept
  <2>. QED BY <1>13, <2>1, <2>2, <2>3, <2>4, <2>5, <2>6, <2>7, Up
<1>14. CASE RefreshRegistry
  <2>1. /\ boot.pc = "up" /\ boot' = boot /\ cache' = ReadRegistry
        /\ UNCHANGED <<file, mirror, latest, known, dirs, ops>>
    BY <1>14 DEF RefreshRegistry
  <2>2. Registries'
    BY <1>0, <2>1, ReadKeeps DEF Registries, HasDefault
  <2>3. Calls'
    BY <1>0, <2>1 DEF Calls
  <2>. QED BY <2>1, <2>2, <2>3, Up
<1>15. CASE UNCHANGED storeVars
  BY <1>0, <1>15 DEF storeVars, Registries, BootHolds, Writes, Calls
<1>. QED
  BY <1>3, <1>5, <1>6, <1>7, <1>8, <1>9, <1>10, <1>11, <1>12, <1>13, <1>14, <1>15
     DEF StoreNext, BootStep, CallStep

LEMMA KeptInit == StoreInit => AfterMove /\ Kept
<1> SUFFICES ASSUME StoreInit PROVE AfterMove /\ Kept
  OBVIOUS
<1>1. /\ file = NoRegistry /\ mirror = NoRegistry /\ latest = NoRegistry /\ cache = NoRegistry /\ known = NoRegistry
      /\ boot.pc = "off" /\ ops = {}
  BY DEF StoreInit, Off
<1>2. AfterMove
  BY <1>1, EmptyRegistry DEF AfterMove, Writes
<1>3. Registries
  BY <1>1, EmptyRegistry DEF Registries, Keeps, HasDefault
<1>. QED BY <1>1, <1>2, <1>3 DEF Kept, BootHolds, Writes, Calls

(* KeepsProfiles (profiles.ts:402): a profile that was reported done is in *)
(* the registry of every page that is up, with its id, until its deletion  *)
(* begins, unless two calls of a page raced or a page read a registry while *)
(* the file was torn and the mirror had refused its last write.            *)
THEOREM ProfilesStay == StoreSpec => []KeepsProfiles
<1>1. Kept => KeepsProfiles
  BY ReadKeeps DEF Kept, KeepsProfiles, Keeps
<1>. QED BY <1>1, MovedInit, MovedStep, AfterMoveStep, KeptInit, KeptStep, PTL DEF StoreSpec

-----------------------------------------------------------------------------
(* The links of two devices: the inductive invariant.                      *)

Both(l) == \A d \in Device : Open(d, l)

(* One link is open at most, and it is the link of every call that awaits.  *)
OneOpen == \A d, x \in Device, l, k \in Link : Open(d, l) /\ Open(x, k) => l = k
TasksHere ==
  \A x \in Device : \A t \in task[x] :
    /\ Adoptions(t.links) # {}
    /\ end[x][t.link].state # "new" /\ ~end[x][t.link].fresh
    /\ \A d \in Device, l \in Link : Open(d, l) => t.link = l
EntriesOK == \A d \in Device : entry[d] # NoLink => end[d][entry[d]].state # "new"

(* An end and what its device keeps.                                        *)
EndOK(d, l) ==
  LET e == end[d][l]
  IN /\ e.state = "new" => e = NewEnd /\ chan[d][l] = <<>>
     /\ e.ready <=> e.state = "open" /\ e.local /\ e.remote
     /\ e.state = "open" =>
          /\ ~e.ready => e.fresh
          /\ e.fresh => ~e.keyed
          /\ ~e.fresh /\ ~e.keyed => task[d] # {}
          /\ e.keyed => entry[d] = l /\ store[d].known /\ e.pending = {}
          /\ e.keyed /\ task[d] = {} => e.attached = applyConsent(store[d], registry[d])

(* What is on its way to an end: the phrase, then a catalog and a consent,  *)
(* then more of these.  LineIs is about an end that knows whether the other *)
(* confirmed and has seen a catalog, and about the other end, which         *)
(* confirmed and is ready.                                                  *)
awaited(remote) == IF remote THEN 0 ELSE 1
LineIs(remote, fresh, local, ready, q) ==
  /\ remote => local
  /\ ~local => q = <<>>
  /\ local /\ ~remote => q # <<>> /\ q[1].op = "phrase-ok"
  /\ \A k \in DOMAIN q :
       /\ q[k].op # "phrase-mismatch"
       /\ q[k].op = "phrase-ok" => k = awaited(remote)
       /\ q[k].op = "phrase-ok" \/ ready
  /\ ready /\ fresh =>
       /\ Len(q) >= awaited(remote) + 2
       /\ q[awaited(remote) + 1].op = "profile-catalog"
       /\ q[awaited(remote) + 2].op = "profile-consent"
Line(d, l) == LineIs(end[d][l].remote, end[d][l].fresh,
                     end[Other(d)][l].local, end[Other(d)][l].ready, chan[d][l])

(* The consent of the other device gets to d: a catalog will be answered    *)
(* with it, or it is the last that is on its way, or d has it.              *)
Has(q, op) == \E k \in DOMAIN q : q[k].op = op
Answers(d, l) ==
  \/ ~end[d][l].ready \/ ~end[Other(d)][l].ready
  \/ task[d] # {} \/ task[Other(d)] # {}
  \/ Has(chan[Other(d)][l], "profile-catalog")
OnItsWay(q, given) ==
  \E k \in DOMAIN q : q[k] = ConsentMsg(given) /\ \A j \in DOMAIN q : j > k => q[j].op # "profile-consent"
Agree(remote, local) == \A i \in Id : (remote[i] = "yes") = (local[i] = "yes")
Heard(d, l) ==
  \/ Answers(d, l)
  \/ OnItsWay(chan[d][l], store[Other(d)].local)
  \/ ~Has(chan[d][l], "profile-consent") /\ Agree(store[d].remote, store[Other(d)].local)

Clean(d, l) == end[d][l].fresh => end[d][l].pending = {}

LinesOK == \A l \in Link : Both(l) => \A d \in Device : Line(d, l) /\ Clean(d, l) /\ Heard(d, l)
Inv == TypeOK /\ OneOpen /\ TasksHere /\ EntriesOK /\ (\A d \in Device, l \in Link : EndOK(d, l)) /\ LinesOK

-----------------------------------------------------------------------------
(* The types of the catalogs, of the records and of the controls.          *)

LEMMA OtherFacts ==
  \A d \in Device :
    /\ Other(d) \in Device /\ Other(d) # d /\ Other(Other(d)) = d
    /\ \A x \in Device : x = d \/ x = Other(d)
<1>. SUFFICES ASSUME NEW d \in Device
              PROVE  /\ Other(d) \in Device /\ Other(d) # d /\ Other(Other(d)) = d
                     /\ \A x \in Device : x = d \/ x = Other(d)
  OBVIOUS
<1>1. PICK a \in Device, b \in Device : a # b /\ Device = {a, b}
  BY TwoDevices
<1>2. \A x \in Device : Other(x) \in Device /\ Other(x) # x
  BY <1>1 DEF Other
<1>. QED BY <1>1, <1>2

(* The fields of an entry of a catalog.                                    *)
LEMMA EntryFields == \A e \in Entry : e.id \in Id /\ e.name \in Name
  BY DEF Entry

(* What autoLinkProfiles returns is a set of links.                        *)
LEMMA LinksTyped ==
  ASSUME NEW local \in SUBSET Entry, NEW remote \in SUBSET Entry, NEW record
  PROVE  autoLinkProfiles(local, remote, record) \in SUBSET AutoLink
<1>1. ASSUME NEW l \in local, NEW r \in remote
      PROVE  linked(l, r) \in AutoLink
  BY EntryFields DEF AutoLink, canonicalProfileId, linked
<1>. QED BY <1>1 DEF autoLinkProfiles

(* The ids that links give are ids.                                        *)
LEMMA AdoptedTyped ==
  ASSUME NEW links \in SUBSET AutoLink, NEW i \in Id
  PROVE  Adopted(links, i) \in Id /\ Canonical(links, i) \in Id
<1>1. \A k \in links : k.to \in Id
  BY DEF AutoLink
<1>2. Adopted(links, i) \in Id
  <2>1. CASE \E k \in Adoptions(links) : k.from = i
    <3>1. (CHOOSE k \in Adoptions(links) : k.from = i) \in Adoptions(links)
      BY <2>1
    <3>. QED BY <1>1, <2>1, <3>1 DEF Adopted, Adoptions
  <2>2. CASE ~\E k \in Adoptions(links) : k.from = i
    BY <2>2 DEF Adopted
  <2>. QED BY <2>1, <2>2
<1>3. Canonical(links, i) \in Id
  <2>1. CASE \E k \in links : k.remoteId = i
    <3>1. (CHOOSE k \in links : k.remoteId = i) \in links
      BY <2>1
    <3>. QED BY <1>1, <2>1, <3>1 DEF Canonical
  <2>2. CASE ~\E k \in links : k.remoteId = i
    BY <2>2 DEF Canonical
  <2>. QED BY <2>1, <2>2
<1>. QED BY <1>2, <1>3

(* The ids of a catalog are ids.                                           *)
LEMMA IdsTyped == \A c \in SUBSET Entry : Ids(c) \in SUBSET Id
  BY EntryFields DEF Ids

(* A catalog makes a record of a known peer, and invents none of its       *)
(* consent.                                                                *)
LEMMA UpsertTyped ==
  ASSUME NEW record \in PeerRecord, NEW local \in SUBSET Entry, NEW remote \in SUBSET Entry,
         NEW links \in SUBSET AutoLink
  PROVE  /\ upsertPeer(record, local, remote, links) \in PeerRecord
         /\ upsertPeer(record, local, remote, links).known
         /\ Agree(upsertPeer(record, local, remote, links).remote, record.remote)
<1>. DEFINE here == {Adopted(links, i) : i \in Ids(local)}
            there == {Canonical(links, i) : i \in Ids(remote)}
            L == [i \in Id |->
                   IF record.local[i] # "unset" \/ i \notin here THEN record.local[i]
                   ELSE IF i \in there THEN "yes" ELSE onlyHere]
            R == [i \in Id |->
                    IF record.remote[i] = "unset" /\ i \in there THEN "no"
                    ELSE record.remote[i]]
            P == {[e EXCEPT !.id = Canonical(links, e.id)] : e \in remote}
            N == record.linkedNames \cup {k.name : k \in links}
            U == record.unlinkedIds \cup {k.from : k \in Adoptions(links)}
<1>1. upsertPeer(record, local, remote, links)
        = [known |-> TRUE, local |-> L, remote |-> R, profiles |-> P, linkedNames |-> N, unlinkedIds |-> U]
  BY DEF upsertPeer
<1>2. /\ record.local \in ConsentMap /\ record.remote \in ConsentMap
      /\ record.linkedNames \in SUBSET Name /\ record.unlinkedIds \in SUBSET Id
  BY DEF PeerRecord
<1>3. L \in ConsentMap
  <2>. HIDE DEF here, there
  <2>. QED BY <1>2 DEF ConsentMap, Consent, onlyHere
<1>4. R \in ConsentMap /\ Agree(R, record.remote)
  <2>. HIDE DEF here, there
  <2>. QED BY <1>2 DEF ConsentMap, Consent, Agree
<1>5. P \in SUBSET Entry
  <2>1. ASSUME NEW e \in remote PROVE [e EXCEPT !.id = Canonical(links, e.id)] \in Entry
    <3>1. Canonical(links, e.id) \in Id
      BY AdoptedTyped, EntryFields
    <3>. QED BY <3>1 DEF Entry
  <2>. QED BY <2>1
<1>6. N \in SUBSET Name /\ U \in SUBSET Id
  BY <1>2 DEF Adoptions, AutoLink
<1>. HIDE DEF L, R, P, N, U
<1>. QED BY <1>1, <1>3, <1>4, <1>5, <1>6 DEF PeerRecord

(* The record of an unknown peer.                                          *)
LEMMA UnknownTyped == Unknown \in PeerRecord /\ NoConsent \in ConsentMap /\ ~Unknown.known
  BY DEF Unknown, PeerRecord, NoConsent, ConsentMap, Consent

(* Consent that moves to another id is a record of the same peer.          *)
LEMMA RemapTyped ==
  ASSUME NEW record \in PeerRecord, NEW from \in Id, NEW to \in Id
  PROVE  /\ remapPeerConsent(record, from, to) \in PeerRecord
         /\ remapPeerConsent(record, from, to).known = record.known
<1>1. ASSUME NEW map \in ConsentMap PROVE Remapped(map, from, to) \in ConsentMap
  BY DEF Remapped, ConsentMap, Consent
<1>2. record.local \in ConsentMap /\ record.remote \in ConsentMap
  BY DEF PeerRecord
<1>3. PICK L \in ConsentMap : L = Remapped(record.local, from, to)
  BY <1>1, <1>2
<1>4. PICK R \in ConsentMap : R = Remapped(record.remote, from, to)
  BY <1>1, <1>2
<1>5. remapPeerConsent(record, from, to) = [record EXCEPT !.local = L, !.remote = R]
  BY <1>3, <1>4 DEF remapPeerConsent
<1>. QED BY <1>5 DEF PeerRecord

(* A consent kept aside makes a record of the same peer.                   *)
LEMMA PendingTyped ==
  ASSUME NEW record \in PeerRecord, NEW pending \in SUBSET ConsentMap
  PROVE  /\ withPending(record, pending) \in PeerRecord
         /\ withPending(record, pending).known = record.known
         /\ pending = {} => withPending(record, pending) = record
<1>1. CASE pending = {}
  BY <1>1 DEF withPending
<1>2. CASE pending # {}
  <2>1. PICK c \in ConsentMap : c = CHOOSE x \in pending : TRUE
    BY <1>2
  <2>. QED BY <1>2, <2>1 DEF withPending, PeerRecord
<1>. QED BY <1>1, <1>2

(* What is attached are ids.                                               *)
LEMMA AttachedTyped ==
  ASSUME NEW record, NEW catalog \in SUBSET Entry
  PROVE  applyConsent(record, catalog) \in SUBSET Id
BY IdsTyped DEF applyConsent

(* A registry with a changed id is a registry.                             *)
LEMMA RelinkTyped ==
  ASSUME NEW catalog \in SUBSET Entry, NEW k \in AutoLink
  PROVE  {IF e.id = k.from THEN [e EXCEPT !.id = k.to] ELSE e : e \in catalog} \in SUBSET Entry
BY DEF Entry, AutoLink

(* The controls, by their kinds.                                           *)
LEMMA ControlFacts ==
  /\ PhraseOk \in Control /\ Mismatch \in Control
  /\ PhraseOk.op = "phrase-ok" /\ Mismatch.op = "phrase-mismatch"
  /\ \A c : CatalogMsg(c).op = "profile-catalog" /\ CatalogMsg(c).profiles = c
  /\ \A c : ConsentMsg(c).op = "profile-consent" /\ ConsentMsg(c).profiles = c
  /\ \A c \in SUBSET Entry : CatalogMsg(c) \in Control
  /\ \A c \in ConsentMap : ConsentMsg(c) \in Control
BY DEF PhraseOk, Mismatch, CatalogMsg, ConsentMsg, Control

(* What a control of a kind carries.                                       *)
LEMMA ControlKinds ==
  ASSUME NEW m \in Control
  PROVE  /\ m.op \in {"phrase-ok", "phrase-mismatch", "profile-catalog", "profile-consent"}
         /\ m.op = "profile-catalog" => m.profiles \in SUBSET Entry
         /\ m.op = "profile-consent" => m.profiles \in ConsentMap /\ m = ConsentMsg(m.profiles)
<1>1. CASE m = PhraseOk
  BY <1>1, ControlFacts
<1>2. CASE m = Mismatch
  BY <1>2, ControlFacts
<1>3. CASE \E c \in SUBSET Entry : m = CatalogMsg(c)
  BY <1>3, ControlFacts
<1>4. CASE \E c \in ConsentMap : m = ConsentMsg(c)
  BY <1>4, ControlFacts
<1>. QED BY <1>1, <1>2, <1>3, <1>4 DEF Control

-----------------------------------------------------------------------------
(* What a step makes of the ends and of the channels.                      *)

EndType == [Device -> [Link -> EndState]]
ChanType == [Device -> [Link -> Seq(Control)]]

(* The type invariant, field by field.                                     *)
LEMMA Typed ==
  ASSUME TypeOK
  PROVE  /\ end \in EndType /\ chan \in ChanType
         /\ \A d \in Device :
              /\ registry[d] \in SUBSET Entry /\ store[d] \in PeerRecord
              /\ store[d].local \in ConsentMap /\ store[d].remote \in ConsentMap
              /\ entry[d] \in Link \cup {NoLink} /\ task[d] \in SUBSET Task /\ vetoed[d] \in SUBSET Name
              /\ \A l \in Link : end[d][l] \in EndState /\ chan[d][l] \in Seq(Control)
BY DEF TypeOK, EndType, ChanType, PeerRecord

(* The fields of an end.                                                   *)
LEMMA EndFields ==
  ASSUME NEW r \in EndState
  PROVE  /\ r.state \in {"new", "open", "closed"} /\ r.local \in BOOLEAN /\ r.remote \in BOOLEAN
         /\ r.ready \in BOOLEAN /\ r.keyed \in BOOLEAN /\ r.fresh \in BOOLEAN
         /\ r.catalog \in SUBSET Entry /\ r.consent \in ConsentMap
         /\ r.pending \in SUBSET ConsentMap /\ r.attached \in SUBSET Id
BY DEF EndState

(* An end of a device changes, its channel is read, and it sends something. *)
Sending(d, l, r, own, messages) ==
  /\ end' = [end EXCEPT ![d][l] = r]
  /\ chan' = Sent([chan EXCEPT ![d][l] = own], d, l, messages)

(* What sending makes of the channels.                                     *)
LEMMA SentFacts ==
  ASSUME NEW channels \in ChanType, NEW d \in Device, NEW l \in Link, NEW messages \in Seq(Control)
  PROVE  /\ Sent(channels, d, l, messages) \in ChanType
         /\ Sent(channels, d, l, messages)[Other(d)][l]
              = IF Open(d, l) /\ Open(Other(d), l) THEN channels[Other(d)][l] \o messages
                ELSE channels[Other(d)][l]
         /\ \A x \in Device, k \in Link :
              x # Other(d) \/ k # l => Sent(channels, d, l, messages)[x][k] = channels[x][k]
<1>1. Other(d) \in Device /\ channels[Other(d)][l] \in Seq(Control)
  BY OtherFacts DEF ChanType
<1>2. channels[Other(d)][l] \o messages \in Seq(Control)
  BY <1>1
<1>. DEFINE more == channels[Other(d)][l] \o messages
<1>3. Sent(channels, d, l, messages)
        = IF Open(d, l) /\ Open(Other(d), l) THEN [channels EXCEPT ![Other(d)][l] = more] ELSE channels
  BY DEF Sent, Open
<1>. HIDE DEF more
<1>4. more \in Seq(Control)
  BY <1>2 DEF more
<1>5. /\ [channels EXCEPT ![Other(d)][l] = more] \in ChanType
      /\ [channels EXCEPT ![Other(d)][l] = more][Other(d)][l] = more
      /\ \A x \in Device, k \in Link :
           x # Other(d) \/ k # l => [channels EXCEPT ![Other(d)][l] = more][x][k] = channels[x][k]
  BY <1>1, <1>4 DEF ChanType
<1>. QED BY <1>3, <1>5 DEF more

(* What is left of ends and channels when one end moves.                   *)
LEMMA SendingFacts ==
  ASSUME TypeOK, NEW d \in Device, NEW l \in Link, NEW r \in EndState, NEW own \in Seq(Control),
         NEW messages \in Seq(Control), Sending(d, l, r, own, messages)
  PROVE  /\ end' \in EndType /\ chan' \in ChanType
         /\ end'[d][l] = r
         /\ \A x \in Device, k \in Link : x # d \/ k # l => end'[x][k] = end[x][k]
         /\ chan'[d][l] = own
         /\ chan'[Other(d)][l] = IF Open(d, l) /\ Open(Other(d), l)
                                   THEN chan[Other(d)][l] \o messages ELSE chan[Other(d)][l]
         /\ \A x \in Device, k \in Link : k # l => chan'[x][k] = chan[x][k]
<1>1. end \in EndType /\ chan \in ChanType
  BY Typed
<1>2. /\ end' \in EndType /\ end'[d][l] = r
      /\ \A x \in Device, k \in Link : x # d \/ k # l => end'[x][k] = end[x][k]
  BY <1>1 DEF Sending, EndType
<1>. DEFINE c == [chan EXCEPT ![d][l] = own]
<1>3. /\ c \in ChanType /\ c[d][l] = own
      /\ \A x \in Device, k \in Link : x # d \/ k # l => c[x][k] = chan[x][k]
  BY <1>1 DEF ChanType
<1>4. chan' = Sent(c, d, l, messages)
  BY DEF Sending
<1>. HIDE DEF c
<1>5. /\ Sent(c, d, l, messages) \in ChanType
      /\ Sent(c, d, l, messages)[Other(d)][l]
              = IF Open(d, l) /\ Open(Other(d), l) THEN c[Other(d)][l] \o messages
                ELSE c[Other(d)][l]
      /\ \A x \in Device, k \in Link :
              x # Other(d) \/ k # l => Sent(c, d, l, messages)[x][k] = c[x][k]
  BY <1>3, SentFacts
<1>6. Other(d) # d /\ Other(d) \in Device
  BY OtherFacts
<1>. QED BY <1>2, <1>3, <1>4, <1>5, <1>6

-----------------------------------------------------------------------------
(* What each step makes of an end, of the channels and of the record.       *)

LEMMA Shut ==
  ASSUME TypeOK, NEW d \in Device, NEW l \in Link
  PROVE  [end[d][l] EXCEPT !.state = "closed", !.ready = FALSE, !.attached = {}] \in EndState
<1>1. end[d][l] \in EndState
  BY Typed
<1>2. ASSUME NEW e \in EndState
      PROVE  [e EXCEPT !.state = "closed", !.ready = FALSE, !.attached = {}] \in EndState
  BY DEF EndState
<1>. QED BY <1>1, <1>2

(* The first messages are a catalog and a consent.                         *)
LEMMA OpeningTyped ==
  ASSUME TypeOK, NEW d \in Device, NEW l \in Link
  PROVE  /\ Opening(d, l) \in Seq(Control) /\ Len(Opening(d, l)) = 2
         /\ Opening(d, l)[1].op = "profile-catalog" /\ Opening(d, l)[2].op = "profile-consent"
<1>1. end[d][l].catalog \in SUBSET Entry /\ end[d][l].consent \in ConsentMap
  BY Typed, EndFields
<1>2. CatalogMsg(end[d][l].catalog) \in Control /\ ConsentMsg(end[d][l].consent) \in Control
  BY <1>1, ControlFacts
<1>. QED BY <1>2, ControlFacts DEF Opening

(* Two messages one after the other.                                       *)
LEMMA TwoMessages == \A a, b : <<a>> \o <<b>> = <<a, b>> /\ <<>> \o <<b>> = <<b>>
<1>. SUFFICES ASSUME NEW a, NEW b PROVE <<a>> \o <<b>> = <<a, b>> /\ <<>> \o <<b>> = <<b>>
  OBVIOUS
<1>1. <<a>> \in Seq({a, b}) /\ <<b>> \in Seq({a, b}) /\ <<a, b>> \in Seq({a, b}) /\ <<>> \in Seq({a, b})
  OBVIOUS
<1>2. /\ Len(<<a>> \o <<b>>) = 2 /\ (<<a>> \o <<b>>)[1] = a /\ (<<a>> \o <<b>>)[2] = b
      /\ <<a>> \o <<b>> \in Seq({a, b})
  BY <1>1, ConcatProperties
<1>. DEFINE s == <<a>> \o <<b>>
            t == <<a, b>>
<1>3. s = t
  <2>1. Len(t) = 2 /\ t[1] = a /\ t[2] = b /\ t \in Seq({a, b})
    BY <1>1
  <2>2. s \in Seq({a, b}) /\ Len(s) = 2 /\ s[1] = a /\ s[2] = b
    BY <1>2
  <2>. HIDE DEF s, t
  <2>3. \A i \in 1 .. Len(s) : s[i] = t[i]
    BY <2>1, <2>2
  <2>. QED BY <2>1, <2>2, <2>3, SeqEqual
<1>4. <<>> \o <<b>> = <<b>>
  BY <1>1, ConcatEmptySeq
<1>. QED BY <1>3, <1>4

(* An answer ends with the consent, and begins with a catalog if ids       *)
(* change.                                                                 *)
LEMMA AnswerTyped ==
  ASSUME NEW links, NEW catalog \in SUBSET Entry, NEW record \in PeerRecord
  PROVE  /\ answer(links, catalog, record) \in Seq(Control)
         /\ Len(answer(links, catalog, record)) \in 1 .. 2
         /\ \A k \in DOMAIN answer(links, catalog, record) :
              answer(links, catalog, record)[k].op \in {"profile-catalog", "profile-consent"}
         /\ answer(links, catalog, record)[Len(answer(links, catalog, record))] = ConsentMsg(record.local)
         /\ Adoptions(links) # {} => answer(links, catalog, record)[1].op = "profile-catalog"
<1>1. record.local \in ConsentMap
  BY DEF PeerRecord
<1>2. CatalogMsg(catalog) \in Control /\ ConsentMsg(record.local) \in Control
      /\ CatalogMsg(catalog).op = "profile-catalog" /\ ConsentMsg(record.local).op = "profile-consent"
  BY <1>1, ControlFacts
<1>3. CASE Adoptions(links) # {}
  <2>1. answer(links, catalog, record) = <<CatalogMsg(catalog), ConsentMsg(record.local)>>
    BY <1>3, TwoMessages DEF answer
  <2>. QED BY <1>2, <2>1
<1>4. CASE Adoptions(links) = {}
  <2>1. answer(links, catalog, record) = <<ConsentMsg(record.local)>>
    BY <1>4, TwoMessages DEF answer
  <2>. QED BY <1>2, <1>4, <2>1
<1>. QED BY <1>3, <1>4

(* The first message of a channel and the rest.                            *)
LEMMA FirstOf ==
  ASSUME TypeOK, NEW d \in Device, NEW l \in Link, chan[d][l] # <<>>
  PROVE  /\ chan[d][l] \in Seq(Control) /\ Len(chan[d][l]) \in Nat /\ Len(chan[d][l]) > 0
         /\ Head(chan[d][l]) = chan[d][l][1] /\ Head(chan[d][l]) \in Control
         /\ Tail(chan[d][l]) \in Seq(Control) /\ Len(Tail(chan[d][l])) = Len(chan[d][l]) - 1
         /\ \A k \in 1 .. Len(chan[d][l]) - 1 : Tail(chan[d][l])[k] = chan[d][l][k + 1]
<1>1. chan[d][l] \in Seq(Control)
  BY Typed
<1>. QED BY <1>1, HeadTailProperties

-----------------------------------------------------------------------------
(* The cases of a catalog: it is dealt with, or it awaits the registry.    *)

LEMMA Unread ==
  ASSUME TypeOK, NEW d \in Device, NEW l \in Link
  PROVE  chan = [chan EXCEPT ![d][l] = chan[d][l]]
BY Typed DEF ChanType

(* Where handleCatalog ends: the record is known, the session has its key,  *)
(* and what both allow of the profiles as they are now is attached.         *)
Finished(d, l, own, record, t, final, r) ==
  /\ final \in PeerRecord /\ final.known
  /\ end[d][l].pending = {} => Agree(final.remote, record.remote)
  /\ store' = [store EXCEPT ![d] = final]
  /\ entry' = [entry EXCEPT ![d] = IF end[d][l].keyed THEN entry[d] ELSE l]
  /\ r \in EndState
  /\ r.state = end[d][l].state /\ r.local = end[d][l].local /\ r.remote = end[d][l].remote
  /\ r.ready = end[d][l].ready /\ r.keyed /\ ~r.fresh /\ r.pending = {}
  /\ r.attached = applyConsent(final, registry[d])
  /\ Sending(d, l, r, own, answer(t.links, registry[d], final))
  /\ answer(t.links, registry[d], final) \in Seq(Control)

(* A catalog that is dealt with, as one change of an end and a record.     *)
LEMMA Finishes ==
  ASSUME TypeOK, NEW d \in Device, NEW l \in Link, NEW own, NEW channels,
         channels = [chan EXCEPT ![d][l] = own], NEW record \in PeerRecord, NEW t,
         t.links \in SUBSET AutoLink, t.local \in SUBSET Entry, t.remote \in SUBSET Entry,
         FinishCatalog(d, l, channels, record, t)
  PROVE  \E final, r : Finished(d, l, own, record, t, final, r)
<1>. DEFINE up == upsertPeer(record, t.local, t.remote, t.links)
            final == withPending(up, end[d][l].pending)
            att == applyConsent(final, registry[d])
            r == [end[d][l] EXCEPT !.keyed = TRUE, !.fresh = FALSE, !.pending = {},
                                   !.catalog = registry[d], !.consent = final.local,
                                   !.attached = att]
<1>1. /\ end[d][l] \in EndState /\ registry[d] \in SUBSET Entry
      /\ end[d][l].pending \in SUBSET ConsentMap
  BY Typed, EndFields
<1>2. up \in PeerRecord /\ up.known /\ Agree(up.remote, record.remote)
  BY UpsertTyped
<1>. HIDE DEF up
<1>3. final \in PeerRecord /\ final.known /\ (end[d][l].pending = {} => final = up)
  BY <1>1, <1>2, PendingTyped
<1>4. /\ store' = [store EXCEPT ![d] = final]
      /\ entry' = [entry EXCEPT ![d] = IF end[d][l].keyed THEN entry[d] ELSE l]
      /\ end' = [end EXCEPT ![d][l] = r]
      /\ chan' = Sent(channels, d, l, answer(t.links, registry[d], final))
  BY DEF FinishCatalog, up
<1>. HIDE DEF final
<1>5. att \in SUBSET Id /\ final.local \in ConsentMap
  BY <1>1, <1>3, AttachedTyped DEF PeerRecord
<1>6. att = applyConsent(final, registry[d])
  OBVIOUS
<1>. HIDE DEF att
<1>7. /\ r \in EndState /\ r.state = end[d][l].state /\ r.local = end[d][l].local
      /\ r.remote = end[d][l].remote /\ r.ready = end[d][l].ready /\ r.keyed /\ ~r.fresh
      /\ r.pending = {} /\ r.attached = att
  BY <1>1, <1>5 DEF EndState
<1>. HIDE DEF r
<1>8. Sending(d, l, r, own, answer(t.links, registry[d], final))
  BY <1>4 DEF Sending
<1>9. answer(t.links, registry[d], final) \in Seq(Control)
  BY <1>1, <1>3, AnswerTyped
<1>10. end[d][l].pending = {} => Agree(final.remote, record.remote)
  BY <1>2, <1>3
<1>11. Finished(d, l, own, record, t, final, r)
  BY <1>3, <1>4, <1>6, <1>7, <1>8, <1>9, <1>10 DEF Finished
<1>. QED BY <1>11

(* Types after a step that moves one end.                                   *)
LEMMA FinishTypes ==
  ASSUME TypeOK, NEW d \in Device, NEW l \in Link, NEW own \in Seq(Control), NEW record, NEW t,
         NEW final, NEW r, Finished(d, l, own, record, t, final, r)
  PROVE  /\ end' \in EndType /\ chan' \in ChanType
         /\ store' \in [Device -> PeerRecord] /\ entry' \in [Device -> Link \cup {NoLink}]
<1>1. end' \in EndType /\ chan' \in ChanType
  BY SendingFacts DEF Finished
<1>2. store' \in [Device -> PeerRecord]
  BY DEF Finished, TypeOK
<1>3. entry' \in [Device -> Link \cup {NoLink}]
  <2>1. (IF end[d][l].keyed THEN entry[d] ELSE l) \in Link \cup {NoLink}
    BY Typed
  <2>. HIDE DEF Finished
  <2>. QED BY <2>1 DEF Finished, TypeOK
<1>. QED BY <1>1, <1>2, <1>3

(* A catalog: how the call of handleCatalog goes on.                        *)
CatalogDone(d, l, record, final, r) ==
  \E t : /\ Finished(d, l, Tail(chan[d][l]), record, t, final, r)
         /\ UNCHANGED <<registry, task>>
CatalogAwaits(d, l, record, t, r) ==
  /\ t \in Task /\ t.link = l /\ Adoptions(t.links) # {} /\ t.now \in t.links /\ t.local = registry[d]
  /\ registry' \in [Device -> SUBSET Entry] /\ \A x \in Device : x # d => registry'[x] = registry[x]
  /\ task' = [task EXCEPT ![d] = task[d] \cup {t}]
  /\ store' = [store EXCEPT ![d] = record]
  /\ r \in EndState /\ ~r.fresh /\ r = [end[d][l] EXCEPT !.fresh = FALSE]
  /\ Sending(d, l, r, Tail(chan[d][l]), <<>>)
  /\ UNCHANGED entry

(* Only the registry of the device changes.                                *)
LEMMA RelinkFacts ==
  ASSUME TypeOK, NEW d \in Device, NEW k \in AutoLink, relinkProfile(d, k)
  PROVE  /\ registry' \in [Device -> SUBSET Entry]
         /\ \A x \in Device : x # d => registry'[x] = registry[x]
<1>. DEFINE c == {IF e.id = k.from THEN [e EXCEPT !.id = k.to] ELSE e : e \in registry[d]}
<1>1. registry' = [registry EXCEPT ![d] = c]
  BY DEF relinkProfile
<1>2. c \in SUBSET Entry
  BY Typed, RelinkTyped
<1>. HIDE DEF c
<1>. QED BY <1>1, <1>2 DEF TypeOK

(* A catalog is dealt with at once, or it awaits the registry.             *)
LEMMA CatalogCases ==
  ASSUME TypeOK, NEW d \in Device, NEW l \in Link, handleCatalog(d, l)
  PROVE  LET record == IF end[d][l].fresh THEN Unknown ELSE store[d]
         IN /\ record \in PeerRecord
            /\ \/ \E final, r : CatalogDone(d, l, record, final, r)
               \/ \E t, r : CatalogAwaits(d, l, record, t, r)
<1>. DEFINE remote == Head(chan[d][l]).profiles
            record == IF end[d][l].fresh THEN Unknown ELSE store[d]
            links == autoLinkProfiles(registry[d], remote, record)
            possible == {k \in Adoptions(links) : CanRelink(d, k)}
            tt(k) == [link |-> l, links |-> links, now |-> k, left |-> possible \ {k},
                      local |-> registry[d], remote |-> remote]
            done == [links |-> links, local |-> registry[d], remote |-> remote]
            own == Tail(chan[d][l])
<1>1. chan[d][l] # <<>> /\ Head(chan[d][l]).op = "profile-catalog"
  BY DEF handleCatalog, Arrives
<1>2. remote \in SUBSET Entry /\ own \in Seq(Control)
  BY <1>1, FirstOf, ControlKinds
<1>3. record \in PeerRecord
  BY Typed, UnknownTyped
<1>. HIDE DEF remote, record
<1>4. registry[d] \in SUBSET Entry /\ end[d][l] \in EndState
  BY Typed
<1>5. links \in SUBSET AutoLink
  BY <1>2, <1>4, LinksTyped
<1>6. \/ /\ FinishCatalog(d, l, Taken(d, l), record, done)
         /\ UNCHANGED <<registry, task>>
      \/ /\ \E k \in possible : relinkProfile(d, k) /\ task' = [task EXCEPT ![d] = task[d] \cup {tt(k)}]
         /\ store' = [store EXCEPT ![d] = record]
         /\ end' = [end EXCEPT ![d][l].fresh = FALSE]
         /\ chan' = Taken(d, l)
         /\ UNCHANGED entry
  BY DEF handleCatalog, remote, record
<1>. HIDE DEF links
<1>7. CASE FinishCatalog(d, l, Taken(d, l), record, done) /\ UNCHANGED <<registry, task>>
  <2>1. /\ done.links \in SUBSET AutoLink /\ done.local \in SUBSET Entry
        /\ done.remote \in SUBSET Entry
    BY <1>2, <1>4, <1>5
  <2>2. Taken(d, l) = [chan EXCEPT ![d][l] = own]
    BY DEF Taken
  <2>. HIDE DEF done, own
  <2>3. \E final, r : Finished(d, l, own, record, done, final, r)
    BY <1>3, <1>7, <2>1, <2>2, Finishes
  <2>4. \E final, r : CatalogDone(d, l, record, final, r)
    BY <1>7, <2>3 DEF CatalogDone, own
  <2>. QED BY <1>3, <2>4 DEF record
<1>8. CASE /\ \E k \in possible : relinkProfile(d, k) /\ task' = [task EXCEPT ![d] = task[d] \cup {tt(k)}]
           /\ store' = [store EXCEPT ![d] = record]
           /\ end' = [end EXCEPT ![d][l].fresh = FALSE]
           /\ chan' = Taken(d, l)
           /\ UNCHANGED entry
  <2>1. PICK k \in possible : relinkProfile(d, k) /\ task' = [task EXCEPT ![d] = task[d] \cup {tt(k)}]
    BY <1>8
  <2>2. k \in links /\ k \in AutoLink /\ Adoptions(links) # {} /\ possible \subseteq AutoLink
    BY <1>5 DEF Adoptions
  <2>3. tt(k) \in Task /\ tt(k).link = l /\ tt(k).links = links /\ tt(k).now = k /\ tt(k).local = registry[d]
    BY <1>2, <1>4, <1>5, <2>2 DEF Task
  <2>4. PICK t : t = tt(k)
    OBVIOUS
  <2>. DEFINE r == [end[d][l] EXCEPT !.fresh = FALSE]
  <2>5. r \in EndState /\ ~r.fresh
    BY <1>4 DEF EndState
  <2>6. end' = [end EXCEPT ![d][l] = r]
    BY <1>8
  <2>7. chan' = Sent([chan EXCEPT ![d][l] = own], d, l, <<>>)
    <3>1. Taken(d, l) = [chan EXCEPT ![d][l] = own]
      BY DEF Taken
    <3>2. [chan EXCEPT ![d][l] = own] \in ChanType
      BY <1>2, Typed DEF ChanType
    <3>. DEFINE c == [chan EXCEPT ![d][l] = own]
    <3>3. c[Other(d)][l] \in Seq(Control) /\ Other(d) \in Device
      BY <3>2, OtherFacts DEF ChanType
    <3>. HIDE DEF c
    <3>4. c[Other(d)][l] \o <<>> = c[Other(d)][l]
      BY <3>3, ConcatEmptySeq
    <3>5. [c EXCEPT ![Other(d)][l] = c[Other(d)][l] \o <<>>] = c
      BY <3>2, <3>3, <3>4 DEF c, ChanType
    <3>6. Sent(c, d, l, <<>>) = c
      BY <3>5 DEF Sent
    <3>. QED BY <1>8, <3>1, <3>6 DEF c
  <2>. HIDE DEF r
  <2>8. registry' \in [Device -> SUBSET Entry] /\ \A x \in Device : x # d => registry'[x] = registry[x]
    BY <2>1, <2>2, RelinkFacts
  <2>9. CatalogAwaits(d, l, record, t, r)
    <3>. HIDE DEF tt
    <3>1. t \in Task /\ t.link = l /\ Adoptions(t.links) # {} /\ t.now \in t.links /\ t.local = registry[d]
      BY <2>2, <2>3, <2>4
    <3>2. task' = [task EXCEPT ![d] = task[d] \cup {t}]
      BY <2>1, <2>4
    <3>. QED BY <1>8, <2>5, <2>6, <2>7, <2>8, <3>1, <3>2 DEF CatalogAwaits, Sending, r, own
  <2>. QED BY <1>3, <2>9 DEF record
<1>. QED BY <1>6, <1>7, <1>8

-----------------------------------------------------------------------------
(* What is on its way, when a channel grows and when it is read.           *)

LEMMA SeqMore ==
  ASSUME NEW q \in Seq(Control), NEW m \in Seq(Control)
  PROVE  /\ q \o m \in Seq(Control) /\ Len(q \o m) = Len(q) + Len(m)
         /\ Len(q) \in Nat /\ Len(m) \in Nat /\ DOMAIN q = 1 .. Len(q) /\ DOMAIN m = 1 .. Len(m)
         /\ DOMAIN (q \o m) = 1 .. Len(q) + Len(m)
         /\ \A k \in 1 .. Len(q) : (q \o m)[k] = q[k]
         /\ \A k \in Len(q) + 1 .. Len(q) + Len(m) : (q \o m)[k] = m[k - Len(q)]
OBVIOUS

(* A channel that is read.                                                 *)
LEMMA SeqTail ==
  ASSUME NEW q \in Seq(Control), q # <<>>
  PROVE  /\ Tail(q) \in Seq(Control) /\ Len(q) \in Nat /\ Len(q) >= 1 /\ Len(Tail(q)) = Len(q) - 1
         /\ DOMAIN q = 1 .. Len(q) /\ DOMAIN Tail(q) = 1 .. Len(q) - 1
         /\ \A k \in 1 .. Len(q) - 1 : Tail(q)[k] = q[k + 1]
         /\ Head(q) = q[1]
BY HeadTailProperties

(* What a channel has after it grew.                                       *)
LEMMA HasMore ==
  ASSUME NEW q \in Seq(Control), NEW m \in Seq(Control), NEW op
  PROVE  Has(q \o m, op) <=> Has(q, op) \/ Has(m, op)
<1>1. ASSUME Has(q, op) PROVE Has(q \o m, op)
  BY <1>1, SeqMore DEF Has
<1>2. ASSUME Has(m, op) PROVE Has(q \o m, op)
  <2>1. PICK k \in DOMAIN m : m[k].op = op
    BY <1>2 DEF Has
  <2>. DEFINE j == Len(q) + k
  <2>2. j \in Len(q) + 1 .. Len(q) + Len(m) /\ j - Len(q) = k /\ j \in DOMAIN (q \o m)
    BY SeqMore
  <2>3. (q \o m)[j] = m[k]
    BY <2>2, SeqMore
  <2>. QED BY <2>1, <2>2, <2>3 DEF Has
<1>3. ASSUME Has(q \o m, op) PROVE Has(q, op) \/ Has(m, op)
  <2>1. PICK k \in DOMAIN (q \o m) : (q \o m)[k].op = op
    BY <1>3 DEF Has
  <2>2. CASE k \in 1 .. Len(q)
    BY <2>1, <2>2, SeqMore DEF Has
  <2>3. CASE k \in Len(q) + 1 .. Len(q) + Len(m)
    <3>1. k - Len(q) \in DOMAIN m
      BY <2>3, SeqMore
    <3>. QED BY <2>1, <2>3, <3>1, SeqMore DEF Has
  <2>. QED BY <2>1, <2>2, <2>3, SeqMore
<1>. QED BY <1>1, <1>2, <1>3

(* What a channel has after it was read.                                   *)
LEMMA HasTail ==
  ASSUME NEW q \in Seq(Control), q # <<>>, NEW op
  PROVE  /\ Has(Tail(q), op) => Has(q, op)
         /\ q[1].op # op /\ Has(q, op) => Has(Tail(q), op)
<1>1. ASSUME Has(Tail(q), op) PROVE Has(q, op)
  <2>1. PICK k \in DOMAIN Tail(q) : Tail(q)[k].op = op
    BY <1>1 DEF Has
  <2>2. k + 1 \in DOMAIN q /\ q[k + 1] = Tail(q)[k]
    BY SeqTail
  <2>. QED BY <2>1, <2>2 DEF Has
<1>2. ASSUME q[1].op # op, Has(q, op) PROVE Has(Tail(q), op)
  <2>1. PICK k \in DOMAIN q : q[k].op = op
    BY <1>2 DEF Has
  <2>. DEFINE j == k - 1
  <2>2. j \in DOMAIN Tail(q) /\ Tail(q)[j] = q[k]
    <3>1. k # 1
      BY <1>2, <2>1
    <3>2. j \in 1 .. Len(q) - 1 /\ j + 1 = k
      BY <3>1, SeqTail
    <3>. QED BY <3>2, SeqTail
  <2>. QED BY <2>1, <2>2 DEF Has
<1>. QED BY <1>1, <1>2

(* A consent on its way stays the last if none follows.                    *)
LEMMA OnMore ==
  ASSUME NEW q \in Seq(Control), NEW m \in Seq(Control), NEW given, OnItsWay(q, given),
         ~Has(m, "profile-consent")
  PROVE  OnItsWay(q \o m, given)
<1>1. PICK k \in DOMAIN q : q[k] = ConsentMsg(given) /\ \A j \in DOMAIN q : j > k => q[j].op # "profile-consent"
  BY DEF OnItsWay
<1>2. k \in DOMAIN (q \o m) /\ (q \o m)[k] = ConsentMsg(given)
  BY <1>1, SeqMore
<1>3. ASSUME NEW j \in DOMAIN (q \o m), j > k PROVE (q \o m)[j].op # "profile-consent"
  <2>1. CASE j \in 1 .. Len(q)
    BY <1>1, <1>3, <2>1, SeqMore
  <2>2. CASE j \in Len(q) + 1 .. Len(q) + Len(m)
    <3>1. j - Len(q) \in DOMAIN m
      BY <2>2, SeqMore
    <3>. QED BY <2>2, <3>1, SeqMore DEF Has
  <2>. QED BY <2>1, <2>2, SeqMore
<1>. QED BY <1>2, <1>3 DEF OnItsWay

(* A consent that was sent last is on its way.                             *)
LEMMA OnLast ==
  ASSUME NEW q \in Seq(Control), NEW m \in Seq(Control), NEW given, m # <<>>,
         m[Len(m)] = ConsentMsg(given)
  PROVE  OnItsWay(q \o m, given)
<1>. DEFINE k == Len(q) + Len(m)
<1>1. Len(m) >= 1
  OBVIOUS
<1>2. k \in DOMAIN (q \o m) /\ (q \o m)[k] = m[Len(m)]
  <2>1. k \in Len(q) + 1 .. Len(q) + Len(m) /\ k - Len(q) = Len(m)
    BY <1>1, SeqMore
  <2>. QED BY <2>1, SeqMore
<1>3. \A j \in DOMAIN (q \o m) : ~(j > k)
  BY SeqMore
<1>. HIDE DEF k
<1>. QED BY <1>2, <1>3 DEF OnItsWay

(* A consent on its way is the one that is read, or still on its way.      *)
LEMMA OnTail ==
  ASSUME NEW q \in Seq(Control), q # <<>>, NEW given, OnItsWay(q, given)
  PROVE  \/ OnItsWay(Tail(q), given)
         \/ q[1] = ConsentMsg(given) /\ ~Has(Tail(q), "profile-consent")
<1>1. PICK k \in DOMAIN q : q[k] = ConsentMsg(given) /\ \A j \in DOMAIN q : j > k => q[j].op # "profile-consent"
  BY DEF OnItsWay
<1>2. CASE k = 1
  <2>1. ASSUME NEW j \in DOMAIN Tail(q) PROVE Tail(q)[j].op # "profile-consent"
    <3>1. j + 1 \in DOMAIN q /\ j + 1 > k /\ q[j + 1] = Tail(q)[j]
      BY <1>2, SeqTail
    <3>. QED BY <1>1, <3>1
  <2>. QED BY <1>1, <1>2, <2>1 DEF Has
<1>3. CASE k # 1
  <2>. DEFINE i == k - 1
  <2>1. i \in DOMAIN Tail(q) /\ Tail(q)[i] = q[k]
    <3>1. i \in 1 .. Len(q) - 1 /\ i + 1 = k
      BY <1>3, SeqTail
    <3>. QED BY <3>1, SeqTail
  <2>2. ASSUME NEW j \in DOMAIN Tail(q), j > i PROVE Tail(q)[j].op # "profile-consent"
    <3>1. j + 1 \in DOMAIN q /\ j + 1 > k /\ q[j + 1] = Tail(q)[j]
      BY <2>2, SeqTail
    <3>. QED BY <1>1, <3>1
  <2>. HIDE DEF i
  <2>3. OnItsWay(Tail(q), given)
    BY <1>1, <2>1, <2>2 DEF OnItsWay
  <2>. QED BY <2>3
<1>. QED BY <1>2, <1>3

-----------------------------------------------------------------------------

(* An end that has seen a catalog asks less of what is on its way.         *)
LEMMA LineKept ==
  ASSUME NEW remote \in BOOLEAN, NEW fresh \in BOOLEAN, NEW local \in BOOLEAN, NEW ready \in BOOLEAN,
         NEW q, LineIs(remote, fresh, local, ready, q), NEW still \in BOOLEAN, still => fresh
  PROVE  LineIs(remote, still, local, ready, q)
BY DEF LineIs

(* More catalogs and consents may follow.                                  *)
LEMMA LineMore ==
  ASSUME NEW remote \in BOOLEAN, NEW fresh \in BOOLEAN, NEW local \in BOOLEAN, NEW ready \in BOOLEAN,
         NEW q \in Seq(Control), NEW m \in Seq(Control), LineIs(remote, fresh, local, ready, q), local, ready,
         \A k \in DOMAIN m : m[k].op \in {"profile-catalog", "profile-consent"}
  PROVE  LineIs(remote, fresh, local, ready, q \o m)
<1>. DEFINE w == q \o m
            a == awaited(remote)
<1>0. a \in {0, 1}
  BY DEF awaited
<1>1. /\ Len(w) = Len(q) + Len(m) /\ Len(q) \in Nat /\ Len(m) \in Nat /\ DOMAIN q = 1 .. Len(q)
      /\ \A k \in 1 .. Len(q) : w[k] = q[k]
  BY SeqMore
<1>2. ASSUME NEW k \in DOMAIN w
      PROVE  /\ w[k].op # "phrase-mismatch"
             /\ w[k].op = "phrase-ok" => k = a
  <2>1. CASE k \in 1 .. Len(q)
    BY <2>1, <1>1 DEF LineIs
  <2>2. CASE k \in Len(q) + 1 .. Len(q) + Len(m)
    <3>1. k - Len(q) \in DOMAIN m /\ w[k] = m[k - Len(q)]
      BY <2>2, SeqMore
    <3>. QED BY <3>1
  <2>. QED BY <2>1, <2>2, SeqMore
<1>3. local /\ ~remote => w # <<>> /\ w[1].op = "phrase-ok"
  BY <1>1 DEF LineIs
<1>4. ready /\ fresh => /\ Len(w) >= a + 2
                        /\ w[a + 1].op = "profile-catalog"
                        /\ w[a + 2].op = "profile-consent"
  <2>. SUFFICES ASSUME fresh PROVE /\ Len(w) >= a + 2
                        /\ w[a + 1].op = "profile-catalog"
                        /\ w[a + 2].op = "profile-consent"
    OBVIOUS
  <2>1. Len(q) >= a + 2 /\ q[a + 1].op = "profile-catalog" /\ q[a + 2].op = "profile-consent"
    BY DEF LineIs
  <2>. HIDE DEF w, a
  <2>2. a + 1 \in 1 .. Len(q) /\ a + 2 \in 1 .. Len(q)
    BY <1>0, <1>1, <2>1
  <2>. QED BY <1>0, <1>1, <2>1, <2>2
<1>5. remote => local
  OBVIOUS
<1>. HIDE DEF w
<1>. QED BY <1>2, <1>3, <1>4, <1>5 DEF LineIs, w

(* A catalog or a consent is read.                                         *)
LEMMA LineTail ==
  ASSUME NEW fresh \in BOOLEAN, NEW local \in BOOLEAN, NEW ready \in BOOLEAN, NEW q \in Seq(Control),
         q # <<>>, LineIs(TRUE, fresh, local, ready, q), q[1].op # "phrase-ok"
  PROVE  ready /\ local /\ LineIs(TRUE, FALSE, local, ready, Tail(q))
<1>1. 1 \in DOMAIN q
  BY SeqTail
<1>2. ready /\ local
  BY <1>1 DEF LineIs
<1>3. ASSUME NEW k \in DOMAIN Tail(q)
      PROVE  /\ Tail(q)[k].op # "phrase-mismatch"
             /\ Tail(q)[k].op # "phrase-ok"
  <2>1. k + 1 \in DOMAIN q /\ q[k + 1] = Tail(q)[k] /\ k + 1 # 0
    BY SeqTail
  <2>. QED BY <2>1 DEF LineIs, awaited
<1>. QED BY <1>2, <1>3 DEF LineIs

(* An end confirms: nothing was on its way from it.                         *)
LEMMA LineConfirmed ==
  ASSUME NEW remote \in BOOLEAN, NEW fresh, NEW q \in Seq(Control), LineIs(remote, fresh, FALSE, FALSE, q),
         NEW ready \in BOOLEAN, NEW m \in Seq(Control),
         m = <<>> \/ (Len(m) = 2 /\ m[1].op = "profile-catalog" /\ m[2].op = "profile-consent"),
         ready <=> m # <<>>
  PROVE  ~remote /\ LineIs(remote, fresh, TRUE, ready, q \o (<<PhraseOk>> \o m))
<1>1. ~remote /\ q = <<>>
  BY DEF LineIs
<1>. DEFINE p == <<PhraseOk>>
            w == p \o m
<1>2. p \in Seq(Control) /\ Len(p) = 1 /\ p[1].op = "phrase-ok"
  BY ControlFacts
<1>3. q \o w = w
  <2>1. w \in Seq(Control)
    BY <1>2
  <2>. HIDE DEF w
  <2>. QED BY <1>1, <2>1
<1>. HIDE DEF p
<1>4. /\ Len(w) = 1 + Len(m) /\ DOMAIN w = 1 .. 1 + Len(m) /\ w[1] = p[1] /\ Len(m) \in Nat
      /\ \A k \in 2 .. 1 + Len(m) : w[k] = m[k - 1]
  <2>1. /\ Len(w) = Len(p) + Len(m) /\ DOMAIN w = 1 .. Len(p) + Len(m) /\ Len(m) \in Nat
        /\ \A k \in 1 .. Len(p) : w[k] = p[k]
        /\ \A k \in Len(p) + 1 .. Len(p) + Len(m) : w[k] = m[k - Len(p)]
    BY <1>2, SeqMore
  <2>. HIDE DEF w
  <2>. QED BY <1>2, <2>1
<1>. HIDE DEF w
<1>5. CASE m = <<>>
  <2>1. Len(w) = 1 /\ DOMAIN w = {1} /\ w[1].op = "phrase-ok" /\ ~ready
    BY <1>2, <1>4, <1>5
  <2>2. LineIs(remote, fresh, TRUE, ready, w)
    BY <1>1, <2>1 DEF LineIs, awaited
  <2>. QED BY <1>1, <1>3, <2>2 DEF w, p
<1>6. CASE m # <<>>
  <2>1. Len(w) = 3 /\ DOMAIN w = {1, 2, 3} /\ w[1].op = "phrase-ok" /\ ready
        /\ w[2].op = "profile-catalog" /\ w[3].op = "profile-consent"
    BY <1>2, <1>4, <1>6
  <2>6. w # <<>>
    <3>1. Len(w) = 3 /\ Len(<<>>) # 3
      BY <2>1
    <3>. QED BY <3>1, Zenon
  <2>7. awaited(remote) = 1
    BY <1>1 DEF awaited
  <2>3. w # <<>> /\ awaited(remote) = 1 /\ ready
    BY <2>1, <2>6, <2>7
  <2>4. /\ Len(w) >= 1 + 2 /\ w[1 + 1].op = "profile-catalog" /\ w[1 + 2].op = "profile-consent"
    BY <2>1
  <2>5. \A k \in DOMAIN w : /\ w[k].op # "phrase-mismatch" /\ (w[k].op = "phrase-ok" => k = 1)
    BY <2>1
  <2>2. LineIs(remote, fresh, TRUE, ready, w)
    BY <1>1, <2>1, <2>3, <2>4, <2>5 DEF LineIs
  <2>. QED BY <1>1, <1>3, <2>2 DEF w, p
<1>. QED BY <1>5, <1>6

(* An end gets ready: only the phrase was on its way from it.               *)
LEMMA LineReady ==
  ASSUME NEW remote \in BOOLEAN, NEW fresh, NEW q \in Seq(Control), LineIs(remote, fresh, TRUE, FALSE, q),
         NEW m \in Seq(Control),
         Len(m) = 2, m[1].op = "profile-catalog", m[2].op = "profile-consent"
  PROVE  LineIs(remote, fresh, TRUE, TRUE, q \o m)
<1>. DEFINE w == q \o m
            a == awaited(remote)
<1>0. a \in {0, 1} /\ (remote => a = 0) /\ (~remote => a = 1)
  BY DEF awaited
<1>1. /\ w \in Seq(Control) /\ Len(w) = Len(q) + 2 /\ Len(q) \in Nat /\ DOMAIN q = 1 .. Len(q) /\ DOMAIN w = 1 .. Len(q) + 2
      /\ \A k \in 1 .. Len(q) : w[k] = q[k]
      /\ \A k \in Len(q) + 1 .. Len(q) + 2 : w[k] = m[k - Len(q)]
  BY SeqMore
<1>2. \A k \in DOMAIN q : q[k].op = "phrase-ok" /\ k = a
  BY DEF LineIs
<1>3. ~remote => q # <<>> /\ q[1].op = "phrase-ok"
  BY DEF LineIs
<1>. HIDE DEF w, a
<1>4. Len(q) = a
  <2>1. CASE Len(q) = 0
    BY <1>0, <1>3, <2>1
  <2>2. CASE Len(q) # 0
    <3>1. 1 \in DOMAIN q /\ Len(q) \in DOMAIN q
      BY <1>1, <2>2
    <3>. QED BY <1>2, <3>1
  <2>. QED BY <2>1, <2>2
<1>5. w[a + 1] = m[1] /\ w[a + 2] = m[2] /\ Len(w) = a + 2
  BY <1>0, <1>1, <1>4
<1>6. ASSUME NEW k \in DOMAIN w PROVE /\ w[k].op # "phrase-mismatch"
                                      /\ w[k].op = "phrase-ok" => k = a
  <2>1. CASE k \in 1 .. Len(q)
    BY <1>1, <1>2, <2>1
  <2>2. CASE k = a + 1 \/ k = a + 2
    BY <1>5, <2>2
  <2>. QED BY <1>0, <1>1, <1>4, <2>1, <2>2
<1>7. ~remote => w # <<>> /\ w[1].op = "phrase-ok"
  <2>. SUFFICES ASSUME ~remote PROVE w # <<>> /\ w[1].op = "phrase-ok"
    OBVIOUS
  <2>1. a = 1 /\ 1 \in 1 .. Len(q) /\ Len(w) = 3
    BY <1>0, <1>1, <1>4
  <2>2. w[1] = q[1]
    BY <1>1, <2>1
  <2>3. w # <<>>
    BY <1>1, <2>1
  <2>. QED BY <1>3, <2>2, <2>3
<1>8. LineIs(remote, fresh, TRUE, TRUE, w)
  BY <1>5, <1>6, <1>7 DEF LineIs, a
<1>. QED BY <1>8 DEF w

(* The phrase arrives.                                                      *)
LEMMA LinePhrase ==
  ASSUME NEW remote \in BOOLEAN, NEW fresh \in BOOLEAN, NEW local \in BOOLEAN, NEW ready \in BOOLEAN,
         NEW q \in Seq(Control), q # <<>>, LineIs(remote, fresh, local, ready, q), q[1].op = "phrase-ok"
  PROVE  /\ ~remote /\ local /\ LineIs(TRUE, fresh, local, ready, Tail(q))
         /\ fresh /\ ready => Has(Tail(q), "profile-catalog")
<1>1. 1 \in DOMAIN q
  BY SeqTail
<1>2. ~remote /\ local
  BY <1>1 DEF LineIs, awaited
<1>3. ASSUME NEW k \in DOMAIN Tail(q)
      PROVE  /\ Tail(q)[k].op # "phrase-mismatch"
             /\ Tail(q)[k].op # "phrase-ok"
             /\ ready
  <2>1. k + 1 \in DOMAIN q /\ q[k + 1] = Tail(q)[k] /\ k + 1 # 1
    BY SeqTail
  <2>. QED BY <1>2, <2>1 DEF LineIs, awaited
<1>4. ASSUME ready, fresh
      PROVE  Len(Tail(q)) >= 2 /\ Tail(q)[1].op = "profile-catalog" /\ Tail(q)[2].op = "profile-consent"
  <2>1. Len(q) >= 3 /\ q[2].op = "profile-catalog" /\ q[3].op = "profile-consent"
    BY <1>2, <1>4 DEF LineIs, awaited
  <2>2. Tail(q)[1] = q[1 + 1] /\ Tail(q)[2] = q[2 + 1] /\ Len(Tail(q)) >= 2
    BY <2>1, SeqTail
  <2>. QED BY <2>1, <2>2
<1>5. LineIs(TRUE, fresh, local, ready, Tail(q))
  BY <1>2, <1>3, <1>4 DEF LineIs, awaited
<1>6. ASSUME ready, fresh PROVE Has(Tail(q), "profile-catalog")
  <2>1. 1 \in DOMAIN Tail(q)
    BY <1>4, <1>6, SeqTail
  <2>. QED BY <1>4, <1>6, <2>1 DEF Has
<1>. QED BY <1>2, <1>5, <1>6

-----------------------------------------------------------------------------
(* The frame of a step that touches one end.                               *)

EndsOK == \A d \in Device, l \in Link : EndOK(d, l)
Rules == OneOpen /\ TasksHere /\ EntriesOK /\ EndsOK /\ LinesOK

(* The invariant is the types and the rules.                               *)
LEMMA InvIs == Inv <=> TypeOK /\ Rules
BY DEF Inv, Rules, EndsOK

(* What an end that a step leaves alone needs to stay as it should be.      *)
LEMMA EndKept ==
  ASSUME NEW x \in Device, NEW k \in Link, EndOK(x, k), end'[x][k] = end[x][k],
         Open(x, k) \/ chan'[x][k] = chan[x][k],
         Open(x, k) => /\ registry'[x] = registry[x] /\ store'[x] = store[x]
                       /\ entry'[x] = entry[x] /\ task'[x] = task[x]
  PROVE  EndOK(x, k)'
<1>1. CASE Open(x, k)
  <2>1. /\ registry'[x] = registry[x] /\ store'[x] = store[x]
        /\ entry'[x] = entry[x] /\ task'[x] = task[x]
    BY <1>1
  <2>2. end[x][k].state # "new"
    BY <1>1 DEF Open
  <2>. QED BY <2>1, <2>2 DEF EndOK
<1>2. CASE ~Open(x, k)
  <2>1. end[x][k].state # "open" /\ chan'[x][k] = chan[x][k]
    BY <1>2 DEF Open
  <2>. QED BY <2>1 DEF EndOK
<1>. QED BY <1>1, <1>2

(* A step of a device that touches one end, the only one that may be open.  *)
Only(l) == \A x \in Device, k \in Link : Open(x, k) => k = l
OthersSame(d) ==
  \A x \in Device : x # d => /\ registry'[x] = registry[x] /\ store'[x] = store[x]
                             /\ entry'[x] = entry[x] /\ task'[x] = task[x]
Here(d, l) ==
  /\ \A x \in Device, k \in Link : x # d \/ k # l => end'[x][k] = end[x][k]
  /\ \A x \in Device, k \in Link : k # l => chan'[x][k] = chan[x][k]
  /\ ~Open(Other(d), l) => chan'[Other(d)][l] = chan[Other(d)][l]
  /\ end'[d][l].state = "open" => end[d][l].state = "open"
  /\ end'[d][l].state # "new" /\ (end'[d][l].fresh => end[d][l].fresh)
  /\ OthersSame(d)
TasksFrom(d, l) ==
  \A t \in task'[d] :
    \/ t \in task[d]
    \/ t.link = l /\ Adoptions(t.links) # {} /\ ~end'[d][l].fresh

(* A step that touches one end keeps the rules if it keeps them there.     *)
LEMMA Frame ==
  ASSUME Inv, NEW d \in Device, NEW l \in Link, Only(l), end[d][l].state # "new", Here(d, l),
         entry'[d] \in {entry[d], l, NoLink}, TasksFrom(d, l), EndOK(d, l)',
         Both(l) /\ Both(l)' => \A x \in Device : Line(x, l)' /\ Clean(x, l)' /\ Heard(x, l)'
  PROVE  Rules'
<1>1. Other(d) \in Device /\ Other(d) # d /\ \A x \in Device : x = d \/ x = Other(d)
  BY OtherFacts
<1>2. ASSUME NEW x \in Device, NEW k \in Link, Open(x, k)' PROVE Open(x, k)
  BY <1>2 DEF Open, Here
<1>3. OneOpen'
  BY <1>2 DEF OneOpen, Inv
<1>4. TasksHere'
  <2>. SUFFICES ASSUME NEW x \in Device, NEW t \in task'[x]
                PROVE  /\ Adoptions(t.links) # {}
                       /\ end'[x][t.link].state # "new" /\ ~end'[x][t.link].fresh
                       /\ \A y \in Device, k \in Link : Open(y, k)' => t.link = k
    BY DEF TasksHere, Open
  <2>0. task[x] \in SUBSET Task
    BY Typed DEF Inv
  <2>1. CASE t \in task[x]
    <3>1. /\ Adoptions(t.links) # {}
          /\ end[x][t.link].state # "new" /\ ~end[x][t.link].fresh
          /\ \A y \in Device, k \in Link : Open(y, k) => t.link = k
      BY <2>1 DEF Inv, TasksHere
    <3>2. t.link \in Link
      BY <2>0, <2>1 DEF Task
    <3>3. CASE x = d /\ t.link = l
      <4>1. end'[x][t.link].state # "new" /\ (end'[x][t.link].fresh => end[x][t.link].fresh)
        BY <3>3 DEF Here
      <4>. QED BY <1>2, <3>1, <3>2, <4>1
    <3>4. CASE ~(x = d /\ t.link = l)
      <4>1. end'[x][t.link] = end[x][t.link]
        BY <3>2, <3>4 DEF Here
      <4>. QED BY <1>2, <3>1, <3>2, <4>1
    <3>. QED BY <3>3, <3>4
  <2>2. CASE t \notin task[x]
    <3>1. x = d
      BY <2>2 DEF Here, OthersSame
    <3>2. t.link = l /\ Adoptions(t.links) # {} /\ ~end'[d][l].fresh
      BY <2>2, <3>1 DEF TasksFrom
    <3>3. end'[x][t.link].state # "new"
      BY <3>1, <3>2 DEF Here
    <3>. QED BY <1>2, <3>1, <3>2, <3>3 DEF Only
  <2>. QED BY <2>1, <2>2
<1>5. EntriesOK'
  <2>. SUFFICES ASSUME NEW x \in Device, entry'[x] # NoLink PROVE end'[x][entry'[x]].state # "new"
    BY DEF EntriesOK
  <2>1. CASE x = d /\ entry'[x] = l
    BY <2>1 DEF Here
  <2>2. CASE ~(x = d /\ entry'[x] = l)
    <3>1. entry'[x] = entry[x]
      BY <2>2 DEF Here, OthersSame
    <3>2. entry[x] \in Link \cup {NoLink}
      BY Typed DEF Inv
    <3>3. end'[x][entry[x]] = end[x][entry[x]]
      BY <2>2, <3>1, <3>2 DEF Here
    <3>. QED BY <3>1, <3>3 DEF Inv, EntriesOK
  <2>. QED BY <2>1, <2>2
<1>6. EndsOK'
  <2>. SUFFICES ASSUME NEW x \in Device, NEW k \in Link PROVE EndOK(x, k)'
    BY DEF EndsOK
  <2>1. CASE x = d /\ k = l
    BY <2>1
  <2>2. CASE x # d
    <3>1. end'[x][k] = end[x][k] /\ EndOK(x, k)
      BY <2>2 DEF Here, Inv
    <3>2. Open(x, k) \/ chan'[x][k] = chan[x][k]
      BY <1>1, <2>2 DEF Here
    <3>3. /\ registry'[x] = registry[x] /\ store'[x] = store[x]
          /\ entry'[x] = entry[x] /\ task'[x] = task[x]
      BY <2>2 DEF Here, OthersSame
    <3>. QED BY <3>1, <3>2, <3>3, EndKept
  <2>3. CASE x = d /\ k # l
    <3>1. end'[x][k] = end[x][k] /\ EndOK(x, k) /\ chan'[x][k] = chan[x][k] /\ ~Open(x, k)
      BY <2>3 DEF Here, Inv, Only
    <3>. QED BY <3>1, EndKept
  <2>. QED BY <2>1, <2>2, <2>3
<1>7. LinesOK'
  <2>. SUFFICES ASSUME NEW k \in Link, Both(k)' PROVE \A x \in Device : Line(x, k)' /\ Clean(x, k)' /\ Heard(x, k)'
    BY DEF LinesOK
  <2>1. Both(k)
    BY <1>2 DEF Both
  <2>2. k = l
    BY <2>1 DEF Both, Only
  <2>. QED BY <2>1, <2>2
<1>. QED BY <1>3, <1>4, <1>5, <1>6, <1>7 DEF Rules

(* An open end is on the only link with open ends.                         *)
LEMMA OnlyOpen ==
  ASSUME Inv, NEW d \in Device, NEW l \in Link, Open(d, l)
  PROVE  Only(l) /\ end[d][l].state # "new"
BY DEF Inv, OneOpen, Only, Open

(* What the invariant says where both ends of a link are open.              *)
LEMMA BothFacts ==
  ASSUME Inv, NEW d \in Device, NEW l \in Link, Both(l)
  PROVE  /\ Open(d, l) /\ Open(Other(d), l) /\ Other(d) \in Device /\ Other(d) # d /\ Other(Other(d)) = d
         /\ Line(d, l) /\ Line(Other(d), l) /\ Clean(d, l) /\ Clean(Other(d), l)
         /\ Heard(d, l) /\ Heard(Other(d), l)
         /\ EndOK(d, l) /\ EndOK(Other(d), l)
<1>1. Other(d) \in Device /\ Other(d) # d /\ Other(Other(d)) = d
  BY OtherFacts
<1>. QED BY <1>1 DEF Inv, Both, LinesOK

(* A device that does not know its peer will get a catalog.                 *)
LEMMA UnkeyedAnswers ==
  ASSUME Inv, NEW d \in Device, NEW l \in Link, Both(l), ~end[d][l].keyed
  PROVE  Answers(Other(d), l)
<1>1. /\ Other(d) \in Device /\ Other(Other(d)) = d
      /\ Line(d, l) /\ EndOK(d, l) /\ Open(d, l)
  BY BothFacts
<1>2. CASE end[d][l].ready /\ end[Other(d)][l].ready /\ task[d] = {}
  <2>1. end[d][l].fresh
    BY <1>1, <1>2 DEF EndOK, Open
  <2>2. LineIs(end[d][l].remote, TRUE, end[Other(d)][l].local, TRUE, chan[d][l])
    <3>1. end[d][l] \in EndState /\ end[Other(d)][l] \in EndState
      BY <1>1, Typed DEF Inv
    <3>2. end[d][l].fresh = TRUE /\ end[Other(d)][l].ready = TRUE
      BY <1>2, <2>1, <3>1, EndFields
    <3>. QED BY <1>1, <3>2 DEF Line
  <2>. DEFINE q == chan[d][l]
              a == awaited(end[d][l].remote)
  <2>3. a \in {0, 1}
    BY DEF awaited
  <2>4. Len(q) >= a + 2 /\ q[a + 1].op = "profile-catalog" /\ q \in Seq(Control)
    BY <2>2, Typed DEF LineIs, Inv
  <2>. HIDE DEF q, a
  <2>5. a + 1 \in DOMAIN q
    BY <2>3, <2>4
  <2>6. Has(chan[d][l], "profile-catalog")
    BY <2>4, <2>5 DEF Has, q
  <2>. QED BY <1>1, <2>6 DEF Answers
<1>. QED BY <1>1, <1>2 DEF Answers

-----------------------------------------------------------------------------
(* An end closes, a device unpairs, a channel opens.                       *)

LEMMA CloseFacts ==
  ASSUME TypeOK, NEW d \in Device, NEW l \in Link, Close(d, l)
  PROVE  /\ end' \in EndType /\ entry' \in [Device -> Link \cup {NoLink}]
         /\ end'[d][l].state = "closed" /\ ~end'[d][l].ready /\ end'[d][l].fresh = end[d][l].fresh
         /\ \A x \in Device, k \in Link : x # d \/ k # l => end'[x][k] = end[x][k]
         /\ entry'[d] \in {entry[d], NoLink} /\ \A x \in Device : x # d => entry'[x] = entry[x]
<1>. DEFINE r == [end[d][l] EXCEPT !.state = "closed", !.ready = FALSE, !.attached = {}]
<1>1. end \in EndType /\ r \in EndState /\ entry[d] \in Link \cup {NoLink}
  BY Typed, Shut
<1>2. end' = [end EXCEPT ![d][l] = r]
  BY DEF Close
<1>3. r.state = "closed" /\ ~r.ready /\ r.fresh = end[d][l].fresh
  BY <1>1, Typed DEF EndState
<1>. HIDE DEF r
<1>4. /\ end' \in EndType /\ end'[d][l] = r
      /\ \A x \in Device, k \in Link : x # d \/ k # l => end'[x][k] = end[x][k]
  BY <1>1, <1>2 DEF EndType
<1>5. entry' = [entry EXCEPT ![d] = IF end[d][l].keyed THEN NoLink ELSE entry[d]]
  BY DEF Close
<1>. QED BY <1>1, <1>3, <1>4, <1>5 DEF TypeOK

(* Closing an end keeps the rules.                                         *)
LEMMA CloseKeeps ==
  ASSUME Inv, NEW d \in Device, NEW l \in Link, Open(d, l), Close(d, l),
         \A x \in Device, k \in Link : k # l => chan'[x][k] = chan[x][k],
         ~Open(Other(d), l) => chan'[Other(d)][l] = chan[Other(d)][l],
         UNCHANGED <<registry, store, task>>
  PROVE  Rules'
<1>1. /\ end'[d][l].state = "closed" /\ ~end'[d][l].ready /\ end'[d][l].fresh = end[d][l].fresh
      /\ \A x \in Device, k \in Link : x # d \/ k # l => end'[x][k] = end[x][k]
      /\ entry'[d] \in {entry[d], NoLink} /\ \A x \in Device : x # d => entry'[x] = entry[x]
  BY CloseFacts DEF Inv
<1>2. Only(l) /\ end[d][l].state # "new"
  BY OnlyOpen
<1>3. Here(d, l)
  BY <1>1 DEF Here, OthersSame
<1>4. TasksFrom(d, l)
  BY DEF TasksFrom
<1>5. EndOK(d, l)'
  BY <1>1 DEF EndOK
<1>6. ~(Both(l)')
  BY <1>1 DEF Both, Open
<1>. QED BY <1>1, <1>2, <1>3, <1>4, <1>5, <1>6, Frame

(* What a rejected phrase leaves.                                          *)
LEMMA RejectFacts ==
  ASSUME TypeOK, NEW d \in Device, NEW l \in Link, rejectPhrase(d, l)
  PROVE  /\ TypeOK'
         /\ \A x \in Device, k \in Link : k # l => chan'[x][k] = chan[x][k]
         /\ ~Open(Other(d), l) => chan'[Other(d)][l] = chan[Other(d)][l]
<1>. DEFINE c == [chan EXCEPT ![d][l] = <<>>]
<1>1. PICK told \in BOOLEAN : chan' = Sent(c, d, l, IF told THEN <<Mismatch>> ELSE <<>>)
  BY DEF rejectPhrase
<1>2. PICK m \in Seq(Control) : chan' = Sent(c, d, l, m)
  <2>1. (IF told THEN <<Mismatch>> ELSE <<>>) \in Seq(Control)
    BY ControlFacts
  <2>. QED BY <1>1, <2>1
<1>3. c \in ChanType /\ \A x \in Device, k \in Link : x # d \/ k # l => c[x][k] = chan[x][k]
  BY Typed DEF ChanType
<1>4. Other(d) \in Device /\ Other(d) # d
  BY OtherFacts
<1>. HIDE DEF c
<1>5. /\ chan' \in ChanType
      /\ \A x \in Device, k \in Link : k # l => chan'[x][k] = c[x][k]
      /\ ~Open(Other(d), l) => chan'[Other(d)][l] = c[Other(d)][l]
  BY <1>2, <1>3, SentFacts
<1>6. Open(d, l) /\ Close(d, l) /\ UNCHANGED <<registry, store, task>> /\ UNCHANGED <<vetoed, changes>>
  BY DEF rejectPhrase
<1>8. TypeOK'
  BY <1>5, <1>6, CloseFacts DEF TypeOK, EndType, ChanType
<1>. QED BY <1>3, <1>4, <1>5, <1>8

(* A rejected phrase keeps the rules.                                      *)
LEMMA RejectKeeps ==
  ASSUME Inv, NEW d \in Device, NEW l \in Link, rejectPhrase(d, l)
  PROVE  Rules'
<1>1. Open(d, l) /\ Close(d, l) /\ UNCHANGED <<registry, store, task>>
  BY DEF rejectPhrase
<1>. QED BY <1>1, RejectFacts, CloseKeeps DEF Inv

(* A channel that breaks keeps the types.                                  *)
LEMMA ClosedTypes ==
  ASSUME TypeOK, NEW d \in Device, NEW l \in Link, Close(d, l),
         chan' = [chan EXCEPT ![d][l] = <<>>], UNCHANGED <<registry, store, task, vetoed, changes>>
  PROVE  TypeOK'
<1>1. chan' \in ChanType
  BY Typed DEF ChanType
<1>. QED BY <1>1, CloseFacts DEF TypeOK, EndType, ChanType

(* A channel that breaks keeps the rules.                                  *)
LEMMA ClosedKeeps ==
  ASSUME Inv, NEW d \in Device, NEW l \in Link, Open(d, l), Close(d, l),
         chan' = [chan EXCEPT ![d][l] = <<>>], UNCHANGED <<registry, store, task>>
  PROVE  Rules'
<1>1. \A x \in Device, k \in Link : x # d \/ k # l => chan'[x][k] = chan[x][k]
  BY Typed DEF Inv, ChanType
<1>2. Other(d) \in Device /\ Other(d) # d
  BY OtherFacts
<1>. QED BY <1>1, <1>2, CloseKeeps

(* The listed sessions of a device include all that are open.               *)
LEMMA OpenIsListed ==
  ASSUME Inv, NEW d \in Device, NEW l \in Link, Open(d, l)
  PROVE  l \in Listed(d)
<1>1. EndOK(d, l) /\ l # NoLink
  BY LinksAreNumbered DEF Inv, NoLink
<1>2. end[d][l].keyed => entry[d] = l
  BY <1>1 DEF EndOK, Open
<1>. QED BY <1>1, <1>2 DEF Listed

(* A listed session is on a link that was opened.                          *)
LEMMA ListedFacts ==
  ASSUME Inv, NEW d \in Device
  PROVE  \A l \in Listed(d) : l \in Link /\ end[d][l].state # "new"
BY Typed DEF Listed, Open, Inv, EntriesOK

(* What unpairing leaves.                                                  *)
LEMMA UnpairFacts ==
  ASSUME TypeOK, NEW d \in Device, unpair(d)
  PROVE  /\ TypeOK' /\ UNCHANGED <<registry, task>> /\ entry'[d] = NoLink
         /\ \A l \in Link :
              /\ l \notin Listed(d) => end'[d][l] = end[d][l] /\ chan'[d][l] = chan[d][l]
              /\ l \in Listed(d) => /\ end'[d][l].state = "closed" /\ ~end'[d][l].ready
                                    /\ end'[d][l].fresh = end[d][l].fresh
         /\ \A x \in Device : x # d => /\ end'[x] = end[x] /\ chan'[x] = chan[x] /\ entry'[x] = entry[x]
                                       /\ store'[x] = store[x]
<1>. DEFINE off(l) == [end[d][l] EXCEPT !.state = "closed", !.ready = FALSE, !.attached = {}]
            ends == [l \in Link |-> IF l \notin Listed(d) THEN end[d][l] ELSE off(l)]
            chans == [l \in Link |-> IF l \in Listed(d) THEN <<>> ELSE chan[d][l]]
<1>1. /\ end' = [end EXCEPT ![d] = ends] /\ chan' = [chan EXCEPT ![d] = chans]
      /\ entry' = [entry EXCEPT ![d] = NoLink]
      /\ store' = [store EXCEPT ![d] = IF entry[d] # NoLink THEN Unknown ELSE store[d]]
      /\ vetoed' = [vetoed EXCEPT ![d] = IF entry[d] # NoLink THEN {} ELSE vetoed[d]]
      /\ UNCHANGED <<registry, task, changes>>
  BY DEF unpair
<1>2. ASSUME NEW l \in Link
      PROVE  off(l) \in EndState /\ off(l).state = "closed" /\ ~off(l).ready /\ off(l).fresh = end[d][l].fresh
  BY Shut, Typed DEF EndState
<1>3. ends \in [Link -> EndState] /\ chans \in [Link -> Seq(Control)]
  <2>. HIDE DEF off
  <2>. QED BY <1>2, Typed
<1>4. \A l \in Link :
        /\ l \notin Listed(d) => ends[l] = end[d][l] /\ chans[l] = chan[d][l]
        /\ l \in Listed(d) => ends[l].state = "closed" /\ ~ends[l].ready /\ ends[l].fresh = end[d][l].fresh
  <2>. HIDE DEF off
  <2>. QED BY <1>2
<1>. HIDE DEF ends, chans
<1>5. /\ end' \in EndType /\ chan' \in ChanType
      /\ \A l \in Link : end'[d][l] = ends[l] /\ chan'[d][l] = chans[l]
      /\ \A x \in Device : x # d => /\ end'[x] = end[x] /\ chan'[x] = chan[x] /\ entry'[x] = entry[x]
                                    /\ store'[x] = store[x]
      /\ entry'[d] = NoLink
  BY <1>1, <1>3, Typed DEF EndType, ChanType, TypeOK
<1>6. TypeOK'
  <2>1. store' \in [Device -> PeerRecord]
    BY <1>1, UnknownTyped DEF TypeOK
  <2>2. entry' \in [Device -> Link \cup {NoLink}] /\ vetoed' \in [Device -> SUBSET Name]
    BY <1>1 DEF TypeOK
  <2>. QED BY <1>1, <1>5, <2>1, <2>2 DEF TypeOK, EndType, ChanType
<1>. QED BY <1>1, <1>4, <1>5, <1>6

(* Unpairing keeps the rules.                                              *)
LEMMA UnpairKeeps ==
  ASSUME Inv, NEW d \in Device, unpair(d)
  PROVE  Rules'
<1>0. TypeOK
  BY DEF Inv
<1>1. UNCHANGED <<registry, task>>
  BY <1>0, UnpairFacts
<1>4. \A l \in Link :
        /\ l \notin Listed(d) => end'[d][l] = end[d][l] /\ chan'[d][l] = chan[d][l]
        /\ l \in Listed(d) => /\ end'[d][l].state = "closed" /\ ~end'[d][l].ready
                              /\ end'[d][l].fresh = end[d][l].fresh
  BY <1>0, UnpairFacts
<1>5. /\ \A x \in Device : x # d => /\ end'[x] = end[x] /\ chan'[x] = chan[x] /\ entry'[x] = entry[x]
                                    /\ store'[x] = store[x]
      /\ entry'[d] = NoLink
  BY <1>0, UnpairFacts
<1>7. ASSUME NEW l \in Link PROVE ~(Open(d, l)')
  <2>1. CASE l \in Listed(d)
    BY <1>4, <1>5, <2>1 DEF Open
  <2>2. CASE l \notin Listed(d)
    <3>1. ~Open(d, l)
      BY <2>2, OpenIsListed
    <3>. QED BY <1>4, <1>5, <2>2, <3>1 DEF Open
  <2>. QED BY <2>1, <2>2
<1>8. ASSUME NEW x \in Device, NEW l \in Link
      PROVE  /\ Open(x, l)' => Open(x, l)
             /\ end[x][l].state # "new" => end'[x][l].state # "new"
             /\ end'[x][l].fresh = end[x][l].fresh
  <2>1. CASE x # d
    BY <1>5, <2>1 DEF Open
  <2>2. CASE x = d
    BY <1>4, <1>5, <1>7, <2>2
  <2>. QED BY <2>1, <2>2
<1>9. OneOpen'
  BY <1>8 DEF OneOpen, Inv
<1>10. TasksHere'
  <2>. SUFFICES ASSUME NEW x \in Device, NEW t \in task'[x]
                PROVE  /\ Adoptions(t.links) # {}
                       /\ end'[x][t.link].state # "new" /\ ~end'[x][t.link].fresh
                       /\ \A y \in Device, k \in Link : Open(y, k)' => t.link = k
    BY DEF TasksHere, Open
  <2>1. t \in task[x] /\ t.link \in Link
    BY <1>0, <1>1, Typed DEF Task
  <2>. QED BY <1>8, <2>1 DEF Inv, TasksHere
<1>11. EntriesOK'
  BY <1>0, <1>5, <1>8, Typed DEF EntriesOK, Inv
<1>12. EndsOK'
  <2>. SUFFICES ASSUME NEW x \in Device, NEW k \in Link PROVE EndOK(x, k)'
    BY DEF EndsOK
  <2>1. EndOK(x, k)
    BY DEF Inv
  <2>2. CASE x # d
    BY <1>1, <1>5, <2>1, <2>2, EndKept
  <2>3. CASE x = d /\ k \in Listed(d)
    <3>1. end'[x][k].state = "closed" /\ ~end'[x][k].ready
      BY <1>4, <1>5, <2>3
    <3>. QED BY <3>1 DEF EndOK
  <2>4. CASE x = d /\ k \notin Listed(d)
    <3>1. ~Open(x, k) /\ end'[x][k] = end[x][k] /\ chan'[x][k] = chan[x][k]
      BY <1>4, <1>5, <2>4, OpenIsListed
    <3>. QED BY <2>1, <3>1, EndKept
  <2>. QED BY <2>2, <2>3, <2>4
<1>13. LinesOK'
  BY <1>7 DEF LinesOK, Both
<1>. QED BY <1>9, <1>10, <1>11, <1>12, <1>13 DEF Rules

(* Pairing keeps the rules once the old channel is closed and dealt with.  *)
LEMMA AttachKeeps ==
  ASSUME Inv, Calm, NEW l \in Link, attachDevice(l)
  PROVE  Rules'
<1>0. TypeOK
  BY DEF Inv
<1>1. /\ \A d \in Device : end[d][l].state = "new" /\ task[d] = {}
      /\ \A d \in Device, k \in Link : ~Open(d, k)
      /\ UNCHANGED <<registry, store, entry, chan, task, vetoed>>
  BY DEF attachDevice
<1>. DEFINE r(d) == [end[d][l] EXCEPT !.state = "open", !.catalog = registry[d]]
<1>2. end' = [d \in Device |-> [end[d] EXCEPT ![l] = r(d)]]
  BY DEF attachDevice
<1>3. ASSUME NEW d \in Device
      PROVE  /\ r(d).state = "open" /\ ~r(d).local /\ ~r(d).remote /\ ~r(d).ready /\ r(d).fresh
             /\ ~r(d).keyed /\ r(d).pending = {} /\ chan[d][l] = <<>>
  <2>1. end[d][l] = NewEnd /\ chan[d][l] = <<>>
    BY <1>1 DEF Inv, EndOK
  <2>. QED BY <2>1 DEF NewEnd
<1>. HIDE DEF r
<1>4. /\ \A d \in Device : end'[d][l] = r(d)
      /\ \A d \in Device, k \in Link : k # l => end'[d][k] = end[d][k]
  BY <1>0, <1>2, Typed DEF EndType
<1>5. \A d \in Device, k \in Link : Open(d, k)' <=> k = l
  BY <1>1, <1>3, <1>4 DEF Open
<1>6. OneOpen'
  BY <1>5 DEF OneOpen
<1>7. TasksHere'
  BY <1>1 DEF TasksHere
<1>8. EntriesOK'
  <2>. SUFFICES ASSUME NEW d \in Device, entry[d] # NoLink PROVE end'[d][entry[d]].state # "new"
    BY <1>1 DEF EntriesOK
  <2>1. entry[d] \in Link /\ end[d][entry[d]].state # "new"
    BY <1>0, Typed DEF Inv, EntriesOK
  <2>. QED BY <1>1, <1>4, <2>1
<1>9. EndsOK'
  <2>. SUFFICES ASSUME NEW d \in Device, NEW k \in Link PROVE EndOK(d, k)'
    BY DEF EndsOK
  <2>1. CASE k # l
    BY <1>1, <1>4, <2>1, EndKept DEF Inv
  <2>2. CASE k = l
    <3>1. end'[d][k] = r(d)
      BY <1>4, <2>2
    <3>. QED BY <1>3, <3>1 DEF EndOK
  <2>. QED BY <2>1, <2>2
<1>10. LinesOK'
  <2>. SUFFICES ASSUME NEW k \in Link, Both(k)', NEW d \in Device PROVE Line(d, k)' /\ Clean(d, k)' /\ Heard(d, k)'
    BY DEF LinesOK
  <2>1. k = l
    BY <1>5 DEF Both
  <2>2. Other(d) \in Device
    BY OtherFacts
  <2>3. end'[d][k] = r(d) /\ end'[Other(d)][k] = r(Other(d)) /\ chan'[d][k] = <<>>
    BY <1>1, <1>3, <1>4, <2>1, <2>2
  <2>4. Line(d, k)'
    BY <1>3, <2>2, <2>3 DEF Line, LineIs
  <2>5. Heard(d, k)'
    BY <1>3, <2>3 DEF Heard, Answers
  <2>6. Clean(d, k)'
    BY <1>3, <2>3 DEF Clean
  <2>. QED BY <2>4, <2>5, <2>6
<1>. QED BY <1>6, <1>7, <1>8, <1>9, <1>10 DEF Rules

(* The users act within the bound.                                         *)
LEMMA ActsTyped ==
  ASSUME TypeOK, Acts, MaxChanges \in Nat
  PROVE  changes' \in 0 .. MaxChanges
BY DEF TypeOK, Acts

(* Pairing keeps the types.                                                *)
LEMMA AttachTypes ==
  ASSUME TypeOK, MaxChanges \in Nat, NEW l \in Link, attachDevice(l)
  PROVE  TypeOK'
<1>. DEFINE r(d) == [end[d][l] EXCEPT !.state = "open", !.catalog = registry[d]]
<1>1. ASSUME NEW d \in Device PROVE r(d) \in EndState
  BY Typed DEF EndState
<1>2. end' = [d \in Device |-> [end[d] EXCEPT ![l] = r(d)]]
  BY DEF attachDevice
<1>. HIDE DEF r
<1>3. end' \in EndType
  BY <1>1, <1>2, Typed DEF EndType
<1>4. changes' \in 0 .. MaxChanges
  BY ActsTyped DEF attachDevice
<1>. QED BY <1>3, <1>4 DEF TypeOK, EndType, attachDevice

-----------------------------------------------------------------------------
(* The phrase is confirmed, here and there.                                *)

(* An end differs in what it knows of the phrase, and may be ready now.     *)
Phrased(d, l, r, local, remote) ==
  /\ r \in EndState /\ r.state = "open" /\ r.local = local /\ r.remote = remote
  /\ (r.ready <=> local /\ remote)
  /\ r.fresh = end[d][l].fresh /\ r.keyed = end[d][l].keyed /\ r.pending = end[d][l].pending
  /\ r.attached = end[d][l].attached
Start(d, l, ready) == IF ready THEN Opening(d, l) ELSE <<>>

(* What an end sends when it gets ready, and nothing before.               *)
LEMMA StartFacts ==
  ASSUME TypeOK, NEW d \in Device, NEW l \in Link, NEW ready \in BOOLEAN
  PROVE  /\ Start(d, l, ready) \in Seq(Control) /\ (ready <=> Start(d, l, ready) # <<>>)
         /\ Start(d, l, ready) = <<>>
              \/ (/\ Len(Start(d, l, ready)) = 2
                  /\ Start(d, l, ready)[1].op = "profile-catalog" /\ Start(d, l, ready)[2].op = "profile-consent")
<1>1. CASE ready
  <2>1. Start(d, l, ready) = Opening(d, l)
    BY <1>1 DEF Start
  <2>2. Opening(d, l) # <<>>
    BY OpeningTyped
  <2>. QED BY <1>1, <2>1, <2>2, OpeningTyped
<1>2. CASE ~ready
  BY <1>2 DEF Start
<1>. QED BY <1>1, <1>2

(* A confirmed phrase, as one change of an end.                            *)
LEMMA ConfirmFacts ==
  ASSUME TypeOK, NEW d \in Device, NEW l \in Link, confirmPhrase(d, l)
  PROVE  \E r : /\ Phrased(d, l, r, TRUE, end[d][l].remote)
                /\ Sending(d, l, r, chan[d][l], <<PhraseOk>> \o Start(d, l, r.ready))
<1>. DEFINE ready == bothConfirmed(TRUE, end[d][l].remote)
            r == [end[d][l] EXCEPT !.local = TRUE, !.ready = ready]
<1>1. end \in EndType /\ end[d][l] \in EndState /\ end[d][l].remote \in BOOLEAN
  BY Typed, EndFields
<1>2. ready \in BOOLEAN /\ (ready <=> end[d][l].remote)
  BY <1>1 DEF bothConfirmed
<1>3. /\ end' = [end EXCEPT ![d][l].local = TRUE, ![d][l].ready = ready]
      /\ chan' = Sent(chan, d, l, <<PhraseOk>> \o Start(d, l, ready))
      /\ end[d][l].state = "open"
  BY DEF confirmPhrase, Start, Open
<1>. HIDE DEF ready
<1>4. end' = [end EXCEPT ![d][l] = r]
  BY <1>1, <1>3 DEF EndType
<1>5. Phrased(d, l, r, TRUE, end[d][l].remote) /\ r.ready = ready
  BY <1>1, <1>2, <1>3 DEF EndState, Phrased
<1>. HIDE DEF r
<1>6. Sending(d, l, r, chan[d][l], <<PhraseOk>> \o Start(d, l, r.ready))
  BY <1>3, <1>4, <1>5, Unread DEF Sending
<1>. QED BY <1>5, <1>6

(* A confirmed phrase keeps the types.                                     *)
LEMMA ConfirmTypes ==
  ASSUME TypeOK, NEW d \in Device, NEW l \in Link, confirmPhrase(d, l)
  PROVE  TypeOK'
<1>1. PICK r : /\ Phrased(d, l, r, TRUE, end[d][l].remote)
               /\ Sending(d, l, r, chan[d][l], <<PhraseOk>> \o Start(d, l, r.ready))
  BY ConfirmFacts
<1>2. r \in EndState /\ r.ready \in BOOLEAN /\ chan[d][l] \in Seq(Control)
  BY <1>1, Typed, EndFields DEF Phrased
<1>3. <<PhraseOk>> \o Start(d, l, r.ready) \in Seq(Control)
  BY <1>2, StartFacts, ControlFacts
<1>4. end' \in EndType /\ chan' \in ChanType
  BY <1>1, <1>2, <1>3, SendingFacts
<1>. QED BY <1>4 DEF TypeOK, EndType, ChanType, confirmPhrase

(* A confirmed phrase keeps the rules.                                     *)
LEMMA ConfirmKeeps ==
  ASSUME Inv, NEW d \in Device, NEW l \in Link, confirmPhrase(d, l)
  PROVE  Rules'
<1>0. TypeOK
  BY DEF Inv
<1>. DEFINE o == Other(d)
            e == end[d][l]
            f == end[o][l]
<1>1. PICK r : /\ Phrased(d, l, r, TRUE, e.remote)
               /\ Sending(d, l, r, chan[d][l], <<PhraseOk>> \o Start(d, l, r.ready))
  BY <1>0, ConfirmFacts
<1>2. r \in EndState /\ r.ready \in BOOLEAN /\ chan[d][l] \in Seq(Control) /\ e.remote \in BOOLEAN
  BY <1>0, <1>1, Typed, EndFields DEF Phrased
<1>. DEFINE m == Start(d, l, r.ready)
            p == <<PhraseOk>> \o m
<1>3. p \in Seq(Control) /\ m \in Seq(Control)
  BY <1>0, <1>2, StartFacts, ControlFacts
<1>4. Open(d, l) /\ ~e.local /\ UNCHANGED <<registry, store, entry, task>>
  BY DEF confirmPhrase
<1>5. /\ end'[d][l] = r
      /\ \A x \in Device, k \in Link : x # d \/ k # l => end'[x][k] = end[x][k]
      /\ chan'[d][l] = chan[d][l]
      /\ chan'[o][l] = IF Open(d, l) /\ Open(o, l) THEN chan[o][l] \o p ELSE chan[o][l]
      /\ \A x \in Device, k \in Link : k # l => chan'[x][k] = chan[x][k]
  <2>1. Sending(d, l, r, chan[d][l], p)
    BY <1>1
  <2>. HIDE DEF p, m
  <2>. QED BY <1>0, <1>2, <1>3, <2>1, SendingFacts
<1>6. Only(l) /\ e.state # "new" /\ EndOK(d, l)
  BY <1>4, OnlyOpen DEF Inv
<1>7. Here(d, l)
  BY <1>1, <1>4, <1>5 DEF Here, OthersSame, Phrased, Open
<1>8. TasksFrom(d, l)
  BY <1>4 DEF TasksFrom
<1>9. EndOK(d, l)'
  <2>1. ~e.ready /\ e.fresh /\ ~e.keyed
    BY <1>0, <1>4, <1>6, Typed, EndFields DEF EndOK, Open
  <2>2. r.state = "open" /\ r.local /\ (r.ready <=> r.remote) /\ r.fresh /\ ~r.keyed
    BY <1>1, <2>1 DEF Phrased
  <2>. QED BY <1>5, <2>2 DEF EndOK
<1>10. ASSUME Both(l) PROVE \A x \in Device : Line(x, l)' /\ Clean(x, l)' /\ Heard(x, l)'
  <2>1. /\ Open(o, l) /\ o \in Device /\ o # d /\ Other(o) = d /\ \A x \in Device : x = d \/ x = o
        /\ Line(d, l) /\ Line(o, l) /\ Clean(d, l) /\ Clean(o, l) /\ EndOK(d, l) /\ EndOK(o, l) /\ f \in EndState
    BY <1>0, <1>10, BothFacts, OtherFacts, Typed
  <2>2. end'[o][l] = f /\ chan'[o][l] = chan[o][l] \o p /\ chan[o][l] \in Seq(Control)
    BY <1>0, <1>4, <1>5, <2>1, Typed
  <2>3. e.local = FALSE /\ e.ready = FALSE /\ f.remote \in BOOLEAN
    BY <1>0, <1>4, <1>6, <2>1, Typed, EndFields DEF EndOK
  <2>4. LineIs(f.remote, f.fresh, FALSE, FALSE, chan[o][l])
    BY <2>1, <2>3 DEF Line
  <2>5. /\ m = <<>> \/ (Len(m) = 2 /\ m[1].op = "profile-catalog" /\ m[2].op = "profile-consent")
        /\ r.ready <=> m # <<>>
    BY <1>0, <1>2, StartFacts
  <2>. HIDE DEF m
  <2>6. ~f.remote /\ LineIs(f.remote, f.fresh, TRUE, r.ready, chan[o][l] \o p)
    BY <1>2, <1>3, <2>2, <2>3, <2>4, <2>5, LineConfirmed
  <2>7. r.local = TRUE /\ r.remote = e.remote /\ r.fresh = e.fresh
    BY <1>1 DEF Phrased
  <2>8. Line(o, l)'
    BY <1>5, <2>1, <2>2, <2>6, <2>7 DEF Line
  <2>9. Line(d, l)'
    BY <1>5, <2>1, <2>2, <2>7 DEF Line
  <2>10. ~f.ready
    BY <2>1, <2>6 DEF EndOK
  <2>11. Heard(d, l)' /\ Heard(o, l)'
    BY <1>5, <2>1, <2>2, <2>10 DEF Heard, Answers
  <2>12. Clean(d, l)' /\ Clean(o, l)'
    BY <1>1, <1>5, <2>1, <2>2 DEF Clean, Phrased
  <2>. QED BY <2>1, <2>8, <2>9, <2>11, <2>12
<1>. HIDE DEF e
<1>11. entry'[d] \in {entry[d], l, NoLink}
  BY <1>4
<1>. QED BY <1>6, <1>7, <1>8, <1>9, <1>10, <1>11, Frame DEF e

-----------------------------------------------------------------------------

(* The confirmation of the other end, as one change of an end.             *)
LEMMA PhraseOkFacts ==
  ASSUME TypeOK, NEW d \in Device, NEW l \in Link, onPhraseOk(d, l)
  PROVE  \E r : /\ Phrased(d, l, r, end[d][l].local, TRUE)
                /\ Sending(d, l, r, Tail(chan[d][l]), Start(d, l, r.ready))
<1>. DEFINE ready == readyOnOk(d, l)
            r == [end[d][l] EXCEPT !.remote = TRUE, !.ready = ready]
<1>1. end \in EndType /\ end[d][l] \in EndState /\ end[d][l].local \in BOOLEAN
  BY Typed, EndFields
<1>2. ready \in BOOLEAN /\ (ready <=> end[d][l].local)
  BY <1>1 DEF readyOnOk, bothConfirmed
<1>3. /\ end' = [end EXCEPT ![d][l].remote = TRUE, ![d][l].ready = ready]
      /\ chan' = Sent(Taken(d, l), d, l, Start(d, l, ready))
      /\ end[d][l].state = "open"
  BY DEF onPhraseOk, Start, Open, Arrives
<1>. HIDE DEF ready
<1>4. end' = [end EXCEPT ![d][l] = r]
  BY <1>1, <1>3 DEF EndType
<1>5. Phrased(d, l, r, end[d][l].local, TRUE) /\ r.ready = ready
  BY <1>1, <1>2, <1>3 DEF EndState, Phrased
<1>. HIDE DEF r
<1>6. Sending(d, l, r, Tail(chan[d][l]), Start(d, l, r.ready))
  BY <1>3, <1>4, <1>5 DEF Sending, Taken
<1>. QED BY <1>5, <1>6

(* It keeps the types.                                                     *)
LEMMA PhraseOkTypes ==
  ASSUME TypeOK, NEW d \in Device, NEW l \in Link, onPhraseOk(d, l)
  PROVE  TypeOK'
<1>1. PICK r : /\ Phrased(d, l, r, end[d][l].local, TRUE)
               /\ Sending(d, l, r, Tail(chan[d][l]), Start(d, l, r.ready))
  BY PhraseOkFacts
<1>2. r \in EndState /\ r.ready \in BOOLEAN /\ Tail(chan[d][l]) \in Seq(Control)
  BY <1>1, EndFields, FirstOf DEF Phrased, onPhraseOk, Arrives
<1>3. Start(d, l, r.ready) \in Seq(Control)
  BY <1>2, StartFacts
<1>4. end' \in EndType /\ chan' \in ChanType
  BY <1>1, <1>2, <1>3, SendingFacts
<1>. QED BY <1>4 DEF TypeOK, EndType, ChanType, onPhraseOk

(* It keeps the rules.                                                     *)
LEMMA PhraseOkKeeps ==
  ASSUME Inv, NEW d \in Device, NEW l \in Link, onPhraseOk(d, l)
  PROVE  Rules'
<1>0. TypeOK
  BY DEF Inv
<1>. DEFINE o == Other(d)
            e == end[d][l]
            f == end[o][l]
            q == chan[d][l]
<1>1. PICK r : /\ Phrased(d, l, r, e.local, TRUE)
               /\ Sending(d, l, r, Tail(q), Start(d, l, r.ready))
  BY <1>0, PhraseOkFacts
<1>4. Open(d, l) /\ q # <<>> /\ Head(q).op = "phrase-ok" /\ UNCHANGED <<registry, store, entry, task>>
  BY DEF onPhraseOk, Arrives
<1>2. /\ r \in EndState /\ r.ready \in BOOLEAN /\ e \in EndState
      /\ q \in Seq(Control) /\ Tail(q) \in Seq(Control) /\ q[1].op = "phrase-ok"
  BY <1>0, <1>1, <1>4, Typed, EndFields, FirstOf DEF Phrased
<1>. DEFINE m == Start(d, l, r.ready)
<1>3. m \in Seq(Control)
  BY <1>0, <1>2, StartFacts
<1>5. /\ end'[d][l] = r
      /\ \A x \in Device, k \in Link : x # d \/ k # l => end'[x][k] = end[x][k]
      /\ chan'[d][l] = Tail(q)
      /\ chan'[o][l] = IF Open(d, l) /\ Open(o, l) THEN chan[o][l] \o m ELSE chan[o][l]
      /\ \A x \in Device, k \in Link : k # l => chan'[x][k] = chan[x][k]
  <2>1. Sending(d, l, r, Tail(q), m)
    BY <1>1
  <2>2. PICK own \in Seq(Control) : own = Tail(q)
    BY <1>2
  <2>3. Sending(d, l, r, own, m)
    BY <2>1, <2>2
  <2>4. own \in Seq(Control) /\ r \in EndState
    BY <1>2, <2>2
  <2>. HIDE DEF m
  <2>5. /\ end'[d][l] = r
        /\ \A x \in Device, k \in Link : x # d \/ k # l => end'[x][k] = end[x][k]
        /\ chan'[d][l] = own
        /\ chan'[o][l] = IF Open(d, l) /\ Open(o, l) THEN chan[o][l] \o m ELSE chan[o][l]
        /\ \A x \in Device, k \in Link : k # l => chan'[x][k] = chan[x][k]
    BY <1>0, <1>3, <2>3, <2>4, SendingFacts
  <2>. QED BY <2>2, <2>5
<1>6. Only(l) /\ e.state # "new" /\ EndOK(d, l)
  BY <1>4, OnlyOpen DEF Inv
<1>7. Here(d, l)
  BY <1>1, <1>4, <1>5 DEF Here, OthersSame, Phrased, Open
<1>8. TasksFrom(d, l)
  BY <1>4 DEF TasksFrom
<1>9. /\ r.state = "open" /\ r.local = e.local /\ r.remote = TRUE /\ (r.ready <=> r.local) /\ r.fresh = e.fresh
      /\ r.keyed = e.keyed /\ r.pending = e.pending /\ r.attached = e.attached
  BY <1>1 DEF Phrased
<1>10. EndOK(d, l)'
  <2>1. CASE ~e.remote
    <3>1. e.fresh /\ ~e.keyed
      BY <1>4, <1>6, <2>1 DEF EndOK, Open
    <3>2. r.fresh /\ ~r.keyed
      BY <1>9, <3>1
    <3>. QED BY <1>5, <1>9, <3>2 DEF EndOK
  <2>2. CASE e.remote
    <3>1. /\ ~r.ready => r.fresh
          /\ r.fresh => ~r.keyed
          /\ ~r.fresh /\ ~r.keyed => task[d] # {}
          /\ r.keyed => entry[d] = l /\ store[d].known /\ r.pending = {}
          /\ r.keyed /\ task[d] = {} => r.attached = applyConsent(store[d], registry[d])
      BY <1>4, <1>6, <1>9, <2>2 DEF EndOK, Open
    <3>. QED BY <1>4, <1>5, <1>9, <3>1 DEF EndOK, applyConsent
  <2>. QED BY <2>1, <2>2
<1>11. ASSUME Both(l) PROVE \A x \in Device : Line(x, l)' /\ Clean(x, l)' /\ Heard(x, l)'
  <2>1. /\ Open(o, l) /\ o \in Device /\ o # d /\ Other(o) = d /\ \A x \in Device : x = d \/ x = o
        /\ Line(d, l) /\ Line(o, l) /\ Clean(d, l) /\ Clean(o, l) /\ EndOK(o, l) /\ Heard(d, l) /\ Heard(o, l) /\ f \in EndState
    BY <1>0, <1>11, BothFacts, OtherFacts, Typed
  <2>2. end'[o][l] = f /\ chan'[o][l] = chan[o][l] \o m /\ chan[o][l] \in Seq(Control)
    BY <1>0, <1>4, <1>5, <2>1, Typed
  <2>3. /\ e.remote \in BOOLEAN /\ f.remote \in BOOLEAN /\ e.local \in BOOLEAN /\ f.ready \in BOOLEAN
        /\ f.local \in BOOLEAN /\ e.fresh \in BOOLEAN /\ e.ready \in BOOLEAN
    BY <1>2, <2>1, EndFields
  <2>4. /\ ~e.remote /\ LineIs(TRUE, e.fresh, f.local, f.ready, Tail(q))
        /\ e.fresh /\ f.ready => Has(Tail(q), "profile-catalog")
    <3>1. PICK a \in BOOLEAN, b \in BOOLEAN, c \in BOOLEAN, g \in BOOLEAN :
            a = e.remote /\ b = e.fresh /\ c = f.local /\ g = f.ready
      BY <2>3
    <3>2. LineIs(a, b, c, g, q)
      BY <2>1, <3>1 DEF Line
    <3>3. q \in Seq(Control) /\ q # <<>> /\ q[1].op = "phrase-ok"
      BY <1>2, <1>4
    <3>. HIDE DEF q
    <3>4. /\ ~a /\ c /\ LineIs(TRUE, b, c, g, Tail(q))
          /\ b /\ g => Has(Tail(q), "profile-catalog")
      BY <3>2, <3>3, LinePhrase
    <3>. QED BY <3>1, <3>4
  <2>5. Line(d, l)'
    BY <1>5, <1>9, <2>1, <2>2, <2>4 DEF Line
  <2>6. e.ready = FALSE /\ e.fresh
    BY <1>4, <1>6, <2>3, <2>4 DEF EndOK, Open
  <2>7. LineIs(f.remote, f.fresh, e.local, FALSE, chan[o][l])
    BY <2>1, <2>6 DEF Line
  <2>a. Clean(d, l)' /\ Clean(o, l)'
    BY <1>5, <1>9, <2>1, <2>2 DEF Clean
  <2>8. CASE ~r.ready
    <3>1. m = <<>> /\ r.ready = FALSE
      BY <1>2, <2>8 DEF Start
    <3>2. chan'[o][l] = chan[o][l]
      BY <2>2, <3>1
    <3>3. Line(o, l)'
      BY <1>5, <1>9, <2>1, <2>2, <2>7, <3>1, <3>2 DEF Line
    <3>4. Heard(d, l)' /\ Heard(o, l)'
      BY <1>5, <2>1, <3>1 DEF Heard, Answers
    <3>. QED BY <2>1, <2>5, <2>a, <3>3, <3>4
  <2>9. CASE r.ready
    <3>1. Len(m) = 2 /\ m[1].op = "profile-catalog" /\ m[2].op = "profile-consent" /\ r.ready = TRUE
      BY <1>0, <1>2, <2>9, OpeningTyped DEF Start
    <3>2. e.local = TRUE
      BY <1>9, <2>3, <2>9
    <3>3. LineIs(f.remote, f.fresh, TRUE, TRUE, chan[o][l] \o m)
      <4>1. LineIs(f.remote, f.fresh, TRUE, FALSE, chan[o][l])
        BY <2>7, <3>2
      <4>. HIDE DEF m, f
      <4>. QED BY <1>3, <2>2, <2>3, <3>1, <4>1, LineReady
    <3>4. Line(o, l)'
      BY <1>5, <1>9, <2>1, <2>2, <3>1, <3>2, <3>3 DEF Line
    <3>5. Has(chan'[o][l], "profile-catalog")
      <4>1. Has(m, "profile-catalog")
        BY <1>3, <3>1 DEF Has
      <4>. HIDE DEF m
      <4>. QED BY <1>3, <2>2, <4>1, HasMore
    <3>6. f.ready => Has(chan'[d][l], "profile-catalog")
      BY <1>5, <2>4, <2>6
    <3>7. Answers(d, l)' /\ Answers(o, l)'
      BY <2>1, <2>2, <3>5, <3>6 DEF Answers
    <3>. QED BY <2>1, <2>5, <2>a, <3>4, <3>7 DEF Heard
  <2>. QED BY <2>8, <2>9
<1>. HIDE DEF e
<1>12. entry'[d] \in {entry[d], l, NoLink}
  BY <1>4
<1>. QED BY <1>6, <1>7, <1>8, <1>10, <1>11, <1>12, Frame DEF e

-----------------------------------------------------------------------------
(* What is on its way to an end whose sides look the same.                 *)

(* The ends of a link as what is on its way to d sees them.                 *)
SeenAlike(d, l) ==
  /\ end'[d][l].remote = end[d][l].remote /\ (end'[d][l].fresh => end[d][l].fresh)
  /\ end'[Other(d)][l].local = end[Other(d)][l].local
  /\ end'[Other(d)][l].ready = end[Other(d)][l].ready

(* Both sides of a line as Boolean values.                                 *)
LEMMA SeenFields ==
  ASSUME TypeOK, end' \in EndType, NEW d \in Device, NEW l \in Link, SeenAlike(d, l)
  PROVE  \E remote, fresh, local, ready, still \in BOOLEAN :
           /\ Line(d, l) => LineIs(remote, fresh, local, ready, chan[d][l])
           /\ LineIs(remote, still, local, ready, chan'[d][l]) => Line(d, l)'
           /\ (remote <=> end[d][l].remote) /\ (fresh <=> end[d][l].fresh) /\ (ready <=> end[Other(d)][l].ready)
           /\ (local <=> end[Other(d)][l].local) /\ (still => fresh) /\ (still <=> end'[d][l].fresh)
<1>1. Other(d) \in Device
  BY OtherFacts
<1>2. end[d][l] \in EndState /\ end[Other(d)][l] \in EndState /\ end'[d][l] \in EndState
  BY <1>1, Typed DEF EndType
<1>3. PICK remote \in BOOLEAN : remote = end[d][l].remote
  BY <1>2, EndFields
<1>4. PICK fresh \in BOOLEAN : fresh = end[d][l].fresh
  BY <1>2, EndFields
<1>5. PICK local \in BOOLEAN : local = end[Other(d)][l].local
  BY <1>2, EndFields
<1>6. PICK ready \in BOOLEAN : ready = end[Other(d)][l].ready
  BY <1>2, EndFields
<1>7. PICK still \in BOOLEAN : still = end'[d][l].fresh
  BY <1>2, EndFields
<1>8. Line(d, l) => LineIs(remote, fresh, local, ready, chan[d][l])
  BY <1>3, <1>4, <1>5, <1>6 DEF Line
<1>9. LineIs(remote, still, local, ready, chan'[d][l]) => Line(d, l)'
  BY <1>3, <1>5, <1>6, <1>7 DEF Line, SeenAlike
<1>10. still => fresh
  BY <1>4, <1>7 DEF SeenAlike
<1>. QED BY <1>3, <1>4, <1>5, <1>6, <1>7, <1>8, <1>9, <1>10

(* A line stays when both sides and the channel do.                        *)
LEMMA LineSame ==
  ASSUME TypeOK, end' \in EndType, NEW d \in Device, NEW l \in Link, Line(d, l), SeenAlike(d, l),
         chan'[d][l] = chan[d][l]
  PROVE  Line(d, l)'
<1>1. PICK remote \in BOOLEAN, fresh \in BOOLEAN, local \in BOOLEAN, ready \in BOOLEAN, still \in BOOLEAN :
           /\ LineIs(remote, fresh, local, ready, chan[d][l]) /\ (still => fresh)
           /\ LineIs(remote, still, local, ready, chan'[d][l]) => Line(d, l)'
  BY SeenFields
<1>2. LineIs(remote, still, local, ready, chan[d][l])
  BY <1>1, LineKept
<1>. QED BY <1>1, <1>2

(* A line stays when a ready end sends catalogs and consents.              *)
LEMMA LineGrows ==
  ASSUME TypeOK, end' \in EndType, NEW d \in Device, NEW l \in Link, Line(d, l), SeenAlike(d, l),
         NEW m \in Seq(Control), chan'[d][l] = chan[d][l] \o m,
         end[Other(d)][l].local, end[Other(d)][l].ready,
         \A k \in DOMAIN m : m[k].op \in {"profile-catalog", "profile-consent"}
  PROVE  Line(d, l)'
<1>1. PICK remote \in BOOLEAN, fresh \in BOOLEAN, local \in BOOLEAN, ready \in BOOLEAN, still \in BOOLEAN :
           /\ Line(d, l) => LineIs(remote, fresh, local, ready, chan[d][l])
           /\ LineIs(remote, still, local, ready, chan'[d][l]) => Line(d, l)'
           /\ (remote <=> end[d][l].remote) /\ (fresh <=> end[d][l].fresh) /\ (ready <=> end[Other(d)][l].ready)
           /\ (local <=> end[Other(d)][l].local) /\ (still => fresh) /\ (still <=> end'[d][l].fresh)
  BY SeenFields
<1>2. chan[d][l] \in Seq(Control) /\ local /\ ready /\ LineIs(remote, fresh, local, ready, chan[d][l])
  BY <1>1, Typed
<1>3. PICK q \in Seq(Control) : q = chan[d][l]
  BY <1>2
<1>4. LineIs(remote, fresh, local, ready, q)
  BY <1>2, <1>3
<1>5. LineIs(remote, fresh, local, ready, q \o m)
  BY <1>2, <1>4, LineMore
<1>. DEFINE w == q \o m
<1>7. w = chan'[d][l] /\ (still => fresh)
  BY <1>1, <1>3
<1>8. LineIs(remote, fresh, local, ready, w)
  BY <1>5
<1>. HIDE DEF w
<1>6. LineIs(remote, still, local, ready, w)
  BY <1>7, <1>8, LineKept
<1>. QED BY <1>1, <1>6, <1>7

(* A line stays when a catalog or a consent is read.                       *)
LEMMA LineTaken ==
  ASSUME TypeOK, end' \in EndType, NEW d \in Device, NEW l \in Link, Line(d, l), SeenAlike(d, l),
         chan[d][l] # <<>>, chan[d][l][1].op # "phrase-ok", chan'[d][l] = Tail(chan[d][l]),
         end[d][l].remote, ~end'[d][l].fresh
  PROVE  end[Other(d)][l].ready /\ end[Other(d)][l].local /\ Line(d, l)'
<1>1. PICK fresh \in BOOLEAN, local \in BOOLEAN, ready \in BOOLEAN :
           /\ LineIs(TRUE, fresh, local, ready, chan[d][l])
           /\ LineIs(TRUE, FALSE, local, ready, chan'[d][l]) => Line(d, l)'
           /\ (ready <=> end[Other(d)][l].ready) /\ (local <=> end[Other(d)][l].local)
  <2>1. PICK remote \in BOOLEAN, fresh \in BOOLEAN, local \in BOOLEAN, ready \in BOOLEAN, still \in BOOLEAN :
           /\ LineIs(remote, fresh, local, ready, chan[d][l])
           /\ LineIs(remote, still, local, ready, chan'[d][l]) => Line(d, l)'
           /\ (remote <=> end[d][l].remote) /\ (still <=> end'[d][l].fresh)
           /\ (ready <=> end[Other(d)][l].ready) /\ (local <=> end[Other(d)][l].local)
    BY SeenFields
  <2>2. remote = TRUE /\ still = FALSE
    BY <2>1
  <2>. QED BY <2>1, <2>2
<1>2. chan[d][l] \in Seq(Control)
  BY Typed
<1>3. ready /\ local /\ LineIs(TRUE, FALSE, local, ready, Tail(chan[d][l]))
  BY <1>1, <1>2, LineTail
<1>. QED BY <1>1, <1>3

(* The first message to an end that has seen no catalog is one.             *)
LEMMA FirstIsCatalog ==
  ASSUME TypeOK, NEW d \in Device, NEW l \in Link, Line(d, l), chan[d][l] # <<>>,
         chan[d][l][1].op # "phrase-ok", end[d][l].remote, end[d][l].fresh
  PROVE  chan[d][l][1].op = "profile-catalog" /\ Has(chan[d][l], "profile-consent")
<1>. DEFINE q == chan[d][l]
<1>1. q \in Seq(Control) /\ 1 \in DOMAIN q
  BY Typed, SeqTail
<1>2. LineIs(end[d][l].remote, end[d][l].fresh, end[Other(d)][l].local, end[Other(d)][l].ready, q)
  BY DEF Line
<1>3. end[Other(d)][l].ready
  BY <1>1, <1>2 DEF LineIs
<1>4. Len(q) >= 2 /\ q[1].op = "profile-catalog" /\ q[2].op = "profile-consent"
  <2>1. awaited(end[d][l].remote) = 0
    BY DEF awaited
  <2>. HIDE DEF q
  <2>2. /\ Len(q) >= 0 + 2 /\ q[0 + 1].op = "profile-catalog" /\ q[0 + 2].op = "profile-consent"
    BY <1>2, <1>3, <2>1 DEF LineIs
  <2>. QED BY <2>2
<1>. HIDE DEF q
<1>5. 2 \in DOMAIN q
  BY <1>1, <1>4
<1>6. Has(q, "profile-consent")
  BY <1>4, <1>5 DEF Has
<1>. QED BY <1>4, <1>6 DEF q

(* What both ends say of a consent that is on its way, when nothing else    *)
(* changes than what is told and answered.                                  *)
LEMMA AnswersStay ==
  ASSUME NEW d \in Device, NEW l \in Link, Answers(d, l),
         end'[d][l].ready = end[d][l].ready, end'[Other(d)][l].ready = end[Other(d)][l].ready,
         task'[d] = task[d], task'[Other(d)] = task[Other(d)],
         Has(chan[Other(d)][l], "profile-catalog") => Has(chan'[Other(d)][l], "profile-catalog")
  PROVE  Answers(d, l)'
BY DEF Answers

-----------------------------------------------------------------------------
(* The consent of the peer arrives.                                        *)

(* An end changes and its channel is read; nothing is sent.                 *)
Quietly(d, l, r, own) ==
  end' = [end EXCEPT ![d][l] = r] /\ chan' = [chan EXCEPT ![d][l] = own]

(* What a quiet change leaves.                                             *)
LEMMA QuietFacts ==
  ASSUME TypeOK, NEW d \in Device, NEW l \in Link, NEW r \in EndState, NEW own \in Seq(Control),
         Quietly(d, l, r, own)
  PROVE  /\ end' \in EndType /\ chan' \in ChanType /\ end'[d][l] = r /\ chan'[d][l] = own
         /\ \A x \in Device, k \in Link : x # d \/ k # l => end'[x][k] = end[x][k]
         /\ \A x \in Device, k \in Link : x # d \/ k # l => chan'[x][k] = chan[x][k]
<1>1. end \in EndType /\ chan \in ChanType
  BY Typed
<1>2. /\ end' \in EndType /\ end'[d][l] = r
      /\ \A x \in Device, k \in Link : x # d \/ k # l => end'[x][k] = end[x][k]
  BY <1>1 DEF EndType, Quietly
<1>3. /\ chan' \in ChanType /\ chan'[d][l] = own
      /\ \A x \in Device, k \in Link : x # d \/ k # l => chan'[x][k] = chan[x][k]
  BY <1>1 DEF ChanType, Quietly
<1>. QED BY <1>2, <1>3

(* An end that stays in its state, with other consent.                      *)
Consenting(d, l, r) ==
  /\ r \in EndState /\ r.state = end[d][l].state /\ r.local = end[d][l].local
  /\ r.remote = end[d][l].remote /\ r.ready = end[d][l].ready
  /\ r.fresh = end[d][l].fresh /\ r.keyed = end[d][l].keyed
SamePeer(d, record) ==
  /\ record \in PeerRecord /\ record.known = store[d].known

Taking(d, l, given, own) ==
  /\ chan[d][l] # <<>> /\ chan[d][l][1] = ConsentMsg(given) /\ own = Tail(chan[d][l])
  /\ end[d][l].ready /\ Open(d, l)
NotedAs(d, l, given, r, record) ==
  /\ SamePeer(d, record) /\ record.local = store[d].local
  /\ record.remote = given
  /\ r.pending = end[d][l].pending
  /\ r.attached = applyConsent(record, registry[d])
  /\ store' = [store EXCEPT ![d] = record]
Noted(d, l, given, r) ==
  \/ end[d][l].keyed /\ store[d].known /\ \E record : NotedAs(d, l, given, r, record)
  \/ ~(end[d][l].keyed /\ store[d].known) /\ store' = store

(* A consent that arrives changes the record or is kept aside.             *)
LEMMA ConsentCases ==
  ASSUME TypeOK, NEW d \in Device, NEW l \in Link, handleConsent(d, l)
  PROVE  \E given \in ConsentMap, r \in EndState, own \in Seq(Control) :
           /\ Taking(d, l, given, own) /\ Consenting(d, l, r)
           /\ Quietly(d, l, r, own)
           /\ Noted(d, l, given, r)
<1>. DEFINE q == chan[d][l]
            given == Head(q).profiles
            own == Tail(q)
            record == [store[d] EXCEPT !.remote = given]
            att == applyConsent(record, registry[d])
            r1 == [end[d][l] EXCEPT !.attached = att]
            r2 == [end[d][l] EXCEPT !.pending = {given}]
<1>1. q # <<>> /\ Head(q).op = "profile-consent" /\ end[d][l].ready /\ Open(d, l)
  BY DEF handleConsent, Arrives
<1>2. /\ q \in Seq(Control) /\ Head(q) = q[1] /\ Head(q) \in Control /\ own \in Seq(Control)
  BY <1>1, FirstOf
<1>3. given \in ConsentMap /\ q[1] = ConsentMsg(given)
  BY <1>1, <1>2, ControlKinds
<1>4. end[d][l] \in EndState /\ registry[d] \in SUBSET Entry /\ store[d] \in PeerRecord
  BY Typed
<1>. HIDE DEF given
<1>5. SamePeer(d, record) /\ record.local = store[d].local /\ record.remote = given
  BY <1>3, <1>4 DEF PeerRecord, SamePeer
<1>6. /\ chan' = [chan EXCEPT ![d][l] = own]
      /\ \/ /\ end[d][l].keyed /\ store[d].known
            /\ store' = [store EXCEPT ![d] = record]
            /\ end' = [end EXCEPT ![d][l].attached = att]
         \/ /\ ~(end[d][l].keyed /\ store[d].known)
            /\ end' = [end EXCEPT ![d][l].pending = {given}]
            /\ store' = store
  BY DEF handleConsent, given, Taken
<1>9. Taking(d, l, given, own)
  BY <1>1, <1>3 DEF Taking
<1>. HIDE DEF record, own
<1>7. CASE /\ end[d][l].keyed /\ store[d].known
           /\ store' = [store EXCEPT ![d] = record]
           /\ end' = [end EXCEPT ![d][l].attached = att]
  <2>1. att \in SUBSET Id /\ att = applyConsent(record, registry[d])
    BY <1>4, AttachedTyped
  <2>. HIDE DEF att
  <2>2. Consenting(d, l, r1) /\ r1.pending = end[d][l].pending /\ r1.attached = att
    BY <1>4, <2>1 DEF EndState, Consenting
  <2>3. end' = [end EXCEPT ![d][l] = r1]
    BY <1>7
  <2>. HIDE DEF r1
  <2>4. NotedAs(d, l, given, r1, record)
    BY <1>5, <1>7, <2>1, <2>2 DEF NotedAs
  <2>5. Noted(d, l, given, r1)
    BY <1>7, <2>4 DEF Noted
  <2>6. r1 \in EndState /\ own \in Seq(Control) /\ given \in ConsentMap
    BY <1>2, <1>3, <2>2 DEF Consenting
  <2>7. Quietly(d, l, r1, own)
    BY <1>6, <2>3 DEF Quietly
  <2>. QED BY <1>9, <2>2, <2>5, <2>6, <2>7
<1>8. CASE /\ ~(end[d][l].keyed /\ store[d].known)
           /\ end' = [end EXCEPT ![d][l].pending = {given}]
           /\ store' = store
  <2>2. Consenting(d, l, r2)
    BY <1>3, <1>4 DEF EndState, Consenting
  <2>3. end' = [end EXCEPT ![d][l] = r2]
    BY <1>8
  <2>. HIDE DEF r2
  <2>5. Noted(d, l, given, r2)
    BY <1>8 DEF Noted
  <2>6. r2 \in EndState /\ own \in Seq(Control) /\ given \in ConsentMap
    BY <1>2, <1>3, <2>2 DEF Consenting
  <2>7. Quietly(d, l, r2, own)
    BY <1>6, <2>3 DEF Quietly
  <2>. QED BY <1>9, <2>2, <2>5, <2>6, <2>7
<1>. QED BY <1>6, <1>7, <1>8

(* It keeps the types.                                                     *)
LEMMA ConsentTypes ==
  ASSUME TypeOK, NEW d \in Device, NEW l \in Link, handleConsent(d, l)
  PROVE  TypeOK'
<1>1. PICK given \in ConsentMap, r \in EndState, own \in Seq(Control) :
           /\ Taking(d, l, given, own) /\ Consenting(d, l, r)
           /\ Quietly(d, l, r, own)
           /\ Noted(d, l, given, r)
  BY ConsentCases
<1>2. r \in EndState
  BY <1>1 DEF Consenting
<1>3. end' \in EndType /\ chan' \in ChanType
  BY <1>1, <1>2, QuietFacts
<1>4. store' \in [Device -> PeerRecord]
  BY <1>1 DEF Noted, NotedAs, SamePeer, TypeOK
<1>. QED BY <1>3, <1>4 DEF TypeOK, EndType, ChanType, handleConsent

(* It keeps the rules.                                                     *)
LEMMA ConsentKeeps ==
  ASSUME Inv, NEW d \in Device, NEW l \in Link, handleConsent(d, l)
  PROVE  Rules'
<1>0. TypeOK
  BY DEF Inv
<1>. DEFINE o == Other(d)
            e == end[d][l]
            q == chan[d][l]
<1>1. PICK given \in ConsentMap, r \in EndState, own \in Seq(Control) :
           /\ Taking(d, l, given, own) /\ Consenting(d, l, r)
           /\ Quietly(d, l, r, own)
           /\ Noted(d, l, given, r)
  BY <1>0, ConsentCases
<1>a. /\ q # <<>> /\ q[1] = ConsentMsg(given) /\ own = Tail(q)
      /\ e.ready /\ Open(d, l)
  BY <1>1 DEF Taking
<1>b. /\ r \in EndState /\ r.state = e.state /\ r.local = e.local /\ r.remote = e.remote
      /\ r.ready = e.ready /\ r.fresh = e.fresh /\ r.keyed = e.keyed
  BY <1>1 DEF Consenting
<1>2. /\ end' \in EndType /\ end'[d][l] = r /\ chan'[d][l] = own
      /\ \A x \in Device, k \in Link : x # d \/ k # l => end'[x][k] = end[x][k]
      /\ \A x \in Device, k \in Link : x # d \/ k # l => chan'[x][k] = chan[x][k]
  BY <1>0, <1>1, QuietFacts
<1>3. UNCHANGED <<registry, entry, task>>
  BY DEF handleConsent
<1>4. /\ store'[d] \in PeerRecord /\ store'[d].local = store[d].local
      /\ \A x \in Device : x # d => store'[x] = store[x]
  BY <1>0, <1>1, Typed DEF Noted, NotedAs, SamePeer, TypeOK
<1>5. Only(l) /\ e.state = "open" /\ e.state # "new" /\ EndOK(d, l)
      /\ o \in Device /\ o # d /\ Other(o) = d /\ \A x \in Device : x = d \/ x = o
  BY <1>a, OnlyOpen, OtherFacts DEF Inv, Open
<1>6. Here(d, l)
  BY <1>2, <1>3, <1>4, <1>5, <1>b DEF Here, OthersSame
<1>7. TasksFrom(d, l)
  BY <1>3 DEF TasksFrom
<1>8. q \in Seq(Control) /\ q[1].op = "profile-consent" /\ e.remote /\ (e.keyed => store[d].known)
      /\ e \in EndState
  BY <1>0, <1>a, <1>5, Typed, ControlFacts DEF EndOK
<1>9. EndOK(d, l)'
  <2>1. CASE e.keyed
    <3>1. PICK record : NotedAs(d, l, given, r, record)
      BY <1>1, <1>8, <2>1 DEF Noted
    <3>2. /\ store'[d] = record /\ record.known /\ r.pending = e.pending
          /\ r.attached = applyConsent(store'[d], registry'[d])
      BY <1>0, <1>3, <1>8, <2>1, <3>1 DEF NotedAs, SamePeer, TypeOK
    <3>3. /\ r.keyed /\ ~r.fresh /\ entry'[d] = l /\ r.pending = {}
      BY <1>3, <1>5, <1>b, <2>1, <3>2 DEF EndOK
    <3>4. r.ready <=> r.state = "open" /\ r.local /\ r.remote
      BY <1>5, <1>b DEF EndOK
    <3>. QED BY <1>2, <1>5, <1>a, <1>b, <3>2, <3>3, <3>4 DEF EndOK
  <2>2. CASE ~e.keyed
    <3>1. ~r.keyed /\ (~r.fresh => task'[d] # {})
      BY <1>3, <1>5, <1>b, <2>2 DEF EndOK
    <3>4. r.ready <=> r.state = "open" /\ r.local /\ r.remote
      BY <1>5, <1>b DEF EndOK
    <3>. QED BY <1>2, <1>5, <1>a, <1>b, <3>1, <3>4 DEF EndOK
  <2>. QED BY <2>1, <2>2
<1>10. ASSUME Both(l) PROVE \A x \in Device : Line(x, l)' /\ Clean(x, l)' /\ Heard(x, l)'
  <2>1. /\ Line(d, l) /\ Line(o, l) /\ Clean(d, l) /\ Clean(o, l) /\ EndOK(o, l)
        /\ Heard(d, l) /\ Heard(o, l)
    BY <1>10, BothFacts
  <2>2. end'[o][l] = end[o][l] /\ chan'[o][l] = chan[o][l] /\ store'[o] = store[o]
    BY <1>2, <1>4, <1>5
  <2>3. ~e.fresh
    BY <1>0, <1>8, <1>a, <2>1, FirstIsCatalog
  <2>4. SeenAlike(d, l) /\ SeenAlike(o, l)
    BY <1>2, <1>5, <1>b, <2>2 DEF SeenAlike
  <2>5. Line(d, l)'
    BY <1>0, <1>2, <1>8, <1>a, <1>b, <2>1, <2>3, <2>4, LineTaken
  <2>6. Line(o, l)'
    BY <1>0, <1>2, <1>5, <2>1, <2>2, <2>4, LineSame
  <2>7. Clean(d, l)' /\ Clean(o, l)'
    BY <1>2, <1>b, <2>1, <2>2, <2>3 DEF Clean
  <2>8. Heard(o, l)'
    <3>1. Answers(o, l) => Answers(o, l)'
      <4>1. Has(chan[d][l], "profile-catalog") => Has(chan'[d][l], "profile-catalog")
        BY <1>2, <1>8, <1>a, HasTail
      <4>. QED BY <1>2, <1>3, <1>5, <1>b, <2>2, <4>1, AnswersStay
    <3>. QED BY <1>4, <1>5, <2>1, <2>2, <3>1 DEF Heard
  <2>9. Heard(d, l)'
    <3>1. CASE Answers(d, l)
      <4>1. Answers(d, l)'
        BY <1>2, <1>3, <1>b, <2>2, <3>1, AnswersStay
      <4>. QED BY <4>1 DEF Heard
    <3>2. CASE ~e.keyed
      <4>1. task[d] # {}
        BY <1>5, <2>3, <3>2 DEF EndOK
      <4>. QED BY <1>3, <4>1 DEF Heard, Answers
    <3>3. CASE e.keyed /\ ~Answers(d, l)
      <4>1. ~(~Has(q, "profile-consent"))
        <5>1. 1 \in DOMAIN q
          BY <1>8, <1>a, SeqTail
        <5>. QED BY <1>8, <5>1 DEF Has
      <4>2. OnItsWay(q, store[o].local)
        BY <2>1, <3>3, <4>1 DEF Heard
      <4>3. \/ OnItsWay(Tail(q), store[o].local)
            \/ q[1] = ConsentMsg(store[o].local) /\ ~Has(Tail(q), "profile-consent")
        BY <1>8, <1>a, <4>2, OnTail
      <4>4. CASE OnItsWay(Tail(q), store[o].local)
        BY <1>2, <1>a, <2>2, <4>4 DEF Heard
      <4>5. CASE q[1] = ConsentMsg(store[o].local) /\ ~Has(Tail(q), "profile-consent")
        <5>1. given = store[o].local
          BY <1>a, <4>5 DEF ConsentMsg
        <5>2. PICK record : NotedAs(d, l, given, r, record)
          BY <1>1, <1>8, <3>3 DEF Noted
        <5>3. store'[d].remote = store[o].local
          BY <1>0, <5>1, <5>2 DEF NotedAs, TypeOK
        <5>4. Agree(store'[d].remote, store'[o].local)
          BY <2>2, <5>3 DEF Agree
        <5>. QED BY <1>2, <1>a, <4>5, <5>4 DEF Heard
      <4>. QED BY <4>3, <4>4, <4>5
    <3>. QED BY <3>1, <3>2, <3>3
  <2>. QED BY <1>5, <2>5, <2>6, <2>7, <2>8, <2>9
<1>11. entry'[d] \in {entry[d], l, NoLink}
  BY <1>3
<1>. HIDE DEF e
<1>. QED BY <1>5, <1>6, <1>7, <1>9, <1>10, <1>11, Frame DEF e

-----------------------------------------------------------------------------
(* A catalog arrives.                                                      *)

(* What a finished catalog leaves, with what it answers.                    *)
Leaves(d, l, own, final, r, t, m) ==
  /\ m # <<>> /\ m[Len(m)] = ConsentMsg(final.local)
  /\ \A k \in DOMAIN m : m[k].op \in {"profile-catalog", "profile-consent"}
  /\ Adoptions(t.links) # {} => Has(m, "profile-catalog")
  /\ end' \in EndType /\ chan' \in ChanType
  /\ end'[d][l] = r /\ chan'[d][l] = own
  /\ \A x \in Device, k \in Link : x # d \/ k # l => end'[x][k] = end[x][k]
  /\ chan'[Other(d)][l] = IF Open(d, l) /\ Open(Other(d), l)
                            THEN chan[Other(d)][l] \o m ELSE chan[Other(d)][l]
  /\ \A x \in Device, k \in Link : k # l => chan'[x][k] = chan[x][k]

(* What a finished catalog leaves, with its answer.                        *)
LEMMA FinishLeaves ==
  ASSUME TypeOK, NEW d \in Device, NEW l \in Link, NEW own \in Seq(Control), NEW record, NEW t,
         NEW final, NEW r, Finished(d, l, own, record, t, final, r)
  PROVE  \E m \in Seq(Control) : Leaves(d, l, own, final, r, t, m)
<1>. DEFINE m == answer(t.links, registry[d], final)
<1>1. /\ final \in PeerRecord /\ r \in EndState /\ m \in Seq(Control) /\ Sending(d, l, r, own, m)
  BY DEF Finished
<1>2. registry[d] \in SUBSET Entry
  BY Typed
<1>3. /\ Len(m) \in 1 .. 2 /\ m[Len(m)] = ConsentMsg(final.local)
      /\ \A k \in DOMAIN m : m[k].op \in {"profile-catalog", "profile-consent"}
      /\ Adoptions(t.links) # {} => m[1].op = "profile-catalog"
  BY <1>1, <1>2, AnswerTyped
<1>. HIDE DEF m
<1>4. m # <<>> /\ 1 \in DOMAIN m
  BY <1>1, <1>3
<1>5. Adoptions(t.links) # {} => Has(m, "profile-catalog")
  BY <1>3, <1>4 DEF Has
<1>6. /\ end' \in EndType /\ chan' \in ChanType
      /\ end'[d][l] = r /\ chan'[d][l] = own
      /\ \A x \in Device, k \in Link : x # d \/ k # l => end'[x][k] = end[x][k]
      /\ chan'[Other(d)][l] = IF Open(d, l) /\ Open(Other(d), l)
                                THEN chan[Other(d)][l] \o m ELSE chan[Other(d)][l]
      /\ \A x \in Device, k \in Link : k # l => chan'[x][k] = chan[x][k]
  BY <1>1, SendingFacts
<1>7. Leaves(d, l, own, final, r, t, m)
  BY <1>3, <1>4, <1>5, <1>6 DEF Leaves
<1>. QED BY <1>1, <1>7

(* A finished catalog keeps the rules.                                     *)
LEMMA FinishKeeps ==
  ASSUME Inv, NEW d \in Device, NEW l \in Link, NEW own \in Seq(Control), NEW record, NEW t,
         NEW final, NEW r, Finished(d, l, own, record, t, final, r),
         registry' = registry, Only(l), end[d][l].state # "new", Open(d, l) => end[d][l].ready,
         TasksFrom(d, l), \A x \in Device : x # d => task'[x] = task[x],
         Both(l) => Line(d, l)' /\ Heard(d, l)'
  PROVE  Rules'
<1>0. TypeOK
  BY DEF Inv
<1>. DEFINE o == Other(d)
            e == end[d][l]
<1>a. PICK m \in Seq(Control) : Leaves(d, l, own, final, r, t, m)
  BY <1>0, FinishLeaves
<1>1. /\ m # <<>> /\ m[Len(m)] = ConsentMsg(final.local)
      /\ \A k \in DOMAIN m : m[k].op \in {"profile-catalog", "profile-consent"}
      /\ Adoptions(t.links) # {} => Has(m, "profile-catalog")
      /\ end' \in EndType /\ chan' \in ChanType
      /\ end'[d][l] = r /\ chan'[d][l] = own
      /\ \A x \in Device, k \in Link : x # d \/ k # l => end'[x][k] = end[x][k]
      /\ chan'[o][l] = IF Open(d, l) /\ Open(o, l)
                                THEN chan[o][l] \o m ELSE chan[o][l]
      /\ \A x \in Device, k \in Link : k # l => chan'[x][k] = chan[x][k]
  BY <1>a DEF Leaves
<1>2. /\ final \in PeerRecord /\ final.known /\ r \in EndState
      /\ store' = [store EXCEPT ![d] = final]
      /\ entry' = [entry EXCEPT ![d] = IF end[d][l].keyed THEN entry[d] ELSE l]
      /\ r.state = e.state /\ r.local = e.local /\ r.remote = e.remote
      /\ r.ready = e.ready /\ r.keyed /\ ~r.fresh /\ r.pending = {}
      /\ r.attached = applyConsent(final, registry[d])
  BY DEF Finished
<1>3. /\ store'[d] = final /\ \A x \in Device : x # d => store'[x] = store[x] /\ entry'[x] = entry[x]
      /\ entry'[d] = IF e.keyed THEN entry[d] ELSE l
  BY <1>0, <1>2 DEF TypeOK
<1>4. EndOK(d, l) /\ o \in Device /\ o # d /\ Other(o) = d /\ \A x \in Device : x = d \/ x = o
  BY OtherFacts DEF Inv
<1>5. Here(d, l)
  BY <1>1, <1>2, <1>3, <1>4 DEF Here, OthersSame
<1>6. EndOK(d, l)'
  <2>1. r.ready <=> r.state = "open" /\ r.local /\ r.remote
    BY <1>2, <1>4 DEF EndOK
  <2>2. r.state = "open" => r.ready /\ entry'[d] = l
    BY <1>2, <1>3, <1>4 DEF EndOK, Open
  <2>3. r.attached = applyConsent(store'[d], registry'[d])
    BY <1>2, <1>3
  <2>4. r.state # "new" /\ store'[d].known
    BY <1>2, <1>3
  <2>. QED BY <1>1, <1>2, <2>1, <2>2, <2>3, <2>4 DEF EndOK
<1>7. ASSUME Both(l) PROVE \A x \in Device : Line(x, l)' /\ Clean(x, l)' /\ Heard(x, l)'
  <2>1. /\ Line(o, l) /\ Clean(d, l) /\ Clean(o, l) /\ Open(d, l) /\ Open(o, l)
    BY <1>7, BothFacts
  <2>2. end'[o][l] = end[o][l] /\ chan'[o][l] = chan[o][l] \o m /\ chan[o][l] \in Seq(Control)
    BY <1>0, <1>1, <1>4, <2>1, Typed
  <2>3. e.ready /\ e.local
    BY <1>4, <2>1 DEF EndOK
  <2>4. SeenAlike(o, l)
    BY <1>1, <1>2, <1>4, <2>2 DEF SeenAlike
  <2>5. Line(o, l)'
    BY <1>0, <1>1, <1>4, <2>1, <2>2, <2>3, <2>4, LineGrows
  <2>6. OnItsWay(chan'[o][l], final.local)
    BY <1>1, <2>2, OnLast
  <2>7. Heard(o, l)'
    BY <1>3, <1>4, <2>6 DEF Heard
  <2>8. Clean(d, l)' /\ Clean(o, l)'
    BY <1>1, <1>2, <2>1, <2>2 DEF Clean
  <2>. QED BY <1>4, <1>7, <2>5, <2>7, <2>8
<1>8. entry'[d] \in {entry[d], l, NoLink}
  BY <1>3
<1>. QED BY <1>4, <1>5, <1>6, <1>7, <1>8, Frame

(* A catalog that is dealt with at once.                                    *)
LEMMA DoneKeeps ==
  ASSUME Inv, NEW d \in Device, NEW l \in Link, handleCatalog(d, l), NEW final, NEW r,
         CatalogDone(d, l, IF end[d][l].fresh THEN Unknown ELSE store[d], final, r)
  PROVE  Rules'
<1>0. TypeOK
  BY DEF Inv
<1>. DEFINE o == Other(d)
            e == end[d][l]
            q == chan[d][l]
            record == IF end[d][l].fresh THEN Unknown ELSE store[d]
<1>1. PICK t : Finished(d, l, Tail(q), record, t, final, r) /\ UNCHANGED <<registry, task>>
  BY DEF CatalogDone
<1>2. /\ q # <<>> /\ q \in Seq(Control) /\ Head(q).op = "profile-catalog" /\ q[1].op = "profile-catalog"
      /\ e.ready /\ Open(d, l) /\ e \in EndState
  BY <1>0, FirstOf, Typed DEF handleCatalog, Arrives
<1>3. PICK own \in Seq(Control) : own = Tail(q)
  BY <1>0, <1>2, FirstOf
<1>4. Finished(d, l, own, record, t, final, r)
  BY <1>1, <1>3
<1>5. Only(l) /\ e.state # "new" /\ EndOK(d, l) /\ o \in Device /\ o # d /\ Other(o) = d
  BY <1>2, OnlyOpen, OtherFacts DEF Inv
<1>a. PICK m \in Seq(Control) : Leaves(d, l, own, final, r, t, m)
  BY <1>0, <1>4, FinishLeaves
<1>6. /\ end' \in EndType /\ chan' \in ChanType
      /\ end'[d][l] = r /\ chan'[d][l] = own
      /\ \A x \in Device, k \in Link : x # d \/ k # l => end'[x][k] = end[x][k]
      /\ chan'[o][l] = IF Open(d, l) /\ Open(o, l)
                                THEN chan[o][l] \o m ELSE chan[o][l]
  BY <1>a DEF Leaves
<1>7. /\ final \in PeerRecord
      /\ store' = [store EXCEPT ![d] = final]
      /\ e.pending = {} => Agree(final.remote, record.remote)
      /\ r.remote = e.remote /\ ~r.fresh /\ r.ready = e.ready
  BY <1>4 DEF Finished
<1>8. ASSUME Both(l) PROVE Line(d, l)' /\ Heard(d, l)'
  <2>1. /\ Line(d, l) /\ Clean(d, l) /\ Heard(d, l) /\ Open(o, l)
    BY <1>8, BothFacts
  <2>2. end'[o][l] = end[o][l] /\ chan'[o][l] = chan[o][l] \o m /\ chan[o][l] \in Seq(Control)
    BY <1>0, <1>2, <1>5, <1>6, <2>1, Typed
  <2>3. SeenAlike(d, l)
    BY <1>6, <1>7, <2>2 DEF SeenAlike
  <2>4. e.remote
    BY <1>2, <1>5 DEF EndOK
  <2>5. Line(d, l)'
    BY <1>0, <1>2, <1>3, <1>6, <1>7, <2>1, <2>3, <2>4, LineTaken
  <2>6. CASE Answers(d, l)
    <3>1. Has(chan[o][l], "profile-catalog") => Has(chan'[o][l], "profile-catalog")
      BY <2>2, HasMore
    <3>2. Answers(d, l)'
      BY <1>1, <1>5, <1>6, <1>7, <2>2, <2>6, <3>1, AnswersStay
    <3>. QED BY <2>5, <3>2 DEF Heard
  <2>7. CASE ~Answers(d, l) /\ OnItsWay(q, store[o].local)
    <3>1. OnItsWay(Tail(q), store[o].local)
      BY <1>2, <2>7, OnTail, ControlFacts
    <3>2. store'[o] = store[o]
      BY <1>0, <1>5, <1>7 DEF TypeOK
    <3>. QED BY <1>3, <1>6, <2>5, <3>1, <3>2 DEF Heard
  <2>8. CASE /\ ~Answers(d, l)
             /\ ~Has(q, "profile-consent") /\ Agree(store[d].remote, store[o].local)
    <3>1. ~e.fresh
      BY <1>0, <1>2, <2>1, <2>4, <2>8, FirstIsCatalog
    <3>2. task[d] = {}
      BY <2>8 DEF Answers
    <3>3. e.keyed /\ e.pending = {}
      BY <1>2, <1>5, <3>1, <3>2 DEF EndOK, Open
    <3>4. Agree(final.remote, store[d].remote)
      BY <1>7, <3>1, <3>3
    <3>5. store'[d] = final /\ store'[o] = store[o]
      BY <1>0, <1>5, <1>7 DEF TypeOK
    <3>6. Agree(store'[d].remote, store'[o].local)
      BY <2>8, <3>4, <3>5 DEF Agree
    <3>7. ~Has(Tail(q), "profile-consent")
      BY <1>2, <2>8, HasTail
    <3>. QED BY <1>3, <1>6, <2>5, <3>6, <3>7 DEF Heard
  <2>. QED BY <2>1, <2>6, <2>7, <2>8 DEF Heard
<1>9. TasksFrom(d, l) /\ \A x \in Device : x # d => task'[x] = task[x]
  BY <1>1 DEF TasksFrom
<1>. HIDE DEF record
<1>. QED BY <1>1, <1>2, <1>4, <1>5, <1>8, <1>9, FinishKeeps

(* A catalog that awaits the registry keeps the rules.                     *)
LEMMA AwaitsKeeps ==
  ASSUME Inv, NEW d \in Device, NEW l \in Link, handleCatalog(d, l), NEW t, NEW r,
         CatalogAwaits(d, l, IF end[d][l].fresh THEN Unknown ELSE store[d], t, r)
  PROVE  Rules'
<1>0. TypeOK
  BY DEF Inv
<1>. DEFINE o == Other(d)
            e == end[d][l]
            q == chan[d][l]
            record == IF end[d][l].fresh THEN Unknown ELSE store[d]
<1>1. /\ t \in Task /\ t.link = l /\ Adoptions(t.links) # {}
      /\ \A x \in Device : x # d => registry'[x] = registry[x]
      /\ task' = [task EXCEPT ![d] = task[d] \cup {t}]
      /\ store' = [store EXCEPT ![d] = record]
      /\ r \in EndState /\ ~r.fresh /\ r = [end[d][l] EXCEPT !.fresh = FALSE]
      /\ Sending(d, l, r, Tail(q), <<>>)
      /\ entry' = entry
  BY DEF CatalogAwaits
<1>2. /\ q # <<>> /\ q \in Seq(Control) /\ Head(q).op = "profile-catalog" /\ q[1].op = "profile-catalog"
      /\ e.ready /\ Open(d, l) /\ e \in EndState
  BY <1>0, FirstOf, Typed DEF handleCatalog, Arrives
<1>3. PICK own \in Seq(Control) : own = Tail(q)
  BY <1>0, <1>2, FirstOf
<1>5. Only(l) /\ e.state # "new" /\ EndOK(d, l) /\ o \in Device /\ o # d /\ Other(o) = d
      /\ \A x \in Device : x = d \/ x = o
  BY <1>2, OnlyOpen, OtherFacts DEF Inv
<1>6. /\ end' \in EndType /\ chan' \in ChanType
      /\ end'[d][l] = r /\ chan'[d][l] = own
      /\ \A x \in Device, k \in Link : x # d \/ k # l => end'[x][k] = end[x][k]
      /\ chan'[o][l] = chan[o][l]
      /\ \A x \in Device, k \in Link : k # l => chan'[x][k] = chan[x][k]
  <2>a. <<>> \in Seq(Control)
    OBVIOUS
  <2>b. PICK m \in Seq(Control) : m = <<>>
    BY <2>a
  <2>1. Sending(d, l, r, own, m) /\ r \in EndState
    BY <1>1, <1>3, <2>b
  <2>2. /\ end' \in EndType /\ chan' \in ChanType
        /\ end'[d][l] = r /\ chan'[d][l] = own
        /\ \A x \in Device, k \in Link : x # d \/ k # l => end'[x][k] = end[x][k]
        /\ chan'[o][l] = IF Open(d, l) /\ Open(o, l) THEN chan[o][l] \o m ELSE chan[o][l]
        /\ \A x \in Device, k \in Link : k # l => chan'[x][k] = chan[x][k]
    BY <1>0, <2>1, SendingFacts
  <2>3. chan[o][l] \in Seq(Control)
    BY <1>0, <1>5, Typed
  <2>. QED BY <2>2, <2>3, <2>b, ConcatEmptySeq
<1>7. /\ task'[d] # {} /\ \A x \in Device : x # d => task'[x] = task[x] /\ store'[x] = store[x]
      /\ store'[d] = record /\ \A u \in task'[d] : u \in task[d] \/ u = t
  BY <1>0, <1>1 DEF TypeOK
<1>8. /\ r.state = e.state /\ r.local = e.local /\ r.remote = e.remote /\ r.ready = e.ready
      /\ r.keyed = e.keyed /\ r.pending = e.pending /\ ~r.fresh
  BY <1>1, <1>2 DEF EndState
<1>9. Here(d, l)
  BY <1>1, <1>5, <1>6, <1>7, <1>8 DEF Here, OthersSame
<1>10. TasksFrom(d, l)
  BY <1>1, <1>6, <1>7 DEF TasksFrom
<1>11. EndOK(d, l)'
  <2>1. r.ready <=> r.state = "open" /\ r.local /\ r.remote
    BY <1>5, <1>8 DEF EndOK
  <2>2. r.keyed => entry'[d] = l /\ store'[d].known /\ r.pending = {}
    <3>. SUFFICES ASSUME e.keyed PROVE entry'[d] = l /\ store'[d].known /\ e.pending = {}
      BY <1>8
    <3>1. entry[d] = l /\ store[d].known /\ e.pending = {} /\ ~e.fresh
      BY <1>2, <1>5 DEF EndOK, Open
    <3>. QED BY <1>1, <1>7, <3>1
  <2>. QED BY <1>2, <1>5, <1>6, <1>7, <1>8, <2>1, <2>2 DEF EndOK
<1>12. ASSUME Both(l) PROVE \A x \in Device : Line(x, l)' /\ Clean(x, l)' /\ Heard(x, l)'
  <2>1. /\ Line(d, l) /\ Line(o, l) /\ Clean(o, l)
    BY <1>12, BothFacts
  <2>2. end'[o][l] = end[o][l]
    BY <1>5, <1>6
  <2>3. SeenAlike(d, l) /\ SeenAlike(o, l)
    BY <1>5, <1>6, <1>8, <2>2 DEF SeenAlike
  <2>4. e.remote
    BY <1>2, <1>5 DEF EndOK
  <2>5. Line(d, l)'
    BY <1>0, <1>2, <1>3, <1>6, <1>8, <2>1, <2>3, <2>4, LineTaken
  <2>6. Line(o, l)'
    BY <1>0, <1>5, <1>6, <2>1, <2>3, LineSame
  <2>7. Clean(d, l)' /\ Clean(o, l)'
    BY <1>6, <1>8, <2>1, <2>2 DEF Clean
  <2>8. Heard(d, l)' /\ Heard(o, l)'
    BY <1>5, <1>7 DEF Heard, Answers
  <2>. QED BY <1>5, <2>5, <2>6, <2>7, <2>8
<1>13. entry'[d] \in {entry[d], l, NoLink}
  BY <1>1
<1>. HIDE DEF e
<1>. QED BY <1>5, <1>9, <1>10, <1>11, <1>12, <1>13, Frame DEF e

(* A catalog keeps the rules.                                              *)
LEMMA CatalogKeeps ==
  ASSUME Inv, NEW d \in Device, NEW l \in Link, handleCatalog(d, l)
  PROVE  Rules'
<1>. DEFINE record == IF end[d][l].fresh THEN Unknown ELSE store[d]
<1>1. \/ \E final, r : CatalogDone(d, l, record, final, r)
      \/ \E t, r : CatalogAwaits(d, l, record, t, r)
  BY CatalogCases DEF Inv
<1>. QED BY <1>1, DoneKeeps, AwaitsKeeps

(* A catalog keeps the types.                                              *)
LEMMA CatalogTypes ==
  ASSUME TypeOK, NEW d \in Device, NEW l \in Link, handleCatalog(d, l)
  PROVE  TypeOK'
<1>. DEFINE record == IF end[d][l].fresh THEN Unknown ELSE store[d]
<1>1. /\ \/ \E final, r : CatalogDone(d, l, record, final, r)
         \/ \E t, r : CatalogAwaits(d, l, record, t, r)
      /\ record \in PeerRecord
  BY CatalogCases
<1>2. chan[d][l] # <<>>
  BY DEF handleCatalog, Arrives
<1>3. PICK own \in Seq(Control) : own = Tail(chan[d][l])
  BY <1>2, FirstOf
<1>4. vetoed' \in [Device -> SUBSET Name] /\ changes' = changes
  <2>. DEFINE vetoes == IF end[d][l].fresh THEN {} ELSE vetoed[d]
  <2>1. vetoes \in SUBSET Name /\ Overridden(vetoes, task[d]) \in SUBSET Name
    BY DEF TypeOK, Overridden
  <2>2. /\ \/ vetoed' = [vetoed EXCEPT ![d] = vetoes]
           \/ vetoed' = [vetoed EXCEPT ![d] = Overridden(vetoes, task[d])]
        /\ changes' = changes
    BY DEF handleCatalog
  <2>. HIDE DEF vetoes
  <2>. QED BY <2>1, <2>2 DEF TypeOK
<1>. HIDE DEF record
<1>5. ASSUME NEW final, NEW r, CatalogDone(d, l, record, final, r) PROVE TypeOK'
  <2>1. PICK t : Finished(d, l, own, record, t, final, r) /\ UNCHANGED <<registry, task>>
    BY <1>3, <1>5 DEF CatalogDone
  <2>2. /\ end' \in EndType /\ chan' \in ChanType
        /\ store' \in [Device -> PeerRecord] /\ entry' \in [Device -> Link \cup {NoLink}]
    BY <2>1, FinishTypes
  <2>. QED BY <1>4, <2>1, <2>2 DEF TypeOK, EndType, ChanType
<1>6. ASSUME NEW t, NEW r, CatalogAwaits(d, l, record, t, r) PROVE TypeOK'
  <2>1. /\ t \in Task
        /\ registry' \in [Device -> SUBSET Entry]
        /\ task' = [task EXCEPT ![d] = task[d] \cup {t}]
        /\ store' = [store EXCEPT ![d] = record]
        /\ r \in EndState
        /\ Sending(d, l, r, own, <<>>)
        /\ entry' = entry
    BY <1>3, <1>6 DEF CatalogAwaits
  <2>2. end' \in EndType /\ chan' \in ChanType
    <3>1. <<>> \in Seq(Control)
      OBVIOUS
    <3>. QED BY <2>1, <3>1, SendingFacts
  <2>3. store' \in [Device -> PeerRecord] /\ task' \in [Device -> SUBSET Task]
    BY <1>1, <2>1 DEF TypeOK
  <2>. QED BY <1>4, <2>1, <2>2, <2>3 DEF TypeOK, EndType, ChanType
<1>. QED BY <1>1, <1>5, <1>6

-----------------------------------------------------------------------------
(* A call that awaited the registry goes on.                               *)

(* A call that awaited the registry: it ends, or awaits it again.           *)
Ends(d, t, record, final, r) ==
  /\ Finished(d, t.link, chan[d][t.link], record, t, final, r)
  /\ task' = [task EXCEPT ![d] = task[d] \ {t}]
  /\ registry' = registry
AwaitsAgain(d, t, record, u) ==
  /\ u \in Task /\ u.link = t.link /\ u.links = t.links
  /\ registry' \in [Device -> SUBSET Entry] /\ \A x \in Device : x # d => registry'[x] = registry[x]
  /\ task' = [task EXCEPT ![d] = (task[d] \ {t}) \cup {u}]
  /\ store' = [store EXCEPT ![d] = record]
  /\ UNCHANGED <<entry, end, chan>>

(* The fields of a call that awaits.                                       *)
LEMMA TaskFields ==
  ASSUME TypeOK, NEW d \in Device, NEW t \in task[d]
  PROVE  /\ t \in Task /\ t.link \in Link /\ t.links \in SUBSET AutoLink /\ t.now \in AutoLink
         /\ t.left \in SUBSET AutoLink /\ t.local \in SUBSET Entry /\ t.remote \in SUBSET Entry
<1>1. t \in Task
  BY Typed
<1>. QED BY <1>1 DEF Task

(* A call that goes on ends or awaits again.                               *)
LEMMA GoesOnCases ==
  ASSUME TypeOK, NEW d \in Device, NEW t \in task[d], NEW record \in PeerRecord, NEW vetoes,
         GoesOn(d, t, record, vetoes)
  PROVE  \/ \E final, r : Ends(d, t, record, final, r)
         \/ \E u : AwaitsAgain(d, t, record, u)
<1>. DEFINE left == {k \in t.left : CanRelink(d, k)}
            l == t.link
            tu(k) == [t EXCEPT !.now = k, !.left = left \ {k}]
<1>1. /\ t \in Task /\ t.link \in Link /\ t.links \in SUBSET AutoLink /\ t.left \in SUBSET AutoLink
      /\ t.local \in SUBSET Entry /\ t.remote \in SUBSET Entry
  BY TaskFields
<1>2. \/ /\ FinishCatalog(d, t.link, chan, record, t)
         /\ task' = [task EXCEPT ![d] = task[d] \ {t}]
         /\ registry' = registry
      \/ /\ \E k \in left :
             /\ relinkProfile(d, k)
             /\ task' = [task EXCEPT ![d] = (task[d] \ {t}) \cup {tu(k)}]
         /\ store' = [store EXCEPT ![d] = record]
         /\ UNCHANGED <<entry, end, chan>>
  BY DEF GoesOn
<1>3. left \in SUBSET AutoLink
  BY <1>1
<1>. HIDE DEF left
<1>4. CASE /\ FinishCatalog(d, t.link, chan, record, t)
           /\ task' = [task EXCEPT ![d] = task[d] \ {t}]
           /\ registry' = registry
  <2>1. chan = [chan EXCEPT ![d][l] = chan[d][l]]
    BY <1>1, Unread
  <2>2. \E final, r : Finished(d, l, chan[d][l], record, t, final, r)
    <3>1. PICK own, channels : own = chan[d][l] /\ channels = chan
      OBVIOUS
    <3>2. channels = [chan EXCEPT ![d][l] = own]
      BY <2>1, <3>1
    <3>3. FinishCatalog(d, l, channels, record, t) /\ l \in Link
      BY <1>1, <1>4, <3>1
    <3>. HIDE DEF l
    <3>4. \E final, r : Finished(d, l, own, record, t, final, r)
      BY <1>1, <3>2, <3>3, Finishes
    <3>. QED BY <3>1, <3>4
  <2>. QED BY <1>4, <2>2 DEF Ends
<1>5. CASE /\ \E k \in left :
               /\ relinkProfile(d, k)
               /\ task' = [task EXCEPT ![d] = (task[d] \ {t}) \cup {tu(k)}]
           /\ store' = [store EXCEPT ![d] = record]
           /\ UNCHANGED <<entry, end, chan>>
  <2>1. PICK k \in left : /\ relinkProfile(d, k)
                          /\ task' = [task EXCEPT ![d] = (task[d] \ {t}) \cup {tu(k)}]
    BY <1>5
  <2>2. k \in AutoLink
    BY <1>3
  <2>3. tu(k) \in Task /\ tu(k).link = t.link /\ tu(k).links = t.links
    BY <1>1, <1>3, <2>2 DEF Task
  <2>4. registry' \in [Device -> SUBSET Entry] /\ \A x \in Device : x # d => registry'[x] = registry[x]
    BY <2>1, <2>2, RelinkFacts
  <2>5. PICK u : u = tu(k)
    OBVIOUS
  <2>. HIDE DEF tu
  <2>6. AwaitsAgain(d, t, record, u)
    BY <1>5, <2>1, <2>3, <2>4, <2>5 DEF AwaitsAgain
  <2>. QED BY <2>6
<1>. QED BY <1>2, <1>4, <1>5

(* It keeps the types.                                                     *)
LEMMA GoesOnTypes ==
  ASSUME TypeOK, NEW d \in Device, NEW t \in task[d], NEW record \in PeerRecord,
         NEW vetoes \in SUBSET Name, GoesOn(d, t, record, vetoes), changes' = changes
  PROVE  TypeOK'
<1>0. vetoed' \in [Device -> SUBSET Name]
  <2>1. \A others : Overridden(vetoes, others) \in SUBSET Name
    BY DEF Overridden
  <2>2. \E v \in SUBSET Name : vetoed' = [vetoed EXCEPT ![d] = v]
    BY <2>1 DEF GoesOn
  <2>. QED BY <2>2 DEF TypeOK
<1>1. t.link \in Link
  BY TaskFields
<1>2. PICK own \in Seq(Control) : own = chan[d][t.link]
  BY <1>1, Typed
<1>3. ASSUME NEW final, NEW r, Ends(d, t, record, final, r) PROVE TypeOK'
  <2>1. /\ Finished(d, t.link, own, record, t, final, r)
        /\ task' = [task EXCEPT ![d] = task[d] \ {t}]
        /\ registry' = registry
    BY <1>2, <1>3 DEF Ends
  <2>2. /\ end' \in EndType /\ chan' \in ChanType
        /\ store' \in [Device -> PeerRecord] /\ entry' \in [Device -> Link \cup {NoLink}]
    BY <1>1, <2>1, FinishTypes
  <2>3. task' \in [Device -> SUBSET Task]
    BY <2>1 DEF TypeOK
  <2>. QED BY <1>0, <2>1, <2>2, <2>3 DEF TypeOK, EndType, ChanType
<1>4. ASSUME NEW u, AwaitsAgain(d, t, record, u) PROVE TypeOK'
  <2>1. store' \in [Device -> PeerRecord] /\ task' \in [Device -> SUBSET Task]
    BY <1>4 DEF TypeOK, AwaitsAgain
  <2>. QED BY <1>0, <1>4, <2>1 DEF TypeOK, AwaitsAgain
<1>. QED BY <1>3, <1>4, GoesOnCases

(* It keeps the rules.                                                     *)
LEMMA GoesOnKeeps ==
  ASSUME Inv, NEW d \in Device, NEW t \in task[d], NEW record \in PeerRecord,
         record.known = store[d].known, NEW vetoes, GoesOn(d, t, record, vetoes)
  PROVE  Rules'
<1>0. TypeOK
  BY DEF Inv
<1>1. PICK l \in Link : l = t.link
  BY <1>0, TaskFields
<1>. DEFINE o == Other(d)
            e == end[d][l]
<1>2. Only(l) /\ e.state # "new" /\ ~e.fresh /\ Adoptions(t.links) # {}
  BY <1>1 DEF Inv, TasksHere, Only
<1>3. EndOK(d, l) /\ o \in Device /\ o # d /\ Other(o) = d /\ (\A x \in Device : x = d \/ x = o)
      /\ e \in EndState
  BY <1>0, OtherFacts, Typed DEF Inv
<1>4. Open(d, l) => e.ready
  BY <1>2, <1>3 DEF EndOK, Open
<1>5. ASSUME NEW final, NEW r, Ends(d, t, record, final, r) PROVE Rules'
  <2>1. PICK own \in Seq(Control) : own = chan[d][l]
    BY <1>0, Typed
  <2>2. /\ Finished(d, l, own, record, t, final, r)
        /\ task' = [task EXCEPT ![d] = task[d] \ {t}]
        /\ registry' = registry
    BY <1>1, <1>5, <2>1 DEF Ends
  <2>3. TasksFrom(d, l) /\ \A x \in Device : x # d => task'[x] = task[x]
    BY <1>0, <2>2 DEF TasksFrom, TypeOK
  <2>4. PICK m \in Seq(Control) : Leaves(d, l, own, final, r, t, m)
    BY <1>0, <2>2, FinishLeaves
  <2>5. ASSUME Both(l) PROVE Line(d, l)' /\ Heard(d, l)'
    <3>1. Line(d, l) /\ Open(d, l) /\ Open(o, l)
      BY <2>5, BothFacts
    <3>2. /\ end' \in EndType /\ end'[d][l] = r /\ chan'[d][l] = own
          /\ \A x \in Device, k \in Link : x # d \/ k # l => end'[x][k] = end[x][k]
          /\ chan'[o][l] = chan[o][l] \o m
          /\ Has(m, "profile-catalog")
      BY <1>2, <2>4, <3>1 DEF Leaves
    <3>3. r.remote = e.remote /\ ~r.fresh
      BY <2>2 DEF Finished
    <3>4. SeenAlike(d, l)
      BY <1>3, <3>2, <3>3 DEF SeenAlike
    <3>5. Line(d, l)'
      BY <1>0, <2>1, <3>1, <3>2, <3>4, LineSame
    <3>6. Has(chan'[o][l], "profile-catalog")
      <4>1. chan[o][l] \in Seq(Control)
        BY <1>0, <1>3, Typed
      <4>. QED BY <3>2, <4>1, HasMore
    <3>. QED BY <3>5, <3>6 DEF Heard, Answers
  <2>. HIDE DEF e
  <2>6. end[d][l].state # "new" /\ (Open(d, l) => end[d][l].ready)
    BY <1>2, <1>4 DEF e
  <2>. QED BY <1>2, <2>2, <2>3, <2>5, <2>6, FinishKeeps
<1>6. ASSUME NEW u, AwaitsAgain(d, t, record, u) PROVE Rules'
  <2>1. /\ u.link = l /\ u.links = t.links /\ task'[d] = (task[d] \ {t}) \cup {u}
        /\ \A x \in Device : x # d => task'[x] = task[x] /\ store'[x] = store[x] /\ registry'[x] = registry[x]
        /\ store'[d] = record /\ entry' = entry /\ end' = end /\ chan' = chan
    BY <1>0, <1>1, <1>6 DEF AwaitsAgain, TypeOK
  <2>2. task'[d] # {}
    BY <2>1
  <2>3. Here(d, l)
    BY <1>2, <1>3, <2>1 DEF Here, OthersSame
  <2>4. TasksFrom(d, l)
    BY <1>2, <2>1 DEF TasksFrom
  <2>5. EndOK(d, l)'
    BY <1>2, <1>3, <2>1, <2>2 DEF EndOK
  <2>6. ASSUME Both(l) PROVE \A x \in Device : Line(x, l)' /\ Clean(x, l)' /\ Heard(x, l)'
    <3>1. /\ Line(d, l) /\ Line(o, l) /\ Clean(d, l) /\ Clean(o, l)
      BY <2>6, BothFacts
    <3>2. Line(d, l)' /\ Line(o, l)' /\ Clean(d, l)' /\ Clean(o, l)'
      BY <2>1, <3>1 DEF Line, Clean
    <3>3. Heard(d, l)' /\ Heard(o, l)'
      BY <1>3, <2>2 DEF Heard, Answers
    <3>. QED BY <1>3, <3>2, <3>3
  <2>7. entry'[d] \in {entry[d], l, NoLink}
    BY <2>1
  <2>. HIDE DEF e
  <2>8. end[d][l].state # "new"
    BY <1>2 DEF e
  <2>. QED BY <1>2, <2>3, <2>4, <2>5, <2>6, <2>7, <2>8, Frame
<1>. QED BY <1>0, <1>5, <1>6, GoesOnCases

(* Whether the registry was written or not, the call goes on with a record *)
(* of the peer.                                                            *)
LEMMA RelinkIsGoesOn ==
  ASSUME TypeOK, NEW d \in Device, NEW t \in task[d], relinkDone(d, t) \/ relinkFails(d, t)
  PROVE  \E record \in PeerRecord, vetoes \in SUBSET Name :
           record.known = store[d].known /\ GoesOn(d, t, record, vetoes) /\ changes' = changes
<1>1. t.now \in AutoLink /\ store[d] \in PeerRecord /\ vetoed[d] \in SUBSET Name
  BY TaskFields, Typed
<1>2. t.now.from \in Id /\ t.now.to \in Id
  BY <1>1 DEF AutoLink
<1>3. CASE relinkDone(d, t)
  <2>1. /\ remapPeerConsent(store[d], t.now.from, t.now.to) \in PeerRecord
        /\ remapPeerConsent(store[d], t.now.from, t.now.to).known = store[d].known
    BY <1>1, <1>2, RemapTyped
  <2>. QED BY <1>1, <1>3, <2>1 DEF relinkDone
<1>4. CASE relinkFails(d, t)
  <2>1. GoesOn(d, t, store[d], vetoed[d] \ {t.now.name}) /\ changes' = changes
    BY <1>4 DEF relinkFails
  <2>2. vetoed[d] \ {t.now.name} \in SUBSET Name
    BY <1>1
  <2>. QED BY <1>1, <2>1, <2>2
<1>. QED BY <1>3, <1>4

-----------------------------------------------------------------------------
(* A device changes what it keeps and tells the other one.                 *)

(* A device changes what it keeps and tells the other one; its ends stay in *)
(* their state.                                                             *)
Told(d, l, m) ==
  /\ chan'[Other(d)][l] = chan[Other(d)][l] \o m
  /\ \A k \in DOMAIN m : m[k].op \in {"profile-catalog", "profile-consent"}
  /\ m # <<>> => end[d][l].ready
Speaks(d) ==
  /\ end' \in EndType /\ UNCHANGED <<entry, task>>
  /\ \A x \in Device : x # d => end'[x] = end[x] /\ registry'[x] = registry[x] /\ store'[x] = store[x]
  /\ store'[d].known = store[d].known /\ store'[d].remote = store[d].remote
  /\ \A l \in Link :
       /\ chan'[d][l] = chan[d][l]
       /\ Consenting(d, l, end'[d][l]) /\ end'[d][l].pending = end[d][l].pending
       /\ end[d][l].state = "new" => end'[d][l] = end[d][l]
       /\ ~Open(Other(d), l) => chan'[Other(d)][l] = chan[Other(d)][l]
       /\ Open(d, l) /\ end[d][l].keyed /\ task[d] = {} =>
            end'[d][l].attached = applyConsent(store'[d], registry'[d])
       /\ \E m \in Seq(Control) : Told(d, l, m)
       /\ Both(l) => Heard(Other(d), l)'

(* Whatever a device changes and tells, the rules stay if it tells its     *)
(* consent.                                                                *)
LEMMA SpeaksKeeps ==
  ASSUME Inv, NEW d \in Device, Speaks(d)
  PROVE  Rules'
<1>0. TypeOK
  BY DEF Inv
<1>. DEFINE o == Other(d)
<1>1. o \in Device /\ o # d /\ Other(o) = d /\ \A x \in Device : x = d \/ x = o
  BY OtherFacts
<1>2. /\ end' \in EndType /\ UNCHANGED <<entry, task>>
      /\ end'[o] = end[o] /\ registry'[o] = registry[o] /\ store'[o] = store[o]
      /\ store'[d].known = store[d].known /\ store'[d].remote = store[d].remote
  BY <1>1 DEF Speaks
<1>3. ASSUME NEW l \in Link
      PROVE  /\ end'[d][l].state = end[d][l].state /\ end'[d][l].local = end[d][l].local
             /\ end'[d][l].remote = end[d][l].remote /\ end'[d][l].ready = end[d][l].ready
             /\ end'[d][l].fresh = end[d][l].fresh /\ end'[d][l].keyed = end[d][l].keyed
             /\ end'[d][l].pending = end[d][l].pending
             /\ end[d][l].state = "new" => end'[d][l] = end[d][l]
             /\ chan'[d][l] = chan[d][l]
  BY DEF Speaks, Consenting
<1>4. ASSUME NEW x \in Device, NEW l \in Link
      PROVE  /\ end'[x][l].state = end[x][l].state /\ end'[x][l].fresh = end[x][l].fresh
             /\ Open(x, l)' <=> Open(x, l)
  <2>1. CASE x = d
    BY <1>3, <2>1 DEF Open
  <2>2. CASE x = o
    BY <1>2, <2>2 DEF Open
  <2>. QED BY <1>1, <2>1, <2>2
<1>5. OneOpen'
  BY <1>4 DEF OneOpen, Inv
<1>6. TasksHere'
  <2>. SUFFICES ASSUME NEW x \in Device, NEW t \in task'[x]
                PROVE  /\ Adoptions(t.links) # {}
                       /\ end'[x][t.link].state # "new" /\ ~end'[x][t.link].fresh
                       /\ \A y \in Device, k \in Link : Open(y, k)' => t.link = k
    BY DEF TasksHere, Open
  <2>1. t \in task[x] /\ t.link \in Link
    BY <1>0, <1>2, Typed DEF Task
  <2>. QED BY <1>4, <2>1 DEF Inv, TasksHere
<1>7. EntriesOK'
  BY <1>0, <1>2, <1>4, Typed DEF EntriesOK, Inv
<1>8. EndsOK'
  <2>. SUFFICES ASSUME NEW x \in Device, NEW k \in Link PROVE EndOK(x, k)'
    BY DEF EndsOK
  <2>1. EndOK(x, k)
    BY DEF Inv
  <2>2. CASE x = o
    <3>1. Open(x, k) \/ chan'[x][k] = chan[x][k]
      BY <2>2 DEF Speaks
    <3>. QED BY <1>2, <2>1, <2>2, <3>1, EndKept
  <2>3. CASE x = d
    <3>1. Open(d, k) /\ end[d][k].keyed /\ task[d] = {} =>
            end'[d][k].attached = applyConsent(store'[d], registry'[d])
      BY DEF Speaks
    <3>. DEFINE e == end[d][k]
                f == end'[d][k]
    <3>2. /\ f.state = e.state /\ f.local = e.local /\ f.remote = e.remote /\ f.ready = e.ready
          /\ f.fresh = e.fresh /\ f.keyed = e.keyed /\ f.pending = e.pending
          /\ e.state = "new" => f = e
      BY <1>3
    <3>3. e.state = "open" /\ e.keyed /\ task[d] = {} => f.attached = applyConsent(store'[d], registry'[d])
      BY <3>1 DEF Open
    <3>4. chan'[d][k] = chan[d][k]
      BY <1>3
    <3>5. /\ e.state = "new" => e = NewEnd /\ chan[d][k] = <<>>
          /\ e.ready <=> e.state = "open" /\ e.local /\ e.remote
          /\ e.state = "open" =>
               /\ ~e.ready => e.fresh
               /\ e.fresh => ~e.keyed
               /\ ~e.fresh /\ ~e.keyed => task[d] # {}
               /\ e.keyed => entry[d] = k /\ store[d].known /\ e.pending = {}
      BY <2>1, <2>3 DEF EndOK
    <3>6. /\ f.state = "new" => f = NewEnd /\ chan'[d][k] = <<>>
          /\ f.ready <=> f.state = "open" /\ f.local /\ f.remote
          /\ f.state = "open" =>
               /\ ~f.ready => f.fresh
               /\ f.fresh => ~f.keyed
               /\ ~f.fresh /\ ~f.keyed => task'[d] # {}
               /\ f.keyed => entry'[d] = k /\ store'[d].known /\ f.pending = {}
               /\ f.keyed /\ task'[d] = {} => f.attached = applyConsent(store'[d], registry'[d])
      <4>. HIDE DEF e, f
      <4>. QED BY <1>2, <3>2, <3>3, <3>4, <3>5
    <3>7. EndOK(d, k)'
      BY <3>6 DEF EndOK
    <3>. QED BY <2>3, <3>7
  <2>. QED BY <1>1, <2>2, <2>3
<1>9. LinesOK'
  <2>. SUFFICES ASSUME NEW l \in Link, Both(l)' PROVE \A x \in Device : Line(x, l)' /\ Clean(x, l)' /\ Heard(x, l)'
    BY DEF LinesOK
  <2>1. Both(l)
    BY <1>4 DEF Both
  <2>2. /\ Line(d, l) /\ Line(o, l) /\ Clean(d, l) /\ Clean(o, l) /\ EndOK(d, l)
        /\ Heard(d, l) /\ Heard(o, l)
    BY <2>1, BothFacts
  <2>3. PICK m \in Seq(Control) : Told(d, l, m)
    BY DEF Speaks
  <2>4. /\ chan'[o][l] = chan[o][l] \o m /\ (m # <<>> => end[d][l].ready)
        /\ \A k \in DOMAIN m : m[k].op \in {"profile-catalog", "profile-consent"}
    BY <2>3 DEF Told
  <2>5. SeenAlike(d, l) /\ SeenAlike(o, l)
    BY <1>1, <1>2, <1>3 DEF SeenAlike
  <2>6. Line(d, l)'
    BY <1>0, <1>2, <1>3, <2>2, <2>5, LineSame
  <2>7. Line(o, l)'
    <3>1. CASE m = <<>>
      <4>1. chan[o][l] \in Seq(Control)
        BY <1>0, <1>1, Typed
      <4>2. chan'[o][l] = chan[o][l]
        BY <2>4, <3>1, <4>1, ConcatEmptySeq
      <4>. QED BY <1>0, <1>1, <1>2, <2>2, <2>5, <4>2, LineSame
    <3>2. CASE m # <<>>
      <4>1. end[Other(o)][l].ready /\ end[Other(o)][l].local
        BY <1>1, <2>2, <2>4, <3>2 DEF EndOK
      <4>. QED BY <1>0, <1>1, <1>2, <2>2, <2>4, <2>5, <4>1, LineGrows
    <3>. QED BY <3>1, <3>2
  <2>8. Clean(d, l)' /\ Clean(o, l)'
    BY <1>2, <1>3, <2>2 DEF Clean
  <2>9. Heard(d, l)'
    <3>1. Has(chan[o][l], "profile-catalog") => Has(chan'[o][l], "profile-catalog")
      BY <1>0, <1>1, <2>4, Typed, HasMore
    <3>2. Answers(d, l) => Answers(d, l)'
      BY <1>2, <1>3, <3>1, AnswersStay
    <3>. QED BY <1>2, <1>3, <2>2, <3>2 DEF Heard
  <2>10. Heard(o, l)'
    BY <2>1 DEF Speaks
  <2>. QED BY <1>1, <2>6, <2>7, <2>8, <2>9, <2>10
<1>. QED BY <1>5, <1>6, <1>7, <1>8, <1>9 DEF Rules

-----------------------------------------------------------------------------
(* What a user decides goes to the session under the id of the peer.       *)

(* What a decision of the user makes of the session under the peer's id.    *)
Decided(d, l, r, record) ==
  /\ entry[d] = l /\ Consenting(d, l, r) /\ r.pending = end[d][l].pending
  /\ r.attached = applyConsent(record, registry[d])
  /\ end' = [end EXCEPT ![d][l] = r]
  /\ chan' \in ChanType
  /\ chan'[Other(d)][l] = IF end[d][l].ready /\ Open(d, l) /\ Open(Other(d), l)
                          THEN chan[Other(d)][l] \o <<ConsentMsg(record.local)>>
                          ELSE chan[Other(d)][l]
  /\ \A x \in Device, k \in Link : x # Other(d) \/ k # l => chan'[x][k] = chan[x][k]

(* A decision reaches the session under the id of the peer, if there is    *)
(* one.                                                                    *)
LEMMA DecideCases ==
  ASSUME TypeOK, NEW d \in Device, NEW record \in PeerRecord, Decide(d, record)
  PROVE  /\ store' = [store EXCEPT ![d] = record]
         /\ \/ entry[d] = NoLink /\ end' = end /\ chan' = chan
            \/ \E l \in Link, r \in EndState : Decided(d, l, r, record)
<1>. DEFINE l == entry[d]
            att == applyConsent(record, registry[d])
            m == <<ConsentMsg(record.local)>>
            r == [end[d][l] EXCEPT !.consent = record.local, !.attached = att]
<1>1. store' = [store EXCEPT ![d] = record]
  BY DEF Decide
<1>2. CASE l = NoLink
  BY <1>1, <1>2 DEF Decide
<1>3. CASE l # NoLink
  <2>1. l \in Link /\ end[d][l] \in EndState /\ registry[d] \in SUBSET Entry /\ record.local \in ConsentMap
    BY <1>3, Typed DEF PeerRecord
  <2>2. /\ end' = [end EXCEPT ![d][l].consent = record.local, ![d][l].attached = att]
        /\ chan' = IF end[d][l].ready THEN Sent(chan, d, l, m) ELSE chan
    BY <1>3 DEF Decide
  <2>3. att \in SUBSET Id /\ att = applyConsent(record, registry[d])
    BY <2>1, AttachedTyped
  <2>4. m \in Seq(Control)
    BY <2>1, ControlFacts
  <2>. HIDE DEF att
  <2>5. Consenting(d, l, r) /\ r.pending = end[d][l].pending /\ r.attached = att
    BY <2>1, <2>3 DEF EndState, Consenting
  <2>6. end' = [end EXCEPT ![d][l] = r]
    BY <2>1, <2>2, Typed DEF EndType
  <2>. HIDE DEF r, m, l
  <2>7. /\ chan' \in ChanType
        /\ chan'[Other(d)][l] = IF end[d][l].ready /\ Open(d, l) /\ Open(Other(d), l)
                                THEN chan[Other(d)][l] \o m ELSE chan[Other(d)][l]
        /\ \A x \in Device, k \in Link : x # Other(d) \/ k # l => chan'[x][k] = chan[x][k]
    <3>1. chan \in ChanType
      BY Typed
    <3>2. CASE end[d][l].ready
      BY <2>1, <2>2, <2>4, <3>1, <3>2, SentFacts
    <3>3. CASE ~end[d][l].ready
      BY <2>2, <3>1, <3>3
    <3>. QED BY <3>2, <3>3
  <2>8. Decided(d, l, r, record)
    BY <2>3, <2>5, <2>6, <2>7 DEF Decided, l, m
  <2>9. r \in EndState
    BY <2>5 DEF Consenting
  <2>. QED BY <1>1, <2>1, <2>8, <2>9
<1>. QED BY <1>2, <1>3

(* A decision keeps the types.                                             *)
LEMMA DecideTypes ==
  ASSUME TypeOK, NEW d \in Device, NEW record \in PeerRecord, Decide(d, record)
  PROVE  end' \in EndType /\ chan' \in ChanType /\ store' \in [Device -> PeerRecord]
<1>1. store' \in [Device -> PeerRecord]
  BY DecideCases DEF TypeOK
<1>2. CASE end' = end /\ chan' = chan
  BY <1>1, <1>2, Typed
<1>3. ASSUME NEW l \in Link, NEW r \in EndState, Decided(d, l, r, record)
      PROVE  end' \in EndType /\ chan' \in ChanType
  BY <1>3, Typed DEF Decided, EndType
<1>. QED BY <1>1, <1>2, <1>3, DecideCases

(* A decision keeps the rules: the other device will get the new consent.  *)
LEMMA DecideKeeps ==
  ASSUME Inv, NEW d \in Device, NEW record \in PeerRecord, Decide(d, record),
         record.known = store[d].known, record.remote = store[d].remote, UNCHANGED <<registry, entry, task>>
  PROVE  Rules'
<1>0. TypeOK
  BY DEF Inv
<1>. DEFINE o == Other(d)
<1>1. o \in Device /\ o # d /\ Other(o) = d /\ \A x \in Device : x = d \/ x = o
  BY OtherFacts
<1>2. /\ end' \in EndType
      /\ store'[d] = record /\ \A x \in Device : x # d => store'[x] = store[x]
  BY <1>0, DecideTypes, DecideCases DEF TypeOK
<1>3. CASE entry[d] = NoLink /\ end' = end /\ chan' = chan
  <2>1. ASSUME NEW l \in Link
        PROVE  /\ Consenting(d, l, end'[d][l])
               /\ Open(d, l) /\ end[d][l].keyed => FALSE
               /\ Told(d, l, <<>>)
               /\ Both(l) => Heard(o, l)'
    <3>1. Consenting(d, l, end'[d][l])
      BY <1>0, <1>3, Typed DEF Consenting
    <3>2. ~(Open(d, l) /\ end[d][l].keyed)
      BY <1>3, LinksAreNumbered DEF Inv, EndOK, Open, NoLink
    <3>3. Told(d, l, <<>>)
      <4>1. chan[o][l] \in Seq(Control)
        BY <1>0, <1>1, Typed
      <4>2. chan[o][l] \o <<>> = chan[o][l]
        BY <4>1, ConcatEmptySeq
      <4>. QED BY <1>3, <4>2 DEF Told
    <3>4. ASSUME Both(l) PROVE Heard(o, l)'
      <4>1. ~end[d][l].keyed
        BY <3>2, <3>4, BothFacts
      <4>2. Answers(o, l)
        BY <3>4, <4>1, UnkeyedAnswers
      <4>. QED BY <1>1, <1>3, <4>2 DEF Heard, Answers
    <3>. QED BY <3>1, <3>2, <3>3, <3>4
  <2>2. ASSUME NEW l \in Link PROVE \E m \in Seq(Control) : Told(d, l, m)
    <3>1. <<>> \in Seq(Control) /\ Told(d, l, <<>>)
      BY <2>1
    <3>. QED BY <3>1, Zenon
  <2>3. Speaks(d)
    BY <1>2, <1>3, <2>1, <2>2 DEF Speaks
  <2>. QED BY <2>3, SpeaksKeeps
<1>4. ASSUME NEW c \in Link, NEW r \in EndState, Decided(d, c, r, record) PROVE Rules'
  <2>1. /\ entry[d] = c /\ Consenting(d, c, r) /\ r.pending = end[d][c].pending
        /\ r.attached = applyConsent(record, registry[d])
        /\ end' = [end EXCEPT ![d][c] = r]
        /\ chan' \in ChanType
        /\ chan'[o][c] = IF end[d][c].ready /\ Open(d, c) /\ Open(o, c)
                                THEN chan[o][c] \o <<ConsentMsg(record.local)>>
                                ELSE chan[o][c]
        /\ \A x \in Device, k \in Link : x # o \/ k # c => chan'[x][k] = chan[x][k]
    BY <1>4 DEF Decided
  <2>2. /\ end'[d][c] = r /\ end'[o] = end[o]
        /\ \A k \in Link : k # c => end'[d][k] = end[d][k]
    BY <1>0, <1>1, <2>1, Typed DEF EndType
  <2>3. ConsentMsg(record.local) \in Control /\ ConsentMsg(record.local).op = "profile-consent"
    BY ControlFacts DEF PeerRecord
  <2>4. end[d][c].state # "new"
    <3>1. c # NoLink
      BY LinksAreNumbered DEF NoLink
    <3>. QED BY <2>1, <3>1 DEF Inv, EntriesOK
  <2>5. ASSUME NEW l \in Link
        PROVE  /\ chan'[d][l] = chan[d][l]
               /\ Consenting(d, l, end'[d][l]) /\ end'[d][l].pending = end[d][l].pending
               /\ end[d][l].state = "new" => end'[d][l] = end[d][l]
               /\ ~Open(o, l) => chan'[o][l] = chan[o][l]
               /\ Open(d, l) /\ end[d][l].keyed /\ task[d] = {} =>
                    end'[d][l].attached = applyConsent(store'[d], registry'[d])
    <3>1. Open(d, l) /\ end[d][l].keyed => l = c
      BY <2>1 DEF Inv, EndOK, Open
    <3>2. CASE l = c
      BY <1>1, <1>2, <2>1, <2>2, <2>4, <3>2
    <3>3. CASE l # c
      <4>1. end'[d][l] = end[d][l]
        BY <2>2, <3>3
      <4>2. Consenting(d, l, end'[d][l])
        BY <1>0, <4>1, Typed DEF Consenting
      <4>. QED BY <1>1, <2>1, <3>1, <3>3, <4>1, <4>2
    <3>. QED BY <3>2, <3>3
  <2>6. ASSUME NEW l \in Link PROVE \E m \in Seq(Control) : Told(d, l, m)
    <3>1. CASE l = c /\ end[d][c].ready /\ Open(d, c) /\ Open(o, c)
      <4>. DEFINE m == <<ConsentMsg(record.local)>>
      <4>1. m \in Seq(Control) /\ \A k \in DOMAIN m : m[k].op \in {"profile-catalog", "profile-consent"}
        BY <2>3
      <4>2. chan'[o][l] = chan[o][l] \o m
        BY <2>1, <3>1
      <4>. HIDE DEF m
      <4>. QED BY <3>1, <4>1, <4>2 DEF Told
    <3>2. CASE ~(l = c /\ end[d][c].ready /\ Open(d, c) /\ Open(o, c))
      <4>1. chan[o][l] \in Seq(Control)
        BY <1>0, <1>1, Typed
      <4>2. chan'[o][l] = chan[o][l] \o <<>>
        BY <1>1, <2>1, <3>2, <4>1, ConcatEmptySeq
      <4>3. <<>> \in Seq(Control) /\ Told(d, l, <<>>)
        BY <4>2 DEF Told
      <4>. QED BY <4>3, Zenon
    <3>. QED BY <3>1, <3>2
  <2>7. ASSUME NEW l \in Link, Both(l) PROVE Heard(o, l)'
    <3>1. Open(d, l) /\ Open(o, l) /\ EndOK(d, l)
      BY <2>7, BothFacts
    <3>2. chan'[d][l] = chan[d][l] /\ end'[d][l].ready = end[d][l].ready
      BY <2>5 DEF Consenting
    <3>3. Answers(o, l) => Answers(o, l)'
      BY <1>1, <2>2, <3>2 DEF Answers
    <3>4. CASE ~end[d][l].keyed
      BY <2>7, <3>3, <3>4, UnkeyedAnswers DEF Heard
    <3>5. CASE ~end[d][l].ready
      BY <1>1, <3>2, <3>5 DEF Heard, Answers
    <3>6. CASE end[d][l].keyed /\ end[d][l].ready
      <4>1. l = c
        BY <2>1, <3>1, <3>6 DEF EndOK, Open
      <4>. DEFINE m == <<ConsentMsg(record.local)>>
                  q == chan[o][l]
                  given == record.local
      <4>2. m \in Seq(Control) /\ m # <<>> /\ m[Len(m)] = ConsentMsg(given) /\ q \in Seq(Control)
        BY <1>0, <1>1, <2>3, Typed
      <4>3. chan'[o][l] = q \o m /\ given = store'[d].local
        BY <1>2, <2>1, <3>1, <3>6, <4>1
      <4>. HIDE DEF m, q, given
      <4>4. OnItsWay(q \o m, given)
        BY <4>2, OnLast
      <4>. QED BY <1>1, <4>3, <4>4 DEF Heard
    <3>. QED BY <3>4, <3>5, <3>6
  <2>8. Speaks(d)
    BY <1>1, <1>2, <2>2, <2>5, <2>6, <2>7 DEF Speaks
  <2>. QED BY <2>8, SpeaksKeeps
<1>. QED BY <1>0, <1>3, <1>4, DecideCases

-----------------------------------------------------------------------------
(* The users allow, turn off, unlink and create profiles.                  *)

LEMMA KnownAsTyped ==
  ASSUME TypeOK, NEW d \in Device
  PROVE  /\ KnownAs(d) \in SUBSET Entry /\ Ids(KnownAs(d)) \in SUBSET Id
         /\ \A i : NamesOf(KnownAs(d), i) \in SUBSET Name /\ TurnedOff(d, i) \in SUBSET Name
<1>1. registry[d] \in SUBSET Entry /\ KnownAs(d) \in SUBSET Entry
  BY Typed DEF KnownAs, PeerRecord
<1>2. ASSUME NEW c \in SUBSET Entry, NEW i PROVE NamesOf(c, i) \in SUBSET Name
  BY EntryFields DEF NamesOf
<1>3. \A i : TurnedOff(d, i) \in SUBSET Name
  BY <1>1, <1>2 DEF TurnedOff
<1>. QED BY <1>1, <1>2, <1>3, IdsTyped

(* What a user decides of a profile is a record of the same peer.           *)
LEMMA DecisionTyped ==
  ASSUME TypeOK, NEW d \in Device, NEW i \in Id, NEW c \in {"yes", "no"}
  PROVE  LET one == [store[d] EXCEPT !.local[i] = c]
             two == [store[d] EXCEPT !.local[i] = "no", !.unlinkedIds = @ \cup {i}]
         IN /\ one \in PeerRecord /\ one.known = store[d].known /\ one.remote = store[d].remote
            /\ two \in PeerRecord /\ two.known = store[d].known /\ two.remote = store[d].remote
<1>. DEFINE s == store[d]
            map == [s.local EXCEPT ![i] = c]
            off == [s.local EXCEPT ![i] = "no"]
            gone == s.unlinkedIds \cup {i}
<1>1. s \in PeerRecord
  BY Typed
<1>2. map \in ConsentMap /\ off \in ConsentMap /\ gone \in SUBSET Id
  BY <1>1 DEF PeerRecord, ConsentMap, Consent
<1>. HIDE DEF s, map, off, gone
<1>3. /\ [s EXCEPT !.local = map] \in PeerRecord
      /\ [s EXCEPT !.local = map].known = s.known /\ [s EXCEPT !.local = map].remote = s.remote
  BY <1>1, <1>2 DEF PeerRecord
<1>4. /\ [s EXCEPT !.local = off, !.unlinkedIds = gone] \in PeerRecord
      /\ [s EXCEPT !.local = off, !.unlinkedIds = gone].known = s.known
      /\ [s EXCEPT !.local = off, !.unlinkedIds = gone].remote = s.remote
  BY <1>1, <1>2 DEF PeerRecord
<1>. QED BY <1>3, <1>4 DEF s, map, off, gone

(* Allowing, turning off and unlinking are decisions.                      *)
LEMMA SetCases ==
  ASSUME TypeOK, NEW d \in Device, NEW i \in Ids(KnownAs(d)), NEW allow \in BOOLEAN,
         setProfileConsent(d, i, allow) \/ unlinkProfile(d, i)
  PROVE  /\ \E record \in PeerRecord :
              /\ record.known = store[d].known /\ record.remote = store[d].remote
              /\ Decide(d, record)
         /\ vetoed' \in [Device -> SUBSET Name] /\ UNCHANGED <<registry, entry, task>> /\ Acts
<1>1. i \in Id /\ NamesOf(KnownAs(d), i) \in SUBSET Name /\ TurnedOff(d, i) \in SUBSET Name
  BY KnownAsTyped
<1>2. CASE setProfileConsent(d, i, allow)
  <2>. DEFINE c == IF allow THEN "yes" ELSE "no"
              record == [store[d] EXCEPT !.local[i] = c]
  <2>1. c \in {"yes", "no"}
    OBVIOUS
  <2>2. /\ Decide(d, record) /\ UNCHANGED <<registry, entry, task>> /\ Acts
        /\ vetoed' = [vetoed EXCEPT ![d] = IF allow THEN vetoed[d] \ NamesOf(KnownAs(d), i)
                                                    ELSE vetoed[d] \cup TurnedOff(d, i)]
    BY <1>2 DEF setProfileConsent
  <2>. HIDE DEF c
  <2>3. record \in PeerRecord /\ record.known = store[d].known /\ record.remote = store[d].remote
    BY <1>1, <2>1, DecisionTyped
  <2>4. vetoed' \in [Device -> SUBSET Name]
    BY <1>1, <2>2 DEF TypeOK
  <2>. HIDE DEF record
  <2>. QED BY <2>2, <2>3, <2>4
<1>3. CASE unlinkProfile(d, i)
  <2>. DEFINE record == [store[d] EXCEPT !.local[i] = "no", !.unlinkedIds = @ \cup {i}]
  <2>2. /\ Decide(d, record) /\ UNCHANGED <<registry, entry, task>> /\ Acts
        /\ vetoed' = [vetoed EXCEPT ![d] = vetoed[d] \cup TurnedOff(d, i)]
    BY <1>3 DEF unlinkProfile
  <2>3. record \in PeerRecord /\ record.known = store[d].known /\ record.remote = store[d].remote
    BY <1>1, DecisionTyped
  <2>4. vetoed' \in [Device -> SUBSET Name]
    BY <1>1, <2>2 DEF TypeOK
  <2>. HIDE DEF record
  <2>. QED BY <2>2, <2>3, <2>4
<1>. QED BY <1>2, <1>3

(* They keep the types.                                                    *)
LEMMA SetTypes ==
  ASSUME TypeOK, MaxChanges \in Nat, NEW d \in Device, NEW i \in Ids(KnownAs(d)), NEW allow \in BOOLEAN,
         setProfileConsent(d, i, allow) \/ unlinkProfile(d, i)
  PROVE  TypeOK'
<1>1. PICK record \in PeerRecord : Decide(d, record)
  BY SetCases
<1>2. end' \in EndType /\ chan' \in ChanType /\ store' \in [Device -> PeerRecord]
  BY <1>1, DecideTypes
<1>3. vetoed' \in [Device -> SUBSET Name] /\ UNCHANGED <<registry, entry, task>> /\ Acts
  BY SetCases
<1>4. changes' \in 0 .. MaxChanges
  BY <1>3, ActsTyped
<1>. QED BY <1>2, <1>3, <1>4 DEF TypeOK, EndType, ChanType

(* They keep the rules.                                                    *)
LEMMA SetKeeps ==
  ASSUME Inv, NEW d \in Device, NEW i \in Ids(KnownAs(d)), NEW allow \in BOOLEAN,
         setProfileConsent(d, i, allow) \/ unlinkProfile(d, i)
  PROVE  Rules'
<1>0. TypeOK
  BY DEF Inv
<1>1. PICK record \in PeerRecord :
              /\ record.known = store[d].known /\ record.remote = store[d].remote
              /\ Decide(d, record)
  BY <1>0, SetCases
<1>2. UNCHANGED <<registry, entry, task>>
  BY <1>0, SetCases
<1>. QED BY <1>1, <1>2, DecideKeeps
-----------------------------------------------------------------------------
(* What a created profile makes of the ends and of the channels.            *)
Refreshed(d, e) ==
  /\ registry' = [registry EXCEPT ![d] = @ \cup {e}]
  /\ end' \in EndType /\ chan' \in ChanType
  /\ \A x \in Device : x # d => end'[x] = end[x]
  /\ \A l \in Link :
       /\ Consenting(d, l, end'[d][l]) /\ end'[d][l].pending = end[d][l].pending
       /\ l \notin Listed(d) => end'[d][l] = end[d][l]
       /\ l \in Listed(d) /\ end[d][l].keyed /\ store[d].known =>
            end'[d][l].attached = applyConsent(store[d], registry'[d])
       /\ chan'[d][l] = chan[d][l]
       /\ chan'[Other(d)][l] = chan[Other(d)][l] \o
            (IF l \in Listed(d) /\ end[d][l].ready /\ Open(Other(d), l)
             THEN <<CatalogMsg(registry'[d])>> ELSE <<>>)

(* What a created profile makes of ends and channels.                      *)
LEMMA RefreshFacts ==
  ASSUME TypeOK, NEW d \in Device, NEW e \in Entry, refreshProfiles(d, e)
  PROVE  Refreshed(d, e)
<1>. DEFINE o == Other(d)
            c == registry[d] \cup {e}
            att(l) == IF end[d][l].keyed /\ store[d].known THEN applyConsent(store[d], c) ELSE end[d][l].attached
            more(l) == [end[d][l] EXCEPT !.catalog = c, !.attached = att(l)]
            ends == [l \in Link |-> IF l \notin Listed(d) THEN end[d][l] ELSE more(l)]
            tell(l) == l \in Listed(d) /\ end[d][l].ready /\ Open(o, l)
            chans == [l \in Link |-> IF tell(l) THEN Append(chan[o][l], CatalogMsg(c)) ELSE chan[o][l]]
<1>1. o \in Device /\ o # d /\ \A x \in Device : x = d \/ x = o
  BY OtherFacts
<1>2. /\ registry' = [registry EXCEPT ![d] = c] /\ registry'[d] = c /\ c \in SUBSET Entry
      /\ CatalogMsg(c) \in Control
  <2>1. registry' = [registry EXCEPT ![d] = c]
    BY DEF refreshProfiles
  <2>2. c \in SUBSET Entry
    BY Typed
  <2>3. CatalogMsg(c) \in Control
    BY <2>2, ControlFacts
  <2>. QED BY <2>1, <2>2, <2>3 DEF TypeOK
<1>3. end' = [end EXCEPT ![d] = ends]
  BY <1>2 DEF refreshProfiles
<1>4. chan' = [chan EXCEPT ![o] = chans]
  BY <1>2 DEF refreshProfiles
<1>5. ASSUME NEW l \in Link
      PROVE  /\ more(l) \in EndState /\ Consenting(d, l, more(l)) /\ more(l).pending = end[d][l].pending
             /\ more(l).attached = att(l)
  <2>1. end[d][l] \in EndState /\ end[d][l].attached \in SUBSET Id
    BY Typed, EndFields
  <2>2. att(l) \in SUBSET Id
    BY <1>2, <2>1, AttachedTyped
  <2>. HIDE DEF att, c
  <2>. QED BY <1>2, <2>1, <2>2 DEF EndState, Consenting
<1>6. ASSUME NEW l \in Link
      PROVE  Consenting(d, l, end[d][l])
  BY Typed DEF Consenting
<1>7. ASSUME NEW l \in Link
      PROVE  /\ chan[o][l] \in Seq(Control)
             /\ Append(chan[o][l], CatalogMsg(c)) = chan[o][l] \o <<CatalogMsg(c)>>
             /\ Append(chan[o][l], CatalogMsg(c)) \in Seq(Control)
             /\ chan[o][l] \o <<>> = chan[o][l]
  <2>. DEFINE q == chan[o][l]
              m == CatalogMsg(c)
  <2>1. q \in Seq(Control) /\ m \in Control
    BY <1>1, <1>2, Typed
  <2>. HIDE DEF q, m
  <2>2. Append(q, m) = q \o <<m>> /\ Append(q, m) \in Seq(Control)
    BY <2>1, AppendIsConcat
  <2>3. q \o <<>> = q
    BY <2>1, ConcatEmptySeq
  <2>. QED BY <2>1, <2>2, <2>3 DEF q, m
<1>. HIDE DEF more
<1>8. /\ ends \in [Link -> EndState]
      /\ \A l \in Link : ends[l] = IF l \notin Listed(d) THEN end[d][l] ELSE more(l)
  BY <1>5, Typed
<1>9. /\ chans \in [Link -> Seq(Control)]
      /\ \A l \in Link : chans[l] = chan[o][l] \o (IF tell(l) THEN <<CatalogMsg(c)>> ELSE <<>>)
  <2>. HIDE DEF tell, c
  <2>. QED BY <1>7
<1>. HIDE DEF ends, chans, tell, att, c
<1>10. /\ end' \in EndType /\ end'[d] = ends
       /\ \A x \in Device : x # d => end'[x] = end[x]
  BY <1>3, <1>8, Typed DEF EndType
<1>11. /\ chan' \in ChanType /\ chan'[o] = chans /\ chan'[d] = chan[d]
  BY <1>1, <1>4, <1>9, Typed DEF ChanType
<1>12. ASSUME NEW l \in Link
       PROVE  /\ Consenting(d, l, end'[d][l]) /\ end'[d][l].pending = end[d][l].pending
              /\ l \notin Listed(d) => end'[d][l] = end[d][l]
              /\ l \in Listed(d) /\ end[d][l].keyed /\ store[d].known =>
                   end'[d][l].attached = applyConsent(store[d], registry'[d])
  <2>1. CASE l \in Listed(d)
    <3>1. end'[d][l] = more(l)
      BY <1>8, <1>10, <2>1
    <3>. QED BY <1>2, <1>5, <2>1, <3>1 DEF att
  <2>2. CASE l \notin Listed(d)
    <3>1. end'[d][l] = end[d][l]
      BY <1>8, <1>10, <2>2
    <3>. QED BY <1>6, <2>2, <3>1
  <2>. QED BY <2>1, <2>2
<1>13. ASSUME NEW l \in Link
       PROVE  chan'[o][l] = chan[o][l] \o
            (IF l \in Listed(d) /\ end[d][l].ready /\ Open(o, l)
             THEN <<CatalogMsg(registry'[d])>> ELSE <<>>)
  BY <1>2, <1>9, <1>11 DEF tell
<1>14. registry' = [registry EXCEPT ![d] = registry[d] \cup {e}]
  BY <1>2 DEF c
<1>. QED BY <1>10, <1>11, <1>12, <1>13, <1>14 DEF Refreshed

(* It keeps the types.                                                     *)
LEMMA RefreshTypes ==
  ASSUME TypeOK, MaxChanges \in Nat, NEW d \in Device, NEW e \in Entry, refreshProfiles(d, e)
  PROVE  TypeOK'
<1>1. Refreshed(d, e)
  BY RefreshFacts
<1>2. Acts /\ UNCHANGED <<store, entry, task, vetoed>>
  BY DEF refreshProfiles
<1>3. changes' \in 0 .. MaxChanges
  BY <1>2, ActsTyped
<1>4. registry' \in [Device -> SUBSET Entry] /\ end' \in EndType /\ chan' \in ChanType
  BY <1>1 DEF Refreshed, TypeOK
<1>. QED BY <1>2, <1>3, <1>4 DEF TypeOK, EndType, ChanType

(* It keeps the rules.                                                     *)
LEMMA RefreshKeeps ==
  ASSUME Inv, NEW d \in Device, NEW e \in Entry, refreshProfiles(d, e)
  PROVE  Rules'
<1>0. TypeOK
  BY DEF Inv
<1>. DEFINE o == Other(d)
<1>1. o \in Device /\ o # d /\ Other(o) = d /\ \A x \in Device : x = d \/ x = o
  BY OtherFacts
<1>2. UNCHANGED <<store, entry, task>>
  BY DEF refreshProfiles
<1>3. Refreshed(d, e)
  BY <1>0, RefreshFacts
<1>4. /\ end' \in EndType /\ \A x \in Device : x # d => end'[x] = end[x] /\ registry'[x] = registry[x]
  BY <1>0, <1>3 DEF Refreshed, TypeOK
<1>5. ASSUME NEW l \in Link
      PROVE  /\ chan'[d][l] = chan[d][l]
             /\ Consenting(d, l, end'[d][l]) /\ end'[d][l].pending = end[d][l].pending
             /\ end[d][l].state = "new" => end'[d][l] = end[d][l]
             /\ Open(d, l) /\ end[d][l].keyed /\ task[d] = {} =>
                  end'[d][l].attached = applyConsent(store'[d], registry'[d])
  <2>1. end[d][l].state = "new" => l \notin Listed(d)
    BY ListedFacts
  <2>2. Open(d, l) /\ end[d][l].keyed => l \in Listed(d) /\ store[d].known
    BY OpenIsListed DEF Inv, EndOK, Open
  <2>. QED BY <1>2, <1>3, <2>1, <2>2 DEF Refreshed
<1>6. ASSUME NEW l \in Link
      PROVE  \E m \in Seq(Control) : /\ Told(d, l, m) /\ ~Has(m, "profile-consent")
                                     /\ ~Open(o, l) => m = <<>>
  <2>. DEFINE tell == l \in Listed(d) /\ end[d][l].ready /\ Open(o, l)
              c == CatalogMsg(registry'[d])
              m == IF tell THEN <<c>> ELSE <<>>
  <2>1. c \in Control /\ c.op = "profile-catalog"
    <3>1. registry'[d] \in SUBSET Entry
      BY <1>0, <1>3 DEF Refreshed, TypeOK
    <3>. QED BY <3>1, ControlFacts
  <2>2. chan'[o][l] = chan[o][l] \o m
    BY <1>3 DEF Refreshed
  <2>. HIDE DEF c
  <2>3. /\ m \in Seq(Control) /\ \A k \in DOMAIN m : m[k].op = "profile-catalog"
        /\ m # <<>> => end[d][l].ready
        /\ ~Open(o, l) => m = <<>>
    <3>1. CASE tell
      BY <2>1, <3>1
    <3>2. CASE ~tell
      <4>1. m = <<>>
        BY <3>2
      <4>2. DOMAIN m = {}
        BY <4>1
      <4>. QED BY <4>1, <4>2
    <3>. QED BY <3>1, <3>2
  <2>. HIDE DEF m
  <2>4. Told(d, l, m)
    BY <2>2, <2>3 DEF Told
  <2>5. ~Has(m, "profile-consent")
    BY <2>3 DEF Has
  <2>. QED BY <2>3, <2>4, <2>5
<1>7. ASSUME NEW l \in Link PROVE ~Open(o, l) => chan'[o][l] = chan[o][l]
  <2>1. PICK m \in Seq(Control) : Told(d, l, m) /\ (~Open(o, l) => m = <<>>)
    BY <1>6
  <2>2. chan[o][l] \in Seq(Control)
    BY <1>0, <1>1, Typed
  <2>. QED BY <2>1, <2>2, ConcatEmptySeq DEF Told
<1>8. ASSUME NEW l \in Link, Both(l) PROVE Heard(o, l)'
  <2>1. Heard(o, l)
    BY <1>8, BothFacts
  <2>2. chan'[d][l] = chan[d][l] /\ end'[d][l].ready = end[d][l].ready /\ end'[o][l] = end[o][l]
    BY <1>1, <1>4, <1>5 DEF Consenting
  <2>3. Answers(o, l) => Answers(o, l)'
    BY <1>1, <1>2, <2>2 DEF Answers
  <2>4. PICK m \in Seq(Control) : Told(d, l, m) /\ ~Has(m, "profile-consent")
    BY <1>6
  <2>. DEFINE q == chan[o][l]
              given == store[d].local
  <2>5. q \in Seq(Control) /\ chan'[o][l] = q \o m /\ given = store'[d].local
    BY <1>0, <1>1, <1>2, <2>4, Typed DEF Told
  <2>6. OnItsWay(q, given) => OnItsWay(q \o m, given)
    <3>. HIDE DEF q, given
    <3>. QED BY <2>4, <2>5, OnMore
  <2>7. ~Has(q, "profile-consent") => ~Has(q \o m, "profile-consent")
    <3>. HIDE DEF q
    <3>. QED BY <2>4, <2>5, HasMore
  <2>. HIDE DEF q, given
  <2>8. \/ Answers(o, l) \/ OnItsWay(q, given)
        \/ ~Has(q, "profile-consent") /\ Agree(store[o].remote, given)
    BY <1>1, <2>1 DEF Heard, q, given
  <2>9. \/ Answers(o, l)' \/ OnItsWay(chan'[o][l], store'[d].local)
        \/ ~Has(chan'[o][l], "profile-consent") /\ Agree(store'[o].remote, store'[d].local)
    BY <1>2, <2>3, <2>5, <2>6, <2>7, <2>8
  <2>. QED BY <1>1, <2>9 DEF Heard
<1>9. ASSUME NEW l \in Link PROVE \E m \in Seq(Control) : Told(d, l, m)
  BY <1>6
<1>10. Speaks(d)
  BY <1>2, <1>4, <1>5, <1>7, <1>8, <1>9 DEF Speaks
<1>. QED BY <1>10, SpeaksKeeps

-----------------------------------------------------------------------------
(* The invariant holds, and what it says of devices at rest.               *)

LEMMA Starts ==
  ASSUME MaxChanges \in Nat, Init
  PROVE  Inv
<1>1. NewEnd \in EndState /\ <<>> \in Seq(Control) /\ 0 \in 0 .. MaxChanges
  BY UnknownTyped DEF NewEnd, EndState
<1>2. TypeOK
  <2>1. registry \in [Device -> SUBSET Entry]
    BY ProfilesAreEntries DEF Init
  <2>. QED BY <1>1, <2>1, UnknownTyped DEF Init, TypeOK
<1>3. \A d \in Device, l \in Link :
        /\ end[d][l] = NewEnd /\ chan[d][l] = <<>> /\ entry[d] = NoLink /\ task[d] = {}
        /\ ~Open(d, l)
  BY DEF Init, Open, NewEnd
<1>4. OneOpen /\ TasksHere /\ EntriesOK
  <2>1. OneOpen
    BY <1>3 DEF OneOpen
  <2>2. TasksHere
    BY DEF TasksHere, Init
  <2>3. EntriesOK
    BY DEF EntriesOK, Init
  <2>. QED BY <2>1, <2>2, <2>3
<1>5. ASSUME NEW d \in Device, NEW l \in Link PROVE EndOK(d, l)
  <2>1. end[d][l] = NewEnd /\ chan[d][l] = <<>>
    BY <1>3
  <2>2. NewEnd.state = "new" /\ ~NewEnd.ready
    BY DEF NewEnd
  <2>. QED BY <2>1, <2>2 DEF EndOK
<1>6. LinesOK
  <2>1. \A l \in Link : ~Both(l)
    BY <1>3, TwoDevices DEF Both
  <2>. QED BY <2>1 DEF LinesOK
<1>. QED BY <1>2, <1>4, <1>5, <1>6 DEF Inv

(* The types, step by step.                                                 *)
LEMMA NextTypes ==
  ASSUME TypeOK, MaxChanges \in Nat, [Next]_vars
  PROVE  TypeOK'
<1>1. CASE \E l \in Link : attachDevice(l)
  BY <1>1, AttachTypes
<1>2. ASSUME NEW d \in Device, NEW l \in Link, confirmPhrase(d, l) PROVE TypeOK'
  BY <1>2, ConfirmTypes
<1>3. ASSUME NEW d \in Device, NEW l \in Link, rejectPhrase(d, l) PROVE TypeOK'
  BY <1>3, RejectFacts
<1>4. ASSUME NEW d \in Device, NEW l \in Link, Closed(d, l) \/ onPhraseMismatch(d, l) PROVE TypeOK'
  <2>1. /\ Close(d, l) /\ chan' = [chan EXCEPT ![d][l] = <<>>]
        /\ UNCHANGED <<registry, store, task, vetoed, changes>>
    BY <1>4 DEF Closed, onPhraseMismatch
  <2>. QED BY <2>1, ClosedTypes
<1>5. ASSUME NEW d \in Device, NEW l \in Link, onPhraseOk(d, l) PROVE TypeOK'
  BY <1>5, PhraseOkTypes
<1>6. ASSUME NEW d \in Device, NEW l \in Link, handleCatalog(d, l) PROVE TypeOK'
  BY <1>6, CatalogTypes
<1>7. ASSUME NEW d \in Device, NEW l \in Link, handleConsent(d, l) PROVE TypeOK'
  BY <1>7, ConsentTypes
<1>8. ASSUME NEW d \in Device, NEW i \in Ids(KnownAs(d)), NEW allow \in BOOLEAN, setProfileConsent(d, i, allow)
      PROVE  TypeOK'
  BY <1>8, SetTypes
<1>9. ASSUME NEW d \in Device, NEW i \in Ids(KnownAs(d)), unlinkProfile(d, i) PROVE TypeOK'
  BY <1>9, SetTypes
<1>10. ASSUME NEW d \in Device, NEW e \in Entry, refreshProfiles(d, e) PROVE TypeOK'
  BY <1>10, RefreshTypes
<1>11. ASSUME NEW d \in Device, unpair(d) PROVE TypeOK'
  BY <1>11, UnpairFacts
<1>12. ASSUME NEW d \in Device, NEW t \in task[d], relinkDone(d, t) \/ relinkFails(d, t) PROVE TypeOK'
  <2>1. PICK record \in PeerRecord, vetoes \in SUBSET Name :
           record.known = store[d].known /\ GoesOn(d, t, record, vetoes) /\ changes' = changes
    BY <1>12, RelinkIsGoesOn
  <2>. QED BY <2>1, GoesOnTypes
<1>13. CASE UNCHANGED vars
  BY <1>13 DEF vars, TypeOK
<1>14. ASSUME NEW d \in Device, NEW l \in Link, Receive(d, l) PROVE TypeOK'
  BY <1>4, <1>5, <1>6, <1>7, <1>14 DEF Receive
<1>15. ASSUME NEW d \in Device, UserActs(d) PROVE TypeOK'
  BY <1>8, <1>9, <1>10, <1>11, <1>15 DEF UserActs
<1>. QED BY <1>1, <1>2, <1>3, <1>4, <1>12, <1>13, <1>14, <1>15 DEF Next

(* The rules, step by step.                                                 *)
LEMMA NextKeeps ==
  ASSUME Inv, Calm, [Next]_vars
  PROVE  Rules'
<1>0. TypeOK
  BY DEF Inv
<1>1. CASE \E l \in Link : attachDevice(l)
  BY <1>1, AttachKeeps
<1>2. ASSUME NEW d \in Device, NEW l \in Link, confirmPhrase(d, l) PROVE Rules'
  BY <1>2, ConfirmKeeps
<1>3. ASSUME NEW d \in Device, NEW l \in Link, rejectPhrase(d, l) PROVE Rules'
  BY <1>3, RejectKeeps
<1>4. ASSUME NEW d \in Device, NEW l \in Link, Closed(d, l) \/ onPhraseMismatch(d, l) PROVE Rules'
  <2>1. /\ Open(d, l) /\ Close(d, l) /\ chan' = [chan EXCEPT ![d][l] = <<>>]
        /\ UNCHANGED <<registry, store, task>>
    BY <1>4 DEF Closed, onPhraseMismatch, Arrives
  <2>. QED BY <2>1, ClosedKeeps
<1>5. ASSUME NEW d \in Device, NEW l \in Link, onPhraseOk(d, l) PROVE Rules'
  BY <1>5, PhraseOkKeeps
<1>6. ASSUME NEW d \in Device, NEW l \in Link, handleCatalog(d, l) PROVE Rules'
  BY <1>6, CatalogKeeps
<1>7. ASSUME NEW d \in Device, NEW l \in Link, handleConsent(d, l) PROVE Rules'
  BY <1>7, ConsentKeeps
<1>8. ASSUME NEW d \in Device, NEW i \in Ids(KnownAs(d)), NEW allow \in BOOLEAN, setProfileConsent(d, i, allow)
      PROVE  Rules'
  BY <1>8, SetKeeps
<1>9. ASSUME NEW d \in Device, NEW i \in Ids(KnownAs(d)), unlinkProfile(d, i) PROVE Rules'
  BY <1>9, SetKeeps
<1>10. ASSUME NEW d \in Device, NEW e \in Entry, refreshProfiles(d, e) PROVE Rules'
  BY <1>10, RefreshKeeps
<1>11. ASSUME NEW d \in Device, unpair(d) PROVE Rules'
  BY <1>11, UnpairKeeps
<1>12. ASSUME NEW d \in Device, NEW t \in task[d], relinkDone(d, t) \/ relinkFails(d, t) PROVE Rules'
  <2>1. PICK record \in PeerRecord, vetoes \in SUBSET Name :
          record.known = store[d].known /\ GoesOn(d, t, record, vetoes)
    BY <1>0, <1>12, RelinkIsGoesOn
  <2>. QED BY <2>1, GoesOnKeeps
<1>13. CASE UNCHANGED vars
  <2>1. Rules
    BY InvIs
  <2>2. UNCHANGED <<registry, store, entry, end, chan, task>>
    BY <1>13 DEF vars
  <2>3. OneOpen' /\ TasksHere' /\ EntriesOK'
    BY <2>1, <2>2 DEF Rules, OneOpen, TasksHere, EntriesOK, Open
  <2>4. EndsOK'
    BY <2>1, <2>2 DEF Rules, EndsOK, EndOK
  <2>5. LinesOK'
    BY <2>1, <2>2 DEF Rules, LinesOK, Both, Open, Line, Clean, Heard, Answers
  <2>. QED BY <2>3, <2>4, <2>5 DEF Rules
<1>14. ASSUME NEW d \in Device, NEW l \in Link, Receive(d, l) PROVE Rules'
  BY <1>4, <1>5, <1>6, <1>7, <1>14 DEF Receive
<1>15. ASSUME NEW d \in Device, UserActs(d) PROVE Rules'
  BY <1>8, <1>9, <1>10, <1>11, <1>15 DEF UserActs
<1>. QED BY <1>1, <1>2, <1>3, <1>4, <1>12, <1>13, <1>14, <1>15 DEF Next

(* At rest each end has seen a catalog and heard the other device.          *)
LEMMA SettledFacts ==
  ASSUME Inv, NEW d \in Device, NEW l \in Link, Settled(l)
  PROVE  /\ end[d][l].attached = applyConsent(store[d], registry[d])
         /\ Agree(store[d].remote, store[Other(d)].local)
<1>0. TypeOK
  BY DEF Inv
<1>1. \A x \in Device : Open(x, l) /\ end[x][l].ready /\ chan[x][l] = <<>> /\ task[x] = {}
  BY DEF Settled
<1>2. Both(l)
  BY <1>1 DEF Both
<1>3. /\ Other(d) \in Device /\ Line(d, l) /\ Heard(d, l) /\ EndOK(d, l)
  BY <1>2, BothFacts
<1>4. ~end[d][l].fresh
  <2>1. SUFFICES ASSUME end[d][l].fresh PROVE FALSE
    OBVIOUS
  <2>2. end[Other(d)][l].ready /\ chan[d][l] = <<>>
    BY <1>1, <1>3
  <2>3. awaited(end[d][l].remote) \in {0, 1}
    BY DEF awaited
  <2>4. Len(chan[d][l]) >= awaited(end[d][l].remote) + 2
    BY <1>3, <2>1, <2>2 DEF Line, LineIs
  <2>5. Len(chan[d][l]) = 0
    BY <2>2
  <2>. QED BY <2>3, <2>4, <2>5
<1>5. end[d][l].keyed
  BY <1>1, <1>3, <1>4 DEF EndOK, Open
<1>6. end[d][l].attached = applyConsent(store[d], registry[d])
  BY <1>1, <1>3, <1>5 DEF EndOK, Open
<1>7. \A op : ~Has(<<>>, op)
  BY DEF Has
<1>8. ~Answers(d, l)
  BY <1>1, <1>3, <1>7 DEF Answers
<1>9. \A c : ~OnItsWay(<<>>, c)
  BY DEF OnItsWay
<1>10. Agree(store[d].remote, store[Other(d)].local)
  BY <1>1, <1>3, <1>8, <1>9 DEF Heard
<1>. QED BY <1>6, <1>10

(* The invariant has the property.                                         *)
LEMMA RestIsInv ==
  ASSUME Inv
  PROVE  RestAgrees
<1>. SUFFICES ASSUME NEW l \in Link, Settled(l), NEW d \in Device
              PROVE  /\ \A i \in Ids(registry[d]) :
                          (store[d].remote[i] = "yes") = (store[Other(d)].local[i] = "yes")
                     /\ \A i \in Ids(registry[d]) \cap Ids(registry[Other(d)]) :
                          (i \in end[d][l].attached) = (i \in end[Other(d)][l].attached)
  BY DEF RestAgrees
<1>. DEFINE o == Other(d)
<1>1. o \in Device /\ Other(o) = d
  BY OtherFacts
<1>2. /\ end[d][l].attached = applyConsent(store[d], registry[d])
      /\ end[o][l].attached = applyConsent(store[o], registry[o])
      /\ Agree(store[d].remote, store[o].local) /\ Agree(store[o].remote, store[d].local)
  BY <1>1, SettledFacts
<1>3. Ids(registry[d]) \in SUBSET Id /\ Ids(registry[o]) \in SUBSET Id
  BY <1>1, Typed, IdsTyped DEF Inv
<1>4. \A i \in Ids(registry[d]) : (store[d].remote[i] = "yes") = (store[o].local[i] = "yes")
  BY <1>2, <1>3 DEF Agree
<1>5. ASSUME NEW i \in Ids(registry[d]) \cap Ids(registry[o])
      PROVE  (i \in end[d][l].attached) = (i \in end[o][l].attached)
  <2>1. /\ i \in end[d][l].attached <=> effectiveAllow(store[d], i)
        /\ i \in end[o][l].attached <=> effectiveAllow(store[o], i)
    BY <1>2, <1>5 DEF applyConsent
  <2>2. /\ (store[d].remote[i] = "yes") <=> (store[o].local[i] = "yes")
        /\ (store[o].remote[i] = "yes") <=> (store[d].local[i] = "yes")
    BY <1>2, <1>3 DEF Agree
  <2>. QED BY <2>1, <2>2 DEF effectiveAllow
<1>. QED BY <1>4, <1>5

(* TypeOK (sync/index.ts:202-212, profile-link.ts:47-80): the ends, the      *)
(* records and what is on its way have the shape their handlers expect,     *)
(* whatever is allowed, turned off, unlinked or created.                    *)
THEOREM LinkTypes ==
  ASSUME MaxChanges \in Nat
  PROVE  Spec => []TypeOK
<1>1. Init => TypeOK
  BY Starts DEF Inv
<1>2. TypeOK /\ [Next]_vars => TypeOK'
  BY NextTypes
<1>. QED BY <1>1, <1>2, PTL DEF Spec

(* RestAgrees (sync/index.ts:525-581): two devices at rest agree: each knows *)
(* the consent of the other as it is, and a profile both have is attached   *)
(* at both ends or at none, if a device pairs again only once the old       *)
(* channel is closed and dealt with.                                        *)
THEOREM RestIsAgreed ==
  ASSUME Calm, MaxChanges \in Nat
  PROVE  Spec => []RestAgrees
<1>1. Init => Inv
  BY Starts
<1>2. Inv /\ [Next]_vars => Inv'
  <2>. SUFFICES ASSUME Inv, [Next]_vars PROVE Inv'
    OBVIOUS
  <2>1. TypeOK' /\ Rules'
    BY NextTypes, NextKeeps DEF Inv
  <2>. QED BY <2>1 DEF Inv, Rules, EndsOK
<1>3. Inv => RestAgrees
  BY RestIsInv
<1>. QED BY <1>1, <1>2, <1>3, PTL DEF Spec
=============================================================================
