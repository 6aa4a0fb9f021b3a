------------------------- MODULE ProfileCatalog -------------------------
(***************************************************************************)
(* The pure part of web/src/profile-sync-model.ts: which profiles of two   *)
(* devices are the same one, under which id, and what the consent of a     *)
(* device is after it saw a catalog or changed an id.                      *)
(*                                                                         *)
(* An id is a number: the code compares ids as strings, and numbers keep   *)
(* their order.  A catalog is a set of entries [id, name].  The date of an *)
(* entry is left out: the catalogs index.ts makes carry the same date in   *)
(* every entry (its catalog() copies the id and the name alone), so the    *)
(* order of the ids decides.  A consent map is a function from all ids,    *)
(* with "unset" for an id the map does not have.                           *)
(***************************************************************************)
EXTENDS Naturals

CONSTANTS Id,    \* the profile ids
          Name   \* the profile names

ASSUME IdsAreNumbers == Id \subseteq Nat

Consent == {"unset", "yes", "no"}
ConsentMap == [Id -> Consent]
NoConsent == [i \in Id |-> "unset"]

Entry == [id : Id, name : Name]
Ids(catalog) == {e.id : e \in catalog}

\* The record of a peer: what this side allows, what the peer allows, the
\* profiles of the peer, the names that were linked once and the ids that are
\* left alone.  A device without a record has known = FALSE.
PeerRecord == [known : BOOLEAN, local : ConsentMap, remote : ConsentMap,
               profiles : SUBSET Entry,
               linkedNames : SUBSET Name, unlinkedIds : SUBSET Id]
Unknown == [known |-> FALSE, local |-> NoConsent, remote |-> NoConsent,
            profiles |-> {}, linkedNames |-> {}, unlinkedIds |-> {}]

canonicalProfileId(local, remote) ==
  IF local.id <= remote.id THEN local.id ELSE remote.id

\* Profiles of the same name and different ids, and the id they get.  A name
\* that was linked before is never looked at again, and an unlinked id never
\* takes part.
linked(l, r) == [from |-> l.id, remoteId |-> r.id, to |-> canonicalProfileId(l, r), name |-> l.name]
autoLinkProfiles(local, remote, record) ==
  {linked(pair[1], pair[2]) :
     pair \in {both \in local \X remote :
               /\ both[1].name = both[2].name
               /\ both[2].id \notin Ids(local) \cup record.unlinkedIds
               /\ both[1].id \notin record.unlinkedIds
               /\ both[2].name \notin record.linkedNames}}

Adoptions(links) == {k \in links : k.from # k.to}

\* An id that links give up, by the id they give it.
Adopted(links, i) ==
  IF \E k \in Adoptions(links) : k.from = i
  THEN (CHOOSE k \in Adoptions(links) : k.from = i).to ELSE i
Canonical(links, i) ==
  IF \E k \in links : k.remoteId = i
  THEN (CHOOSE k \in links : k.remoteId = i).to ELSE i

effectiveAllow(record, i) == record.local[i] = "yes" /\ record.remote[i] = "yes"

\* A profile that only this side has starts closed.
onlyHere == "no"

\* What a catalog does to the record: ids that are new here start open if the
\* peer has them too; the consent of the peer is never invented.
upsertPeer(record, local, remote, links) ==
  LET here == {Adopted(links, i) : i \in Ids(local)}
      there == {Canonical(links, i) : i \in Ids(remote)}
  IN [known |-> TRUE,
      local |-> [i \in Id |->
                   IF record.local[i] # "unset" \/ i \notin here THEN record.local[i]
                   ELSE IF i \in there THEN "yes" ELSE onlyHere],
      remote |-> [i \in Id |->
                    IF record.remote[i] = "unset" /\ i \in there THEN "no"
                    ELSE record.remote[i]],
      profiles |-> {[e EXCEPT !.id = Canonical(links, @)] : e \in remote},
      linkedNames |-> record.linkedNames \cup {k.name : k \in links},
      unlinkedIds |-> record.unlinkedIds \cup {k.from : k \in Adoptions(links)}]

\* Moves the consent of an id that was given up to the id it got, unless that
\* has one of its own.
\* Mutant: it is dropped with the old id.
Remapped_Forget(map, from, to) == [map EXCEPT ![from] = "unset"]
Remapped(map, from, to) ==
  IF map[from] = "unset" THEN map
  ELSE [map EXCEPT ![to] = IF @ = "unset" THEN map[from] ELSE @, ![from] = "unset"]

remapPeerConsent(record, from, to) ==
  [record EXCEPT !.local = Remapped(@, from, to), !.remote = Remapped(@, from, to)]

=========================================================================
