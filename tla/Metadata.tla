------------------------------- MODULE Metadata -------------------------------
(***************************************************************************)
(* The ink! IPFS metadata registry (contracts/ipfs-metadata/src/lib.rs):    *)
(* documents of properties with their two indexes, the pinned size of each  *)
(* property and who may write.  A CID stands for a document's content; the  *)
(* formats, hashes and timestamps that are only checked are left out.       *)
(***************************************************************************)
EXTENDS Ledger, SequencesExt

CONSTANTS
  Estates,          \* property ids
  Clerks,           \* accounts other than the admin
  MetadataAdmin,
  Cids,             \* well-formed CIDs
  Sizes,            \* file sizes offered
  Limits,           \* [file, count, pinned] offered to update_validation_rules
  FirstLimits,
  MaxDocuments      \* bound

ASSUME MetadataAssumption ==
  /\ Sizes \subseteq Nat
  /\ Limits \union {FirstLimits} \subseteq [file : Nat, count : Nat, pinned : Nat]

VARIABLES
  documents,    \* documents by id; a removed one is not in the domain
  byCid,        \* cid_to_document
  byEstate,     \* property_documents: the ids, whose order nothing reads
  pinnedSize,   \* property_pinned_size
  access,       \* access_permissions
  documentCount,
  limits        \* validation_rules

documentVars == <<documents, byCid, byEstate, pinnedSize, documentCount>>
metadataVars == <<documentVars, access, limits>>

MetadataInit ==
  /\ documents = <<>> /\ byCid = <<>> /\ byEstate = [e \in Estates |-> {}]
  /\ pinnedSize = [e \in Estates |-> 0] /\ documentCount = 0
  /\ access = [e \in Estates |-> [c \in Clerks |-> "None"]] /\ limits = FirstLimits

\* Mapping::insert.
Inserted(f, k, v) == [x \in DOMAIN f \union {k} |-> IF x = k THEN v ELSE f[x]]

LevelOf(e, c) == IF c = MetadataAdmin THEN "Admin" ELSE access[e][c]
MayWrite(e, c) == LevelOf(e, c) \in {"Write", "Admin"}
MayGrant(e, c) == LevelOf(e, c) = "Admin"

\* validate_and_register_metadata: whoever registers metadata that is valid
\* becomes an administrator of the property.
RegisterMetadata(c, e) ==
  /\ access' = [access EXCEPT ![e][c] = "Admin"]
  /\ UNCHANGED <<documentVars, limits>>

\* grant_access, and revoke_access as a grant of nothing.
SetAccess(by, e, c, level) ==
  /\ MayGrant(e, by)
  /\ access' = [access EXCEPT ![e][c] = level]
  /\ UNCHANGED <<documentVars, limits>>

RegisterDocument(by, e, cid, size) ==
  /\ MayWrite(e, by) /\ cid \notin DOMAIN byCid
  /\ size <= limits.file /\ Cardinality(byEstate[e]) < limits.count
  /\ LET id == documentCount + 1
     IN  /\ documents' = Inserted(documents, id, [estate |-> e, cid |-> cid, size |-> size,
                                                 pinned |-> FALSE])
         /\ byCid' = Inserted(byCid, cid, id)
         /\ byEstate' = [byEstate EXCEPT ![e] = @ \union {id}]
         /\ documentCount' = id
  /\ UNCHANGED <<pinnedSize, access, limits>>

PinDocument(by, id) ==
  LET d == documents[id]
  IN  /\ MayWrite(d.estate, by) /\ ~d.pinned
      /\ pinnedSize[d.estate] + d.size <= limits.pinned
      /\ documents' = [documents EXCEPT ![id].pinned = TRUE]
      /\ pinnedSize' = [pinnedSize EXCEPT ![d.estate] = @ + d.size]
      /\ UNCHANGED <<byCid, byEstate, documentCount, access, limits>>

UnpinDocument(by, id) ==
  LET d == documents[id]
  IN  /\ MayWrite(d.estate, by) /\ d.pinned
      /\ documents' = [documents EXCEPT ![id].pinned = FALSE]
      /\ pinnedSize' = [pinnedSize EXCEPT ![d.estate] = IF @ >= d.size THEN @ - d.size ELSE @]
      /\ UNCHANGED <<byCid, byEstate, documentCount, access, limits>>

\* Mutant: the CID still leads to the removed document.
ReportMaliciousFile_CidKept(id) ==
  /\ documents' = Restrict(documents, DOMAIN documents \ {id})
  /\ byEstate' = [byEstate EXCEPT ![documents[id].estate] = @ \ {id}]
  /\ UNCHANGED <<byCid, pinnedSize, documentCount, access, limits>>

\* A document that was pinned keeps its part of the pinned size.
ReportMaliciousFile(id) ==
  /\ documents' = Restrict(documents, DOMAIN documents \ {id})
  /\ byCid' = Restrict(byCid, DOMAIN byCid \ {documents[id].cid})
  /\ byEstate' = [byEstate EXCEPT ![documents[id].estate] = @ \ {id}]
  /\ UNCHANGED <<pinnedSize, documentCount, access, limits>>

UpdateValidationRules(l) == limits' = l /\ UNCHANGED <<documentVars, access>>

MetadataNext ==
  \/ \E e \in Estates, c \in Clerks :
       \/ RegisterMetadata(c, e)
       \/ \E by \in Clerks \union {MetadataAdmin}, level \in {"None", "Read", "Write", "Admin"} :
            SetAccess(by, e, c, level)
  \/ \E by \in Clerks \union {MetadataAdmin} :
       \/ documentCount < MaxDocuments /\ \E e \in Estates, cid \in Cids, size \in Sizes :
            RegisterDocument(by, e, cid, size)
       \/ \E id \in DOMAIN documents : PinDocument(by, id) \/ UnpinDocument(by, id)
  \/ \E id \in DOMAIN documents : ReportMaliciousFile(id)
  \/ \E l \in Limits : UpdateValidationRules(l)

MetadataSpec == MetadataInit /\ [][MetadataNext]_metadataVars

-----------------------------------------------------------------------------
PinnedOf(e) ==
  LET pinned == {id \in DOMAIN documents : documents[id].estate = e /\ documents[id].pinned}
  IN  SumFunctionOnSet([id \in pinned |-> documents[id].size], pinned)

\* Both indexes say what the documents say after any sequence of uploads,
\* pins, removals and uploads of a removed content, and what is pinned of a
\* property has always been counted: the size kept for it may be more, as a
\* removed document is not taken off, but never less.
DocumentsAreIndexed ==
  /\ \A cid \in DOMAIN byCid : byCid[cid] \in DOMAIN documents /\ documents[byCid[cid]].cid = cid
  /\ \A id \in DOMAIN documents :
       /\ documents[id].cid \in DOMAIN byCid /\ byCid[documents[id].cid] = id
       /\ id \in byEstate[documents[id].estate]
  /\ \A e \in Estates :
       /\ byEstate[e] \subseteq DOMAIN documents
       /\ PinnedOf(e) <= pinnedSize[e]
=============================================================================
