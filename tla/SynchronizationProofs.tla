----------------------- MODULE SynchronizationProofs -----------------------
(***************************************************************************)
(* The safety of Synchronization, proved for every number of profiles,     *)
(* changes and failures.                                                   *)
(***************************************************************************)
EXTENDS Synchronization, WellFoundedInduction, TLAPS

(* The profiles are ordered, so a set of them has a first one. *)
LEMMA FirstIn ==
  ASSUME NEW S, S \subseteq Nat, S # {}
  PROVE  First(S) \in S
  <1> DEFINE Less == {x \in Nat \X Nat : x[1] < x[2]}
  <1>1. IsWellFoundedOn(Less, Nat)
    BY NatLessThanWellFounded DEF OpToRel
  <1> HIDE DEF Less
  <1>2. \E p \in S : \A q \in S : <<q, p>> \notin Less
    BY <1>1, WFMin
  <1>3. PICK p \in S : \A q \in S : <<q, p>> \notin Less
    BY <1>2
  <1>4. \A q \in S : p <= q
    <2>1. ASSUME NEW q \in S PROVE p <= q
      <3>1. <<q, p>> \notin Less
        BY <1>3
      <3>2. ~(q < p)
        BY <3>1 DEF Less
      <3> QED
        BY <3>2
    <2> QED
      BY <2>1
  <1> QED
    BY <1>3, <1>4 DEF First

IndInv == TypeOK /\ CopiesFaithful /\ DefaultKnown

(* The profile at work is one of those still to be asked. *)
LEMMA CurrentIn ==
  ASSUME TypeOK, sync.todo # {} PROVE Current \in sync.todo /\ Current \in Profiles
  <1>1. sync.todo \subseteq Profiles
    BY DEF TypeOK, Sync
  <1>2. sync.todo \subseteq Nat
    BY <1>1, SynchronizationAssumption DEF SynchronizationAssumption
  <1> QED
    BY <1>1, <1>2, FirstIn DEF Current

LEMMA KnownType ==
  ASSUME NEW c PROVE Known(c) \subseteq Profiles
  BY DEF Known

-----------------------------------------------------------------------------
(* What the steps of a change write *)

LEMMA NoneApart ==
  /\ None \notin Profiles /\ None \notin Listings
  /\ None \notin Keys /\ None \notin Endpoints
  /\ None \notin Entry /\ None \notin Pin /\ None \notin Section
  BY SynchronizationAssumption, NoneAssumption
  DEF SynchronizationAssumption, NoneAssumption

LEMMA UpsertedSound ==
  ASSUME TypeOK, DefaultKnown, NEW p \in Profiles, NEW entry \in Entry
  PROVE  Upserted(p, entry) \in Catalog /\ DefaultIn(Upserted(p, entry))
  <1>1. catalog \in Catalog
    BY DEF TypeOK
  <1>2. Upserted(p, entry).entries = [catalog.entries EXCEPT ![p] = entry]
        /\ Upserted(p, entry).default = IF Known(catalog) = {} THEN p ELSE catalog.default
    BY DEF Upserted
  <1>3. Upserted(p, entry) \in Catalog
    BY <1>1 DEF Upserted, Catalog, Maybe
  <1>4. Known(Upserted(p, entry)) = Known(catalog) \union {p}
    BY <1>1, <1>2, NoneApart DEF Known, Catalog
  <1> QED
    BY <1>2, <1>3, <1>4 DEF DefaultIn, DefaultKnown

LEMMA WithoutSound ==
  ASSUME TypeOK, DefaultKnown, NEW p \in Known(catalog)
  PROVE  Without(p) \in Catalog /\ DefaultIn(Without(p))
  <1> DEFINE rest == Known(catalog) \ {p}
             next == IF catalog.default # p THEN catalog.default
                     ELSE IF rest = {} THEN None ELSE First(rest)
  <1>1. catalog \in Catalog /\ p \in Profiles
    BY DEF TypeOK, Known
  <1>2. rest # {} => First(rest) \in rest
    <2>1. rest \subseteq Nat
      BY KnownType, SynchronizationAssumption DEF SynchronizationAssumption
    <2> QED
      BY <2>1, FirstIn
  <1>3. Without(p).entries = [catalog.entries EXCEPT ![p] = None]
        /\ Without(p).default = next
    BY DEF Without
  <1>4. Known(Without(p)) = rest
    BY <1>1, <1>3 DEF Known, Catalog
  <1>5. catalog.default \in Known(catalog)
    BY DEF DefaultKnown, DefaultIn
  <1>6. (next = None /\ rest = {}) \/ next \in rest
    BY <1>2, <1>5
  <1>7. Without(p) \in Catalog
    <2>1. next \in Maybe(Profiles)
      BY <1>6, KnownType DEF Maybe
    <2>2. [catalog.entries EXCEPT ![p] = None] \in [Profiles -> Maybe(Entry)]
      BY <1>1 DEF Catalog, Maybe
    <2>3. Without(p) = [default |-> next, entries |-> [catalog.entries EXCEPT ![p] = None]]
      BY DEF Without
    <2> HIDE DEF next
    <2> QED
      BY <2>1, <2>2, <2>3 DEF Catalog
  <1>8. rest # {} => next \in rest
    BY <1>6
  <1>9. rest = {} => next = None
    BY <1>6
  <1> QED
    BY <1>3, <1>4, <1>7, <1>8, <1>9 DEF DefaultIn

-----------------------------------------------------------------------------
(* The invariant *)

LEMMA SyncIdleType == SyncIdle \in Sync /\ EditIdle \in Edit
  <1>1. NoCatalog \in Catalog
    BY DEF NoCatalog, Catalog, Maybe
  <1> QED
    BY <1>1 DEF SyncIdle, EditIdle, Sync, Edit, Maybe, NoSections

LEMMA InitInv == Init => IndInv
  <1> SUFFICES ASSUME Init PROVE IndInv
    OBVIOUS
  <1>1. NoCatalog \in Catalog /\ Known(NoCatalog) = {} /\ NoCatalog.default = None
    BY DEF NoCatalog, Catalog, Maybe, Known
  <1>2. sync.pc = "idle" /\ edit.pc = "idle"
    BY DEF Init, SyncIdle, EditIdle
  <1>3. TypeOK
    BY <1>1, <1>2, SyncIdleType DEF Init, TypeOK, NoSections, Maybe
  <1>4. CopiesFaithful
    BY <1>2 DEF CopiesFaithful
  <1>5. DefaultKnown
    BY <1>1 DEF Init, DefaultKnown, DefaultIn
  <1> QED
    BY <1>3, <1>4, <1>5 DEF IndInv

(* Ending a synchronization restores the invariant of both threads. *)
LEMMA AbortSyncKeeps ==
  ASSUME IndInv, AbortSync, sync.pc # "idle",
         UNCHANGED <<server, token, edit>>,
         catalog' \in Catalog, DefaultIn(catalog'),
         pins' \in [Profiles -> Maybe(Pin)],
         config' \in [Profiles -> Maybe(Section)],
         snapshot' \in [Profiles -> Maybe(Listings)],
         budget' \in [{"edits", "changes", "failures"} -> Nat]
  PROVE  IndInv'
  <1>1. edit.pc = "idle"
    BY DEF IndInv, CopiesFaithful
  <1>2. sync' = SyncIdle /\ sync'.pc = "idle" /\ lock' = "free"
    BY DEF AbortSync, SyncIdle
  <1>3. TypeOK'
    BY <1>1, <1>2, SyncIdleType DEF IndInv, TypeOK
  <1>4. CopiesFaithful'
    BY <1>1, <1>2 DEF CopiesFaithful
  <1>5. DefaultKnown'
    BY DEF DefaultKnown
  <1> QED
    BY <1>3, <1>4, <1>5 DEF IndInv

LEMMA AbortEditKeeps ==
  ASSUME IndInv, AbortEdit, edit.pc # "idle",
         UNCHANGED <<server, token, pins, config, snapshot, sync>>,
         catalog' \in Catalog, DefaultIn(catalog'),
         budget' \in [{"edits", "changes", "failures"} -> Nat]
  PROVE  IndInv'
  <1>1. sync.pc = "idle" /\ sync' = sync
    BY DEF IndInv, CopiesFaithful
  <1>2. edit' = EditIdle /\ edit'.pc = "idle" /\ lock' = "free"
    BY DEF AbortEdit, EditIdle
  <1>3. TypeOK'
    BY <1>1, <1>2, SyncIdleType DEF IndInv, TypeOK
  <1>4. CopiesFaithful'
    BY <1>1, <1>2 DEF CopiesFaithful
  <1>5. DefaultKnown'
    BY DEF DefaultKnown
  <1> QED
    BY <1>3, <1>4, <1>5 DEF IndInv

(* The copy a synchronization starts from is the file itself. *)
LEMMA SameAsItself ==
  ASSUME NEW c PROVE SameChoices(c, c)
  BY DEF SameChoices

LEMMA StartSyncKeeps ==
  ASSUME IndInv, StartSync PROVE IndInv'
  <1>1. edit.pc = "idle" /\ edit' = edit
    BY DEF IndInv, TypeOK, StartSync
  <1>2. /\ sync' \in Sync /\ sync'.pc = "verify" /\ sync'.catalog = catalog
        /\ sync'.todo = Known(catalog)
    BY SyncIdleType, KnownType DEF IndInv, TypeOK, StartSync, SyncIdle, Sync
  <1>3. TypeOK'
    BY <1>1, <1>2 DEF IndInv, TypeOK, StartSync, files
  <1>4. CopiesFaithful'
    BY <1>1, <1>2, SameAsItself DEF CopiesFaithful, StartSync, files
  <1>5. DefaultKnown'
    BY DEF IndInv, DefaultKnown, StartSync, files
  <1> QED
    BY <1>3, <1>4, <1>5 DEF IndInv

LEMMA VerifyKeeps ==
  ASSUME IndInv, Verify PROVE IndInv'
  <1>1. /\ UNCHANGED <<server, catalog, token, pins, config, snapshot, edit, budget>>
        /\ edit.pc = "idle" /\ TypeOK /\ lock = "sync"
    BY DEF Verify, files, IndInv, CopiesFaithful, TypeOK
  <1>2. CASE AbortSync
    BY <1>1, <1>2, AbortSyncKeeps DEF Verify, IndInv, TypeOK, DefaultKnown
  <1>3. CASE sync' = Rendering /\ UNCHANGED lock
    <2>1. /\ sync' \in Sync /\ sync'.pc = "render" /\ sync'.catalog = catalog
          /\ sync'.todo = Known(catalog) /\ sync'.rendered = NoSections
      BY <1>1, <1>3, SyncIdleType, KnownType DEF TypeOK, Rendering, SyncIdle, Sync
    <2>2. TypeOK'
      BY <1>1, <1>3, <2>1 DEF TypeOK
    <2>3. RenderedFrom(catalog)'
      BY <1>1, <2>1 DEF RenderedFrom, NoSections
    <2>4. CopiesFaithful'
      BY <1>1, <2>1, <2>3, SameAsItself DEF CopiesFaithful
    <2> QED
      BY <1>1, <2>2, <2>4 DEF IndInv, DefaultKnown
  <1>4. CASE /\ sync.todo # {}
             /\ sync' = [sync EXCEPT !.pc = "scan",
                                     !.endpoint = server[Current].endpoint]
             /\ UNCHANGED lock
    <2>1. server[Current].endpoint \in Endpoints
      BY <1>1, <1>4, CurrentIn DEF TypeOK, Server
    <2>2. /\ sync' \in Sync /\ sync'.pc = "scan" /\ sync'.catalog = sync.catalog
          /\ sync'.todo = sync.todo /\ sync'.endpoint # None
      BY <1>1, <1>4, <2>1, NoneApart DEF TypeOK, Sync, Maybe
    <2>3. TypeOK'
      BY <1>1, <1>4, <2>2 DEF TypeOK
    <2>4. CopiesFaithful'
      BY <1>1, <1>4, <2>2 DEF IndInv, CopiesFaithful, Verify
    <2> QED
      BY <1>1, <2>3, <2>4 DEF IndInv, DefaultKnown
  <1> QED
    BY <1>2, <1>3, <1>4 DEF Verify

LEMMA ScanKeeps ==
  ASSUME IndInv, Scan PROVE IndInv'
  <1>1. /\ UNCHANGED <<server, catalog, token, pins, config, snapshot, edit, budget>>
        /\ edit.pc = "idle" /\ TypeOK /\ lock = "sync" /\ CopiesFaithful
        /\ sync.pc = "scan" /\ sync.todo # {} /\ sync.endpoint # None
    BY DEF Scan, files, IndInv, CopiesFaithful, TypeOK
  <1>2. Current \in sync.todo /\ Current \in Profiles
    BY <1>1, CurrentIn
  <1>3. CASE AbortSync
    BY <1>1, <1>3, AbortSyncKeeps DEF IndInv, TypeOK, DefaultKnown
  <1>4. CASE /\ UNCHANGED lock
             /\ sync' = [sync EXCEPT !.pc = "verify", !.todo = @ \ {Current},
                                     !.endpoint = None]
    <2>1. /\ sync' \in Sync /\ sync'.pc = "verify" /\ sync'.catalog = sync.catalog
          /\ sync'.todo = sync.todo \ {Current}
      BY <1>1, <1>4 DEF TypeOK, Sync, Maybe
    <2>2. TypeOK'
      BY <1>1, <1>4, <2>1 DEF TypeOK
    <2>3. CopiesFaithful'
      BY <1>1, <2>1 DEF CopiesFaithful
    <2> QED
      BY <1>1, <2>2, <2>3 DEF IndInv, DefaultKnown
  <1>5. CASE /\ SameKey(Current)
             /\ UNCHANGED lock
             /\ sync' = [sync EXCEPT !.pc = "pin", !.key = server[Current].key]
    <2>1. server[Current].key \in Keys
      BY <1>1, <1>2 DEF TypeOK, Server
    <2>2. /\ sync' \in Sync /\ sync'.pc = "pin" /\ sync'.catalog = sync.catalog
          /\ sync'.todo = sync.todo /\ sync'.endpoint = sync.endpoint
          /\ sync'.key = server[Current].key
      BY <1>1, <1>5, <2>1 DEF TypeOK, Sync, Maybe
    <2>3. TypeOK'
      BY <1>1, <1>5, <2>2 DEF TypeOK
    <2>4. Current' = Current
      BY <2>2 DEF Current
    <2>5. pins'[Current'] # None /\ pins'[Current'].key = sync'.key
      BY <1>1, <1>5, <2>2, <2>4 DEF SameKey
    <2>6. CopiesFaithful'
      BY <1>1, <2>2, <2>5 DEF CopiesFaithful
    <2> QED
      BY <1>1, <2>3, <2>6 DEF IndInv, DefaultKnown
  <1> QED
    BY <1>3, <1>4, <1>5 DEF Scan

LEMMA WritePinKeeps ==
  ASSUME IndInv, WritePin PROVE IndInv'
  <1>1. /\ UNCHANGED <<server, catalog, token, config, snapshot, lock, edit, budget>>
        /\ edit.pc = "idle" /\ TypeOK /\ CopiesFaithful
        /\ sync.pc = "pin" /\ sync.todo # {} /\ sync.endpoint # None
    BY DEF WritePin, IndInv, CopiesFaithful, TypeOK
  <1>2. Current \in sync.todo /\ Current \in Profiles
    BY <1>1, CurrentIn
  <1>3. sync.endpoint \in Endpoints /\ sync.key \in Keys
    <2>1. pins[Current] \in Pin
      BY <1>1, <1>2 DEF CopiesFaithful, TypeOK, Maybe
    <2>2. sync.key \in Keys
      BY <1>1, <2>1 DEF CopiesFaithful, Pin
    <2> QED
      BY <1>1, <2>2 DEF TypeOK, Sync, Maybe
  <1>4. pins' \in [Profiles -> Maybe(Pin)]
    BY <1>1, <1>2, <1>3 DEF WritePin, TypeOK, Pin, Maybe
  <1>5. /\ sync' \in Sync /\ sync'.pc = "verify" /\ sync'.catalog = sync.catalog
        /\ sync'.todo = sync.todo \ {Current}
    BY <1>1 DEF WritePin, TypeOK, Sync, Maybe
  <1>6. TypeOK'
    BY <1>1, <1>4, <1>5 DEF TypeOK
  <1>7. CopiesFaithful'
    BY <1>1, <1>5 DEF CopiesFaithful
  <1> QED
    BY <1>1, <1>6, <1>7 DEF IndInv, DefaultKnown

LEMMA RenderKeeps ==
  ASSUME IndInv, Render PROVE IndInv'
  <1>1. /\ UNCHANGED <<server, catalog, token, pins, config, snapshot, edit, budget>>
        /\ edit.pc = "idle" /\ TypeOK /\ lock = "sync" /\ CopiesFaithful
        /\ sync.pc = "render" /\ RenderedFrom(catalog)
    BY DEF Render, files, IndInv, CopiesFaithful, TypeOK
  <1>2. CASE AbortSync
    BY <1>1, <1>2, AbortSyncKeeps DEF IndInv, TypeOK, DefaultKnown
  <1>3. CASE sync.todo = {} /\ sync' = [sync EXCEPT !.pc = "config"] /\ UNCHANGED lock
    <2>1. /\ sync' \in Sync /\ sync'.pc = "config" /\ sync'.catalog = sync.catalog
          /\ sync'.todo = sync.todo /\ sync'.rendered = sync.rendered
      BY <1>1, <1>3 DEF TypeOK, Sync
    <2>2. TypeOK'
      BY <1>1, <1>3, <2>1 DEF TypeOK
    <2>3. RenderedFrom(catalog)'
      BY <1>1, <2>1 DEF RenderedFrom
    <2>4. CopiesFaithful'
      BY <1>1, <1>3, <2>1, <2>3 DEF CopiesFaithful
    <2> QED
      BY <1>1, <2>2, <2>4 DEF IndInv, DefaultKnown
  <1>4. CASE /\ sync.todo # {}
             /\ sync' = [sync EXCEPT !.pc = "list",
                                     !.endpoint = server[Current].endpoint]
             /\ UNCHANGED lock
    <2>1. server[Current].endpoint \in Endpoints
      BY <1>1, <1>4, CurrentIn DEF TypeOK, Server
    <2>2. /\ sync' \in Sync /\ sync'.pc = "list" /\ sync'.catalog = sync.catalog
          /\ sync'.todo = sync.todo /\ sync'.rendered = sync.rendered
          /\ sync'.endpoint # None
      BY <1>1, <1>4, <2>1, NoneApart DEF TypeOK, Sync, Maybe
    <2>3. TypeOK'
      BY <1>1, <1>4, <2>2 DEF TypeOK
    <2>4. RenderedFrom(catalog)'
      BY <1>1, <2>2 DEF RenderedFrom
    <2>5. CopiesFaithful'
      BY <1>1, <1>4, <2>2, <2>4 DEF CopiesFaithful
    <2> QED
      BY <1>1, <2>3, <2>5 DEF IndInv, DefaultKnown
  <1> QED
    BY <1>2, <1>3, <1>4 DEF Render

(* The section that is added follows the choices in the file, because the  *)
(* copy does. *)
LEMMA ListKeeps ==
  ASSUME IndInv, List PROVE IndInv'
  <1> DEFINE entry == sync.catalog.entries[Current]
             asked == [sync.catalog EXCEPT !.entries[Current].endpoint = sync.endpoint]
             section == [endpoint |-> sync.endpoint, auth |-> entry.auth,
                         targets |-> server[Current].targets,
                         short |-> sync.catalog.default = Current]
  <1>1. /\ UNCHANGED <<server, catalog, token, pins, config, snapshot, lock, edit, budget>>
        /\ edit.pc = "idle" /\ TypeOK /\ CopiesFaithful
        /\ sync.pc = "list" /\ RenderedFrom(catalog)
        /\ sync.todo # {} /\ sync.endpoint # None
        /\ SameChoices(sync.catalog, catalog) /\ sync.todo \subseteq Known(catalog)
    BY DEF List, files, IndInv, CopiesFaithful, TypeOK
  <1>2. Current \in sync.todo /\ Current \in Profiles
    BY <1>1, CurrentIn
  <1>3. sync.catalog \in Catalog /\ sync.endpoint \in Endpoints
        /\ server[Current].targets \in Listings
    BY <1>1, <1>2 DEF TypeOK, Sync, Server, Maybe
  <1>4. entry \in Entry /\ catalog.entries[Current] # None
        /\ entry.auth = catalog.entries[Current].auth
    BY <1>1, <1>2, <1>3 DEF SameChoices, Known, Catalog, Maybe
  <1>5. asked.default = sync.catalog.default
        /\ asked.entries = [sync.catalog.entries EXCEPT
                              ![Current] = [entry EXCEPT !.endpoint = sync.endpoint]]
    BY <1>3 DEF Catalog
  <1>6. [entry EXCEPT !.endpoint = sync.endpoint] \in Entry
        /\ [entry EXCEPT !.endpoint = sync.endpoint].auth = entry.auth
    BY <1>3, <1>4 DEF Entry
  <1>7. asked \in Catalog
    BY <1>3, <1>6 DEF Catalog, Maybe
  <1>8. SameChoices(asked, catalog)
    BY <1>1, <1>2, <1>3, <1>4, <1>5, <1>6, NoneApart DEF SameChoices, Catalog
  <1>9. section \in Section /\ section.auth = catalog.entries[Current].auth
        /\ section.short = (catalog.default = Current)
    BY <1>1, <1>3, <1>4 DEF Section, Entry, SameChoices
  <1>10. /\ sync'.pc = "render" /\ sync'.catalog = asked
         /\ sync'.todo = sync.todo \ {Current}
         /\ sync'.rendered = [sync.rendered EXCEPT ![Current] = section]
    BY <1>1 DEF List, TypeOK, Sync
  <1>11. sync' = [sync EXCEPT !.pc = "render", !.todo = sync.todo \ {Current},
                              !.endpoint = None, !.catalog = asked,
                              !.rendered = [sync.rendered EXCEPT ![Current] = section]]
    BY <1>1 DEF List, TypeOK, Sync
  <1> HIDE DEF asked, section
  <1>12. sync' \in Sync
    <2>1. [sync.rendered EXCEPT ![Current] = section] \in [Profiles -> Maybe(Section)]
      BY <1>1, <1>9 DEF TypeOK, Sync, Maybe
    <2> QED
      BY <1>1, <1>7, <1>11, <2>1 DEF TypeOK, Sync, Maybe
  <1>13. TypeOK'
    BY <1>1, <1>10, <1>12 DEF TypeOK
  <1>14. RenderedFrom(catalog)'
    <2>1. sync.rendered \in [Profiles -> Maybe(Section)]
      BY <1>1 DEF TypeOK, Sync
    <2> QED
      BY <1>1, <1>2, <1>9, <1>10, <2>1, NoneApart DEF RenderedFrom
  <1>15. CopiesFaithful'
    BY <1>1, <1>8, <1>10, <1>14 DEF CopiesFaithful
  <1> QED
    BY <1>1, <1>13, <1>15 DEF IndInv, DefaultKnown

LEMMA WriteConfigKeeps ==
  ASSUME IndInv, WriteConfig PROVE IndInv'
  <1>1. /\ UNCHANGED <<server, catalog, token, pins, snapshot, lock, edit, budget>>
        /\ edit.pc = "idle" /\ TypeOK /\ CopiesFaithful /\ sync.pc = "config"
    BY DEF WriteConfig, IndInv, CopiesFaithful, TypeOK
  <1>2. /\ sync' \in Sync /\ sync'.pc = "snapshot" /\ sync'.catalog = sync.catalog
        /\ sync'.todo = sync.todo /\ config' \in [Profiles -> Maybe(Section)]
    BY <1>1 DEF WriteConfig, TypeOK, Sync
  <1>3. TypeOK'
    BY <1>1, <1>2 DEF TypeOK
  <1>4. CopiesFaithful'
    BY <1>1, <1>2 DEF CopiesFaithful
  <1> QED
    BY <1>1, <1>3, <1>4 DEF IndInv, DefaultKnown

LEMMA WriteSnapshotKeeps ==
  ASSUME IndInv, WriteSnapshot PROVE IndInv'
  <1>1. /\ UNCHANGED <<server, catalog, token, pins, config, edit, budget>>
        /\ edit.pc = "idle" /\ TypeOK /\ CopiesFaithful
        /\ sync.pc = "snapshot" /\ lock = "sync"
    BY DEF WriteSnapshot, IndInv, CopiesFaithful, TypeOK
  <1>2. snapshot' \in [Profiles -> Maybe(Listings)]
    BY <1>1, NoneApart DEF WriteSnapshot, Targets, TypeOK, Sync, Section, Maybe
  <1>3. CASE AbortSync
    BY <1>1, <1>2, <1>3, AbortSyncKeeps DEF IndInv, TypeOK, DefaultKnown
  <1>4. CASE sync' = [sync EXCEPT !.pc = "catalog"] /\ UNCHANGED lock
    <2>1. /\ sync' \in Sync /\ sync'.pc = "catalog" /\ sync'.catalog = sync.catalog
          /\ sync'.todo = sync.todo
      BY <1>1, <1>4 DEF TypeOK, Sync
    <2>2. TypeOK'
      BY <1>1, <1>2, <1>4, <2>1 DEF TypeOK
    <2>3. CopiesFaithful'
      BY <1>1, <2>1 DEF CopiesFaithful
    <2> QED
      BY <1>1, <2>2, <2>3 DEF IndInv, DefaultKnown
  <1> QED
    BY <1>3, <1>4 DEF WriteSnapshot

(* A copy with the same choices has the same profiles, hence a default     *)
(* among them. *)
LEMMA WriteCatalogKeeps ==
  ASSUME IndInv, WriteCatalog PROVE IndInv'
  <1>1. /\ UNCHANGED <<server, token, pins, config, snapshot, edit, budget>>
        /\ TypeOK /\ sync.pc # "idle" /\ AbortSync /\ catalog' = sync.catalog
        /\ SameChoices(sync.catalog, catalog) /\ DefaultKnown
    BY DEF WriteCatalog, IndInv, CopiesFaithful
  <1>2. Known(sync.catalog) = Known(catalog) /\ sync.catalog.default = catalog.default
    BY <1>1 DEF SameChoices, Known
  <1>3. catalog' \in Catalog /\ DefaultIn(catalog')
    BY <1>1, <1>2 DEF TypeOK, Sync, DefaultKnown, DefaultIn
  <1> QED
    BY <1>1, <1>3, AbortSyncKeeps DEF TypeOK

-----------------------------------------------------------------------------
(* Configuration changes *)

LEMMA StartEditKeeps ==
  ASSUME IndInv, NEW task, NEW pc, NEW name \in Profiles, NEW pin \in Maybe(Pin),
         NEW changed \in Catalog, DefaultIn(changed),
         task \in {"save", "paste", "authenticate", "remove", "default"},
         pc \in {"token", "hostKeys", "catalog"},
         StartEdit(task, pc, name, pin, changed)
  PROVE  IndInv'
  <1>1. /\ UNCHANGED <<server, catalog, token, pins, config, snapshot, sync>>
        /\ sync.pc = "idle" /\ TypeOK /\ lock' = "edit"
    BY DEF StartEdit, files, IndInv, TypeOK
  <1>2. /\ edit' \in Edit /\ edit'.pc = pc /\ edit'.name = name
        /\ edit'.catalog = changed /\ pc # "idle"
    BY DEF StartEdit, Edit, Maybe
  <1>3. budget' \in [{"edits", "changes", "failures"} -> Nat]
    BY <1>1 DEF StartEdit, Spend, TypeOK
  <1>4. TypeOK'
    BY <1>1, <1>2, <1>3 DEF TypeOK
  <1>5. CopiesFaithful'
    BY <1>1, <1>2 DEF CopiesFaithful
  <1> QED
    BY <1>1, <1>4, <1>5 DEF IndInv, DefaultKnown

LEMMA EditsKeep ==
  ASSUME IndInv, Edits PROVE IndInv'
  <1>1. PICK p \in Profiles :
          \/ \E pin \in Pin : SaveProfile(p, pin)
          \/ \E auth \in Auths : SetSshAuthentication(p, auth)
          \/ RenewToken(p) \/ RemoveProfile(p) \/ SetDefaultProfile(p)
    BY DEF Edits
  <1>2. catalog \in Catalog /\ DefaultIn(catalog) /\ TypeOK /\ DefaultKnown
    BY DEF IndInv, TypeOK, DefaultKnown
  <1>3. p \in Known(catalog) => catalog.entries[p] \in Entry
    BY <1>2 DEF Catalog, Maybe, Known
  <1>4. None \in Maybe(Pin)
    BY DEF Maybe
  <1>5. ASSUME NEW pin \in Pin, SaveProfile(p, pin) PROVE IndInv'
    <2> DEFINE auth == IF catalog.entries[p] = None THEN "auto"
                       ELSE catalog.entries[p].auth
               entry == [endpoint |-> pin.endpoint, auth |-> auth]
    <2>1. entry \in Entry
      BY <1>2 DEF Catalog, Entry, Auths, Maybe, Pin
    <2>2. StartEdit("save", "token", p, pin, Upserted(p, entry)) /\ pin \in Maybe(Pin)
      BY <1>5 DEF SaveProfile, Maybe
    <2> HIDE DEF entry
    <2>3. Upserted(p, entry) \in Catalog /\ DefaultIn(Upserted(p, entry))
      BY <1>2, <2>1, UpsertedSound
    <2> QED
      BY <2>2, <2>3, StartEditKeeps
  <1>6. ASSUME NEW auth \in Auths, SetSshAuthentication(p, auth) PROVE IndInv'
    <2> DEFINE entry == [catalog.entries[p] EXCEPT !.auth = auth]
    <2>1. entry \in Entry
      BY <1>3, <1>6 DEF SetSshAuthentication, Entry
    <2>2. StartEdit("authenticate", "catalog", p, None, Upserted(p, entry))
      BY <1>6 DEF SetSshAuthentication
    <2> HIDE DEF entry
    <2>3. Upserted(p, entry) \in Catalog /\ DefaultIn(Upserted(p, entry))
      BY <1>2, <2>1, UpsertedSound
    <2> QED
      BY <1>4, <2>2, <2>3, StartEditKeeps
  <1>7. CASE RenewToken(p)
    BY <1>2, <1>4, <1>7, StartEditKeeps DEF RenewToken
  <1>8. CASE RemoveProfile(p)
    BY <1>2, <1>4, <1>8, WithoutSound, StartEditKeeps DEF RemoveProfile
  <1>9. CASE SetDefaultProfile(p)
    <2> DEFINE changed == [catalog EXCEPT !.default = p]
    <2>1. changed \in Catalog /\ changed.default = p /\ changed.entries = catalog.entries
      BY <1>2 DEF Catalog, Maybe
    <2>2. p \in Known(catalog)
          /\ StartEdit("default", "catalog", p, None, changed)
      BY <1>9 DEF SetDefaultProfile
    <2> HIDE DEF changed
    <2>3. DefaultIn(changed)
      BY <2>1, <2>2 DEF DefaultIn, Known
    <2> QED
      BY <1>4, <2>1, <2>2, <2>3, StartEditKeeps
  <1> QED
    BY <1>1, <1>5, <1>6, <1>7, <1>8, <1>9

LEMMA EditStepKeeps ==
  ASSUME IndInv, EditStep PROVE IndInv'
  <1>1. TypeOK /\ CopiesFaithful /\ DefaultKnown
    BY DEF IndInv
  <1>2. CASE EditToken \/ EditHostKeys
    <2>1. /\ UNCHANGED <<server, catalog, config, snapshot, lock, sync, budget>>
          /\ sync.pc = "idle" /\ edit.pc # "idle" /\ edit.name \in Profiles
          /\ DefaultIn(edit.catalog)
      BY <1>1, <1>2 DEF EditToken, EditHostKeys, CopiesFaithful
    <2>2. /\ edit' \in Edit /\ edit'.pc \in {"hostKeys", "catalog"}
          /\ edit'.name = edit.name /\ edit'.catalog = edit.catalog
      BY <1>1, <1>2 DEF EditToken, EditHostKeys, TypeOK, Edit
    <2>3. token' \in [Profiles -> BOOLEAN]
      BY <1>1, <1>2 DEF EditToken, EditHostKeys, TypeOK
    <2>4. pins' \in [Profiles -> Maybe(Pin)]
      BY <1>1, <1>2 DEF EditToken, EditHostKeys, TypeOK, Edit
    <2>5. TypeOK'
      BY <1>1, <2>1, <2>2, <2>3, <2>4 DEF TypeOK
    <2>6. CopiesFaithful'
      BY <1>1, <2>1, <2>2 DEF CopiesFaithful
    <2> QED
      BY <1>1, <2>1, <2>5, <2>6 DEF IndInv, DefaultKnown
  <1>3. CASE EditCatalog
    <2>1. catalog' \in Catalog /\ DefaultIn(catalog')
      BY <1>1, <1>3 DEF EditCatalog, TypeOK, CopiesFaithful, Edit
    <2> QED
      BY <1>1, <1>3, <2>1, AbortEditKeeps DEF EditCatalog, TypeOK
  <1> QED
    BY <1>2, <1>3 DEF EditStep

-----------------------------------------------------------------------------
(* Failures, the world, and the whole *)

LEMMA WorldKeeps ==
  ASSUME IndInv, World PROVE IndInv'
  <1>1. TypeOK /\ CopiesFaithful /\ DefaultKnown
    BY DEF IndInv
  <1>2. budget' \in [{"edits", "changes", "failures"} -> Nat]
    BY <1>1 DEF World, SyncFails, EditFails, ServerChanges, Spend, TypeOK
  <1>3. CASE SyncFails
    BY <1>1, <1>2, <1>3, AbortSyncKeeps DEF SyncFails, files, TypeOK, DefaultKnown
  <1>4. CASE EditFails
    BY <1>1, <1>2, <1>4, AbortEditKeeps DEF EditFails, files, TypeOK, DefaultKnown
  <1>5. ASSUME NEW p \in Profiles, NEW new \in Server, ServerChanges(p, new)
        PROVE  IndInv'
    <2>1. /\ UNCHANGED <<catalog, token, pins, config, snapshot, lock, sync, edit>>
          /\ server' \in [Profiles -> Server]
      BY <1>1, <1>5 DEF ServerChanges, files, TypeOK
    <2>2. TypeOK'
      BY <1>1, <1>2, <2>1 DEF TypeOK
    <2>3. CopiesFaithful'
      BY <1>1, <2>1 DEF CopiesFaithful, RenderedFrom, Current
    <2> QED
      BY <1>1, <2>1, <2>2, <2>3 DEF IndInv, DefaultKnown
  <1> QED
    BY <1>3, <1>4, <1>5 DEF World

LEMMA StepInv == IndInv /\ [Next]_vars => IndInv'
  <1> SUFFICES ASSUME IndInv, [Next]_vars PROVE IndInv'
    OBVIOUS
  <1>1. CASE StartSync
    BY <1>1, StartSyncKeeps
  <1>2. CASE SyncStep
    BY <1>2, VerifyKeeps, ScanKeeps, WritePinKeeps, RenderKeeps, ListKeeps,
       WriteConfigKeeps, WriteSnapshotKeeps, WriteCatalogKeeps DEF SyncStep
  <1>3. CASE Edits
    BY <1>3, EditsKeep
  <1>4. CASE EditStep
    BY <1>4, EditStepKeeps
  <1>5. CASE World
    BY <1>5, WorldKeeps
  <1>6. CASE UNCHANGED vars
    BY <1>6 DEF IndInv, TypeOK, CopiesFaithful, DefaultKnown, RenderedFrom,
                Current, vars, files
  <1> QED
    BY <1>1, <1>2, <1>3, <1>4, <1>5, <1>6 DEF Next

LEMMA Invariant == Spec => []IndInv
  BY InitInv, StepInv, PTL DEF Spec

-----------------------------------------------------------------------------
(* The types, and the lock is held exactly by the thread that is at work. *)
THEOREM Types == Spec => []TypeOK
  <1>1. IndInv => TypeOK
    BY DEF IndInv
  <1> QED
    BY <1>1, Invariant, PTL

(* Between reading the catalog and writing it, a thread's copy stays a     *)
(* faithful one. *)
THEOREM Copies == Spec => []CopiesFaithful
  <1>1. IndInv => CopiesFaithful
    BY DEF IndInv
  <1> QED
    BY <1>1, Invariant, PTL

(* After every change and every synchronization the default profile is one *)
(* of the profiles. *)
THEOREM Default == Spec => []DefaultKnown
  <1>1. IndInv => DefaultKnown
    BY DEF IndInv
  <1> QED
    BY <1>1, Invariant, PTL

-----------------------------------------------------------------------------
(* Which step writes what *)

LEMMA Writers ==
  ASSUME [Next]_vars
  PROVE  /\ config' # config => WriteConfig
         /\ catalog' # catalog => WriteCatalog \/ EditCatalog
         /\ pins' # pins => WritePin \/ EditHostKeys
  BY DEF Next, vars, files, StartSync, SyncStep, Verify, Scan, WritePin, Render, List,
         WriteConfig, WriteSnapshot, WriteCatalog, Edits, SaveProfile,
         SetSshAuthentication, RenewToken, RemoveProfile, SetDefaultProfile,
         StartEdit, EditStep, EditToken, EditHostKeys, EditCatalog, World,
         SyncFails, EditFails, ServerChanges

(* The managed SSH configuration is replaced only when every profile has   *)
(* answered, by one section for each, with the choices in the catalog.     *)
THEOREM Complete == Spec => NeverPartial
  <1> DEFINE Whole ==
        \A p \in Profiles :
          /\ config'[p] # None <=> catalog.entries[p] # None
          /\ config'[p] # None =>
               /\ config'[p].auth = catalog.entries[p].auth
               /\ config'[p].short = (catalog.default = p)
  <1>1. IndInv /\ [Next]_vars => [config' # config => Whole]_vars
    <2> SUFFICES ASSUME IndInv, [Next]_vars, config' # config PROVE Whole
      OBVIOUS
    <2>1. sync.pc = "config" /\ config' = sync.rendered
      BY Writers DEF WriteConfig
    <2>2. sync.todo = {} /\ RenderedFrom(catalog)
      BY <2>1 DEF IndInv, CopiesFaithful
    <2> QED
      BY <2>1, <2>2 DEF RenderedFrom, Known
  <1> QED
    BY <1>1, Invariant, PTL DEF Spec, NeverPartial

(* The last write of a synchronization takes back no choice of a user,     *)
(* although its copy of the catalog was read before all servers were asked.*)
THEOREM Kept == Spec => ChangesKept
  <1> DEFINE Same ==
        /\ catalog'.default = catalog.default
        /\ \A p \in Profiles :
             /\ catalog'.entries[p] = None <=> catalog.entries[p] = None
             /\ catalog.entries[p] # None =>
                  catalog'.entries[p].auth = catalog.entries[p].auth
  <1>1. IndInv /\ [Next]_vars => [catalog' # catalog /\ edit' = edit => Same]_vars
    <2> SUFFICES ASSUME IndInv, [Next]_vars, catalog' # catalog, edit' = edit
                 PROVE  Same
      OBVIOUS
    <2>1. ~EditCatalog
      BY DEF EditCatalog, AbortEdit, EditIdle
    <2>2. sync.pc = "catalog" /\ catalog' = sync.catalog
      BY <2>1, Writers DEF WriteCatalog
    <2>3. SameChoices(sync.catalog, catalog)
      BY <2>2 DEF IndInv, CopiesFaithful
    <2> QED
      BY <2>2, <2>3 DEF SameChoices
  <1> QED
    BY <1>1, Invariant, PTL DEF Spec, ChangesKept

(* A synchronization replaces a pin only by one with the approved key. *)
THEOREM Trusted == Spec => TrustKept
  <1> DEFINE Approved ==
        \A p \in Profiles :
          pins'[p] # pins[p] /\ edit' = edit =>
            /\ pins[p] # None /\ pins'[p] # None
            /\ pins'[p].key = pins[p].key
  <1>1. IndInv /\ [Next]_vars => [Approved]_vars
    <2> SUFFICES ASSUME IndInv, [Next]_vars, NEW p \in Profiles,
                        pins'[p] # pins[p], edit' = edit
                 PROVE  /\ pins[p] # None /\ pins'[p] # None
                        /\ pins'[p].key = pins[p].key
      OBVIOUS
    <2>1. TypeOK /\ CopiesFaithful
      BY DEF IndInv
    <2>2. ~EditHostKeys
      BY <2>1 DEF EditHostKeys, TypeOK, Edit
    <2>3. WritePin
      BY <2>2, Writers
    <2>4. sync.todo # {} /\ pins[Current] # None /\ pins[Current].key = sync.key
      BY <2>1, <2>3 DEF WritePin, CopiesFaithful
    <2>5. p = Current
      BY <2>1, <2>3 DEF WritePin, TypeOK
    <2>6. pins'[p] = [endpoint |-> sync.endpoint, key |-> sync.key]
      BY <2>1, <2>3, <2>5 DEF WritePin, TypeOK
    <2>7. pins'[p] # None
      <3>1. pins[p] \in Pin /\ sync.key \in Keys
        BY <2>1, <2>4, <2>5 DEF TypeOK, Maybe, Pin
      <3>2. sync.endpoint \in Endpoints
        BY <2>1, <2>3 DEF WritePin, CopiesFaithful, TypeOK, Sync, Maybe
      <3> QED
        BY <2>6, <3>1, <3>2, NoneApart DEF Pin
    <2> QED
      BY <2>4, <2>5, <2>6, <2>7
  <1> QED
    BY <1>1, Invariant, PTL DEF Spec, TrustKept

=============================================================================
