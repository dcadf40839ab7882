------------------------------ MODULE KeyStore ------------------------------
(***************************************************************************)
(* The key store of a context (core/src/keystore/mod.rs): identity, device *)
(* link, signed prekey, one-time prekeys and pinned peers, the bundles it  *)
(* makes of them, its image on disk, and the rotation loop of HybridRouter *)
(* (manager.rs) that renews the signed prekey.                             *)
(*                                                                         *)
(* An operation takes the store's lock for its whole run, so each is one   *)
(* step; the rotation loop takes it twice.  Key material is a number drawn *)
(* from a counter, so no two generated keys are equal.  Time is in units   *)
(* that divide the lives of both kinds of prekeys.                         *)
(***************************************************************************)
EXTENDS PreKeyBundle, FiniteSets

CONSTANTS
    SpkLife, OpkLife,   \* is_expired: 7 and 30 days
    MaxTime,            \* bound on the clock
    MaxIdentities,      \* bound on generate_identity
    MaxKeys,            \* bound on the prekeys generated
    MaxLoads            \* bound on restarts from the disk

ASSUME KeyStoreAssumption ==
    /\ {SpkLife, OpkLife, MaxTime, MaxIdentities, MaxKeys, MaxLoads, BundleLife} \subseteq Nat
    /\ SpkLife < OpkLife

VARIABLES
    ks,         \* the KeyStore
    disk,       \* the last image saved, or None
    time,       \* the system clock
    drawn,      \* how many identities and prekeys were generated, and loads
    rotation,   \* what the rotation loop is about to do
    advertised, \* <<id, key>> of the one-time prekeys in bundles (history)
    rolledBack, \* was an image older than the store loaded? (history)
    restored    \* keys that came out of an image (history)

ksvars == <<ks, disk, time, drawn, rotation, advertised, rolledBack, restored>>

Identity(n) == <<"ed25519", n>>
Root == <<"root", 0>>
Spk(n) == <<"spk", n>>
Pq(n) == <<"pq", n>>

\* Some(key) is not None.
ASSUME PqAssumption == \A n \in 0..MaxKeys : Pq(n) # None

Empty == [identity |-> None, link |-> None, spk |-> None, opks |-> <<>>, next |-> 1, pins |-> None]

\* The clock: created_at + 7 (or 30) days has passed.
SpkExpired(spk) == time > spk.born + SpkLife

Usable(id) == ~ks.opks[id].used /\ time <= ks.opks[id].born + OpkLife

UsableIds == {id \in DOMAIN ks.opks : Usable(id)}

-----------------------------------------------------------------------------
(* Identities and the device link *)

\* IdentityKeyPair::generate and set_identity.
GenerateIdentity ==
    /\ drawn.ids < MaxIdentities
    /\ drawn' = [drawn EXCEPT !.ids = @ + 1]
    /\ ks' = [ks EXCEPT !.identity = Identity(drawn.ids + 1)]
    /\ UNCHANGED <<disk, time, rotation, advertised, rolledBack, restored>>

\* load_identity: an identity the user kept the seed of.
LoadIdentity(n) ==
    /\ n \in 1..drawn.ids /\ ks.identity # Identity(n)
    /\ ks' = [ks EXCEPT !.identity = Identity(n)]
    /\ UNCHANGED <<disk, time, drawn, rotation, advertised, rolledBack, restored>>

\* set_device_link with a certificate of the master device for this identity.
SetDeviceLink ==
    /\ ks.identity # None /\ ks.link = None
    /\ ks' = [ks EXCEPT !.link = [device |-> 1, root |-> Root,
                                  sig |-> Sign(Root, DevicePayload(ks.identity, 1))]]
    /\ UNCHANGED <<disk, time, drawn, rotation, advertised, rolledBack, restored>>

-----------------------------------------------------------------------------
(* Prekeys *)

\* SignedPreKey::generate at the current time, under the current identity.
NewSpk(n) == [key |-> n, born |-> time, sig |-> Sign(ks.identity, SpkPayload(Spk(n)))]

\* generate_signed_prekey (and rotate_signed_prekey, which calls it): the one
\* before is gone.
GenerateSignedPrekey ==
    /\ ks.identity # None /\ drawn.keys < MaxKeys
    /\ drawn' = [drawn EXCEPT !.keys = @ + 1]
    /\ ks' = [ks EXCEPT !.spk = NewSpk(drawn.keys + 1)]

AppSignedPrekey ==
    /\ GenerateSignedPrekey
    /\ UNCHANGED <<disk, time, rotation, advertised, rolledBack, restored>>

\* OneTimePreKey::generate.
NewOpk(n) == [key |-> n, secret |-> TRUE, used |-> FALSE, born |-> time]

\* Mutant: ids follow the number of keys, so that pruned ones return.
GenerateOnetimePrekeys_FreeIds(n) ==
    LET base == Cardinality(DOMAIN ks.opks)
        new == (base + 1)..(base + n)
    IN /\ ks.identity # None /\ drawn.keys + n <= MaxKeys
       /\ drawn' = [drawn EXCEPT !.keys = @ + n]
       /\ ks' = [ks EXCEPT !.opks = [id \in new \cup DOMAIN ks.opks |->
              IF id \in new THEN NewOpk(drawn.keys + id - base) ELSE ks.opks[id]]]
       /\ UNCHANGED <<disk, time, rotation, advertised, rolledBack, restored>>

\* generate_onetime_prekeys: n keys with the next ids.
GenerateOnetimePrekeys(n) ==
    LET new == ks.next..(ks.next + n - 1)
    IN /\ ks.identity # None /\ drawn.keys + n <= MaxKeys
       /\ drawn' = [drawn EXCEPT !.keys = @ + n]
       /\ ks' = [ks EXCEPT
              !.next = @ + n,
              !.opks = [id \in new \cup DOMAIN ks.opks |->
                  IF id \in new THEN NewOpk(drawn.keys + id - ks.next + 1) ELSE ks.opks[id]]]
       /\ UNCHANGED <<disk, time, rotation, advertised, rolledBack, restored>>

\* replenish_onetime_prekeys: up to target once fewer than threshold are left.
Replenish(threshold, target) ==
    LET count == Cardinality(UsableIds)
    IN count < threshold /\ count < target /\ GenerateOnetimePrekeys(target - count)

\* Mutant: the secret goes, but the key is not marked.
MarkOnetimeUsed_StillOffered(id) ==
    /\ id \in DOMAIN ks.opks /\ ~ks.opks[id].used
    /\ ks' = [ks EXCEPT !.opks[id].secret = FALSE]
    /\ UNCHANGED <<disk, time, drawn, rotation, advertised, rolledBack, restored>>

\* mark_onetime_used: the secret goes.
MarkOnetimeUsed(id) ==
    /\ id \in DOMAIN ks.opks /\ ~ks.opks[id].used
    /\ ks' = [ks EXCEPT !.opks[id].used = TRUE, !.opks[id].secret = FALSE]
    /\ UNCHANGED <<disk, time, drawn, rotation, advertised, rolledBack, restored>>

\* prune_keys.
PruneKeys ==
    /\ ks' = [ks EXCEPT !.opks = [id \in UsableIds |-> ks.opks[id]],
                        !.spk = IF @ # None /\ SpkExpired(@) THEN None ELSE @]
    /\ ks' # ks
    /\ UNCHANGED <<disk, time, drawn, rotation, advertised, rolledBack, restored>>

\* Mutant: the link's certificate under the device's own name.
BundleOf_IgnoresLink(id) ==
    NewBundle(ks.identity, Spk(ks.spk.key), ks.spk.sig,
              IF id = None THEN None ELSE ks.opks[id].key, 0, ks.identity,
              IF ks.link = None THEN Sign(ks.identity, DevicePayload(ks.identity, 0))
                                ELSE ks.link.sig,
              Pq(ks.spk.key), time)

\* The bundle with one-time prekey id: with the link's certificate, or with one
\* that the identity makes itself.
BundleOf(id) ==
    LET linked == ks.link # None
    IN NewBundle(ks.identity, Spk(ks.spk.key), ks.spk.sig,
                 IF id = None THEN None ELSE ks.opks[id].key,
                 IF linked THEN ks.link.device ELSE 0,
                 IF linked THEN ks.link.root ELSE ks.identity,
                 IF linked THEN ks.link.sig ELSE Sign(ks.identity, DevicePayload(ks.identity, 0)),
                 Pq(ks.spk.key), time)

\* get_onetime_prekey_public: any that is usable, or none.
Offered == IF UsableIds = {} THEN {None} ELSE UsableIds

\* generate_prekey_bundle_bytes: the one-time prekey in it is not marked.
GeneratePrekeyBundle ==
    /\ ks.identity # None /\ ks.spk # None
    /\ \E id \in Offered \ {None} : advertised' = advertised \cup {<<id, BundleOf(id).onetime_prekey>>}
    /\ UNCHANGED <<ks, disk, time, drawn, rotation, rolledBack, restored>>

-----------------------------------------------------------------------------
(* The disk *)

\* What the image holds: one-time prekeys are written without their secrets.
Serialized(store) == [store EXCEPT !.opks = [id \in DOMAIN store.opks |->
                                        [store.opks[id] EXCEPT !.secret = FALSE]]]

\* save_to_disk: a temporary file, then a rename; it fails as a whole.
SaveToDisk ==
    /\ disk # Serialized(ks)
    /\ disk' = Serialized(ks)
    /\ UNCHANGED <<ks, time, drawn, rotation, advertised, rolledBack, restored>>

\* load_from_disk in a new process: the rotation loop starts afresh.
LoadFromDisk ==
    /\ disk # None /\ ks # disk /\ drawn.loads < MaxLoads
    /\ drawn' = [drawn EXCEPT !.loads = @ + 1]
    /\ ks' = disk
    /\ rolledBack' = (rolledBack \/ disk.next < ks.next)
    /\ restored' = restored \cup {disk.opks[id].key : id \in DOMAIN disk.opks}
    /\ rotation' = "sleep"
    /\ UNCHANGED <<disk, time, advertised>>

-----------------------------------------------------------------------------
(* The rotation loop: start_rotation_loop *)

\* Mutant: a store without a signed prekey is left alone.
RotationCheck_ExpiredOnly ==
    /\ rotation = "sleep"
    /\ IF ks.spk # None THEN SpkExpired(ks.spk) ELSE FALSE
    /\ rotation' = "rotate"
    /\ UNCHANGED <<ks, disk, time, drawn, advertised, rolledBack, restored>>

\* The check, under the read lock.
RotationCheck ==
    /\ rotation = "sleep"
    /\ IF ks.spk # None THEN SpkExpired(ks.spk) ELSE TRUE
    /\ rotation' = "rotate"
    /\ UNCHANGED <<ks, disk, time, drawn, advertised, rolledBack, restored>>

\* The rotation, under the write lock: whatever is there by now is replaced.
Rotate ==
    /\ rotation = "rotate" /\ GenerateSignedPrekey
    /\ rotation' = "sleep"
    /\ UNCHANGED <<disk, time, advertised, rolledBack, restored>>

\* Without an identity nothing is rotated.
RotateFails ==
    /\ rotation = "rotate" /\ ks.identity = None
    /\ rotation' = "sleep"
    /\ UNCHANGED <<ks, disk, time, drawn, advertised, rolledBack, restored>>

Tick ==
    /\ time < MaxTime
    /\ time' = time + 1
    /\ UNCHANGED <<ks, disk, drawn, rotation, advertised, rolledBack, restored>>

KeyStoreInit ==
    /\ disk = None /\ time = 0 /\ drawn = [ids |-> 0, keys |-> 0, loads |-> 0]
    /\ rotation = "sleep"
    /\ advertised = {} /\ rolledBack = FALSE /\ restored = {}

\* A new store, and one with an identity and a signed prekey.
Ready == [Empty EXCEPT !.identity = Identity(0),
                       !.spk = [key |-> 0, born |-> 0, sig |-> Sign(Identity(0), SpkPayload(Spk(0)))]]

DiskStep == SaveToDisk \/ LoadFromDisk \/ Tick

\* Operations on the identity and on what is signed with it.
SignedStep ==
    \/ GenerateIdentity \/ SetDeviceLink \/ AppSignedPrekey \/ PruneKeys
    \/ \E n \in 1..MaxIdentities : LoadIdentity(n)

\* Operations on one-time prekeys.
OnetimeStep ==
    \/ GenerateOnetimePrekeys(1) \/ Replenish(1, 2) \/ GeneratePrekeyBundle \/ PruneKeys
    \/ \E id \in 1..MaxKeys : MarkOnetimeUsed(id)

RotationStep == RotationCheck \/ Rotate \/ RotateFails

-----------------------------------------------------------------------------
(* Properties *)

\* An id names one key: two one-time prekeys that were advertised under one id
\* are the same, unless an image older than the store was loaded meanwhile
\* (generate_onetime_prekeys, prune_keys and load_from_disk).
OneKeyPerId ==
    rolledBack \/ \A a, b \in advertised : a[1] = b[1] => a[2] = b[2]

\* A one-time prekey that the store would still offer, but whose secret it does
\* not hold, came out of an image (the secrets are not serialized): a
\* handshake on it can fail only after a restart.
OfferedHasSecret ==
    \A id \in Offered \ {None} : ks.opks[id].secret \/ ks.opks[id].key \in restored

\* Every bundle the store makes passes its readers' checks, device link
\* included, as long as prekey and link were made under the present identity.
BundlesVerify ==
    (/\ ks.identity # None /\ ks.spk # None
     /\ ks.spk.sig.by = ks.identity
     /\ ks.link # None => ks.link.sig.over = DevicePayload(ks.identity, ks.link.device))
    => \A id \in Offered : FromBytes(BundleOf(id)) /\ Valid(BundleOf(id), time)

=============================================================================
