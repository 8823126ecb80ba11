-------------------------------- MODULE Idam --------------------------------
(***************************************************************************)
(* The IDAM crypto FFI (idam/src/ffi.rs, IdamCrypto) and the functions of  *)
(* crypto/src/idam.rs it calls: group keys generated, sealed to a peer,    *)
(* unsealed and stored, and group messages encrypted and decrypted.        *)
(*                                                                         *)
(* Keys are symbolic.  Group key k wrapped by the engine of user u is      *)
(* Wrap(u, k); only that engine can unwrap it.  A sealed group key records *)
(* the encryption key it was sealed to and the group id bound into it.  A  *)
(* ciphertext records its key, its context (command name, parent id,      *)
(* author's verifying key), its plaintext and its length in bytes.  A      *)
(* ciphertext reaches decrypt_message inside a received command, so it may *)
(* arrive cut to any shorter length.                                       *)
(***************************************************************************)
EXTENDS Naturals, Sequences, FiniteSets

CONSTANTS
    Users,        \* users; each owns one encryption and one signing key
    Groups,       \* group ids
    Parents,      \* parent command ids
    Commands,     \* command names (Context.label)
    Plaintexts,   \* plaintexts: [data, len]
    KeyStore,     \* KeyStore[u]: the encryption keys u's key store has secrets of
    Overhead,     \* AEAD overhead of a group key, in bytes
    BadBytes,     \* bytes that decode as no certificate and no wrapped key
    MaxKeys,      \* bound on generate_group_key
    MaxSent       \* bound on the sealed keys and messages sent

VARIABLES
    owner,     \* owner[k]: who generated group key k (history)
    facts,     \* facts[u]: the WrappedGroupKey values u stored
    sealed,    \* SealedGroupKey values sent: [to, key, group]
    msgs,      \* ciphertexts sent: [key, ctx, pt, len]
    last       \* the outcome of the last call

vars == <<owner, facts, sealed, msgs, last>>

Wrap(u, k) == [key |-> k, eng |-> u]

Certs == Users \cup {BadBytes}

TypeOK ==
    /\ owner \in Seq(Users) /\ Len(owner) <= MaxKeys
    /\ facts \in [Users -> SUBSET [key_id : 1 .. Len(owner),
                                   wrap : [key : 1 .. Len(owner), eng : Users]]]
    /\ sealed \subseteq [to : Users, key : 1 .. Len(owner), group : Groups]
    /\ \A m \in msgs : m.key \in 1 .. Len(owner) /\ m.pt \in Plaintexts
    /\ last.res \in {"none", "ok", "err", "panic"}

Init ==
    /\ owner = <<>>
    /\ facts = [u \in Users |-> {}]
    /\ sealed = {}
    /\ msgs = {}
    /\ last = [op |-> "none", res |-> "none"]

Wraps == UNION {{f.wrap : f \in facts[u]} : u \in Users} \cup {BadBytes}

-----------------------------------------------------------------------------
(* The engine and HPKE, from spec 4.G.                                     *)

\* eng.unwrap(postcard::from_bytes(wrap)): only u's engine opens its wraps.
Unwraps(u, w) == w # BadBytes /\ w.eng = u

\* key_store.get(KeyStoreSecret::Encrypt, pub_enc_key): v's key store has
\* the private key of pk, else KeyStoreError.
KeyStoreGet(v, pk) == pk \in KeyStore[v]

\* EncryptionKey::open_group_key(encap, ciphertext, group_id).
OpenGroupKey(priv, s, grp) == s.to = priv /\ s.group = grp

\* GroupKey::open(dst, ciphertext, ctx): the tag verifies only on the
\* whole ciphertext, sealed under this key and context, and dst must
\* hold the plaintext.
AeadOpens(k, dstLen, c, cut, ctx) ==
    /\ dstLen >= c.pt.len
    /\ cut = c.len /\ c.key = k /\ c.ctx = ctx

-----------------------------------------------------------------------------
(* crypto/src/idam.rs: each function as the result it returns.             *)

\* group_key_for_fact: the key's id and its wrap by u's engine.
GroupKeyForFact(u, k) == [key_id |-> k, wrap |-> Wrap(u, k)]

\* seal_group_key(wrap, peer_enc_key, group_id): unwrap_group_key, decode
\* the peer's certificate, then seal to it with the group id.
IdamSealGroupKey(u, w, peer, grp) ==
    IF Unwraps(u, w) /\ peer # BadBytes
    THEN [ok |-> TRUE, v |-> [to |-> peer, key |-> w.key, group |-> grp]]
    ELSE [ok |-> FALSE]

\* Mutant: the stored key id is the group id.
IdamUnsealGroupKeyGroupId(v, s, priv, grp) ==
    IF OpenGroupKey(priv, s, grp)
    THEN [ok |-> TRUE, v |-> [key_id |-> grp, wrap |-> Wrap(v, s.key)]]
    ELSE [ok |-> FALSE]

\* unseal_group_key(sealed, priv_enc_key, group_id): unwrap the private
\* key, open_group_key, group_key_for_fact.
IdamUnsealGroupKey(v, s, priv, grp) ==
    IF OpenGroupKey(priv, s, grp)
    THEN [ok |-> TRUE, v |-> GroupKeyForFact(v, s.key)]
    ELSE [ok |-> FALSE]

\* encrypt_message(wrap, plaintext, parent, pub_sign_key, command): dst
\* is plaintext.len() + overhead bytes, sealed under the context.
IdamEncryptMessage(u, w, pt, parent, signer, cmd) ==
    IF Unwraps(u, w) /\ signer # BadBytes
    THEN [ok |-> TRUE, v |-> [key |-> w.key, pt |-> pt, len |-> pt.len + Overhead,
                              ctx |-> [label |-> cmd, parent |-> parent, author |-> signer]]]
    ELSE [ok |-> FALSE]

\* Mutant: dst is one byte short of the plaintext.
IdamDecryptMessageShortDst(v, w, c, cut, parent, signer, cmd) ==
    LET ctx == [label |-> cmd, parent |-> parent, author |-> signer]
    IN  CASE ~Unwraps(v, w) -> "err"
          [] cut < Overhead -> "panic"
          [] signer # BadBytes /\ AeadOpens(w.key, cut - Overhead - 1, c, cut, ctx) -> "ok"
          [] OTHER -> "err"

\* decrypt_message(wrap, ciphertext, parent, peer_sign_key, command):
\* unwrap_group_key, then dst = vec![0; ciphertext.len() - overhead] (a
\* usize subtraction that panics when the ciphertext is shorter than the
\* overhead), decode the author's key, open: "ok", "err" or "panic".
IdamDecryptMessage(v, w, c, cut, parent, signer, cmd) ==
    LET ctx == [label |-> cmd, parent |-> parent, author |-> signer]
    IN  CASE ~Unwraps(v, w) -> "err"
          [] cut < Overhead -> "panic"
          [] signer # BadBytes /\ AeadOpens(w.key, cut - Overhead, c, cut, ctx) -> "ok"
          [] OTHER -> "err"

-----------------------------------------------------------------------------
(* The IdamCrypto methods of idam/src/ffi.rs, called by the policy.  A     *)
(* WrappedGroupKey returned to the policy is stored in its facts; a sealed *)
(* key or ciphertext returned goes out in a command.                       *)

\* generate_group_key: GroupKey::new, then group_key_for_fact.
GenerateGroupKey(u) ==
    /\ Len(owner) < MaxKeys
    /\ owner' = Append(owner, u)
    /\ facts' = [facts EXCEPT ![u] = @ \cup {GroupKeyForFact(u, Len(owner'))}]
    /\ last' = [op |-> "generate", res |-> "ok"]
    /\ UNCHANGED <<sealed, msgs>>

\* seal_group_key(group_key_wrap, peer_enc_key, group_id).
SealGroupKey(u, w, peer, grp) ==
    /\ Cardinality(sealed) + Cardinality(msgs) < MaxSent
    /\ LET r == IdamSealGroupKey(u, w, peer, grp)
       IN  IF r.ok
           THEN sealed' = sealed \cup {r.v} /\ last' = [op |-> "seal", res |-> "ok"]
           ELSE UNCHANGED sealed /\ last' = [op |-> "seal", res |-> "err"]
    /\ UNCHANGED <<owner, facts, msgs>>

UnsealGroupKey(v, s, pk, grp) ==
    /\ LET r == IdamUnsealGroupKey(v, s, pk, grp)
       IN  IF KeyStoreGet(v, pk) /\ r.ok
           THEN facts' = [facts EXCEPT ![v] = @ \cup {r.v}]
                /\ last' = [op |-> "unseal", res |-> "ok"]
           ELSE UNCHANGED facts /\ last' = [op |-> "unseal", res |-> "err"]
    /\ UNCHANGED <<owner, sealed, msgs>>

\* encrypt_message(plaintext, group_key_wrap, parent_id, pub_sign_key,
\* command): idam::encrypt_message with the wrap first and command.name.
EncryptMessage(u, w, pt, parent, signer, cmd) ==
    /\ Cardinality(sealed) + Cardinality(msgs) < MaxSent
    /\ LET r == IdamEncryptMessage(u, w, pt, parent, signer, cmd)
       IN  IF r.ok
           THEN msgs' = msgs \cup {r.v} /\ last' = [op |-> "encrypt", res |-> "ok"]
           ELSE UNCHANGED msgs /\ last' = [op |-> "encrypt", res |-> "err"]
    /\ UNCHANGED <<owner, facts, sealed>>

\* decrypt_message(ciphertext, group_key_wrap, parent_id, peer_sign_key,
\* command): idam::decrypt_message with the wrap first.
DecryptMessage(v, w, c, cut, parent, signer, cmd) ==
    /\ last' = IF ~Unwraps(v, w) THEN [op |-> "decrypt", res |-> "err"]
               ELSE [op |-> "decrypt", who |-> v, key |-> w.key, msg |-> c, cut |-> cut,
                     ctx |-> [label |-> cmd, parent |-> parent, author |-> signer],
                     res |-> IdamDecryptMessage(v, w, c, cut, parent, signer, cmd)]
    /\ UNCHANGED <<owner, facts, sealed, msgs>>

Next ==
    \/ \E u \in Users : GenerateGroupKey(u)
    \/ \E u \in Users, w \in Wraps, peer \in Certs, grp \in Groups :
          SealGroupKey(u, w, peer, grp)
    \/ \E v \in Users, s \in sealed, pk \in Users, grp \in Groups :
          UnsealGroupKey(v, s, pk, grp)
    \/ \E u \in Users, w \in Wraps, pt \in Plaintexts, parent \in Parents,
          signer \in Certs, cmd \in Commands :
          EncryptMessage(u, w, pt, parent, signer, cmd)
    \/ \E v \in Users, w \in Wraps, c \in msgs, parent \in Parents,
          signer \in Certs, cmd \in Commands :
          \E cut \in 0 .. c.len : DecryptMessage(v, w, c, cut, parent, signer, cmd)

Spec == Init /\ [][Next]_vars
-----------------------------------------------------------------------------

DecryptUntampered ==
    (last.op = "decrypt" /\ "msg" \in DOMAIN last
       /\ last.cut = last.msg.len /\ last.key = last.msg.key
       /\ last.ctx = last.msg.ctx)
        => last.res = "ok"

\* Spec 4.G: every crypto primitive that can fail returns an Error; a
\* malformed ciphertext is reported, never a crash of the caller.
DecryptNeverPanics == last.res # "panic"
====
