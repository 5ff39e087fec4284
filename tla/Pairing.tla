------------------------------ MODULE Pairing -------------------------------
(***************************************************************************)
(* src/lib/lib/pairing.c, fairplay_playfair.c and their handlers in        *)
(* raop_handlers.h: how a sender and the receiver come to the keys of a    *)
(* stream.  Pairing agrees on a secret, FairPlay on a message that hides   *)
(* an AES key; a SETUP copies both into the mirror session, and the SETUP  *)
(* of the stream derives the stream's key from the copies.                 *)
(*                                                                         *)
(* Cryptography is ideal: a secret is the pair of keys it was derived      *)
(* from, and what is decrypted or verified with another is garbage.        *)
(* Requests are handled one after the other, and the sender waits for each *)
(* answer, but it may begin, repeat or break off the exchanges as it likes.*)
(* A request that is refused without an answer changes nothing.            *)
(***************************************************************************)
EXTENDS Integers

CONSTANTS
  MaxKeys,    \* bounds the keys and messages that are made
  MaxSetups,  \* bounds the SETUPs with keys
  StreamId,   \* values of streamConnectionID
  None,       \* memory that calloc has cleared, and what the sender lacks
  Garbage     \* memory that nobody has written

ASSUME PairingAssumption ==
  /\ {MaxKeys, MaxSetups} \subseteq Nat
  /\ None # Garbage /\ {None, Garbage} \cap (1 .. MaxKeys) = {}

VARIABLES
  pairing,     \* the pairing session
  keymsg, keymsglen,   \* the FairPlay session
  session,     \* the mirror sessions by the number of their SETUP
  raop_rtp_mirror,     \* the one the connection points to, or 0
  setups,
  disconnect,  \* http_response_set_disconnect was called
  made,        \* keys and messages made so far
  sender,      \* what the sender holds: [secret, keymsg], None until it has it
  answer       \* history: the last answer to the first message of pair-verify

fairplay == <<keymsg, keymsglen>>
mirrors  == <<session, raop_rtp_mirror, setups>>
keysVars == <<pairing, fairplay, mirrors, disconnect, made, sender, answer>>

Setups == 1 .. MaxSetups
NoSession == [aeskey |-> None, ecdh_secret |-> None, cipher |-> None,
              sent |-> None, streaming |-> None]

KeysInit ==
  /\ pairing = [status |-> "INITIAL", ours |-> None, theirs |-> None, secret |-> None]
  /\ keymsg = None /\ keymsglen = 0
  /\ session = [n \in Setups |-> NoSession] /\ raop_rtp_mirror = 0 /\ setups = 0
  /\ disconnect = FALSE /\ made = 0
  /\ sender = [secret |-> None, keymsg |-> None]
  /\ answer = [to |-> None, key |-> None, signature |-> None]

Open == ~disconnect
Fresh(k) == k = made + 1 /\ k <= MaxKeys /\ made' = k

-----------------------------------------------------------------------------
(* POST /pair-setup and /pair-verify                                       *)

PairSetup ==
  /\ Open
  /\ pairing' = [pairing EXCEPT !.status = "SETUP"]
  /\ UNCHANGED <<fairplay, mirrors, disconnect, made, sender, answer>>

AnyStatus            == TRUE      \* a mistake
CheckHandshakeStatus == pairing.status = "SETUP"

(* pairing_session_handshake, and what the answer is made of               *)
Handshake(ours, theirs) ==
  IF pairing.status = "FINISHED" THEN pairing
  ELSE [status |-> "HANDSHAKE", ours |-> ours, theirs |-> theirs, secret |-> <<ours, theirs>>]
PublicKey(p) == IF p.status = "HANDSHAKE" THEN p.ours ELSE Garbage
Signature(p) ==
  IF p.status = "HANDSHAKE" THEN [of |-> <<p.ours, p.theirs>>, by |-> p.secret] ELSE Garbage

(* The sender's test of the answer to its key                              *)
Signed(key, theirs) == [of |-> <<key, theirs>>, by |-> <<key, theirs>>]
Genuine(a) == a.signature = Signed(a.key, a.to)

(* The first message of pair-verify has a new key of the sender.  A sender *)
(* that finds the answer wrong goes away.                                  *)
PairVerifyKey ==
  /\ Open /\ CheckHandshakeStatus
  /\ \E k \in 1 .. MaxKeys :
       /\ Fresh(k)
       /\ pairing' = Handshake(k, k)
       /\ answer' = [to |-> k, key |-> PublicKey(pairing'), signature |-> Signature(pairing')]
  /\ IF Genuine(answer')
       THEN /\ sender' = [sender EXCEPT !.secret = <<answer'.key, answer'.to>>]
            /\ UNCHANGED disconnect
       ELSE disconnect' = TRUE /\ UNCHANGED sender
  /\ UNCHANGED <<fairplay, mirrors>>

(* The second has the sender's signature: pairing_session_finish.          *)
PairVerifySignature ==
  /\ Open /\ CheckHandshakeStatus
  /\ IF pairing.status = "HANDSHAKE" /\ sender.secret = pairing.secret
       THEN /\ pairing' = [pairing EXCEPT !.status = "FINISHED"]
            /\ UNCHANGED disconnect
       ELSE disconnect' = TRUE /\ UNCHANGED pairing
  /\ UNCHANGED <<fairplay, mirrors, made, sender, answer>>

-----------------------------------------------------------------------------
(* POST /fp-setup.  A message of another version has no answer.            *)

FairplaySetup ==
  /\ Open
  /\ keymsglen' = 0 /\ sender' = [sender EXCEPT !.keymsg = None]
  /\ UNCHANGED <<keymsg, pairing, mirrors, disconnect, made, answer>>

(* The message is kept, and answered, if its version is right.  (A         *)
(* mistake: it is kept before it is tested.)                               *)
KeptAtOnce(k, supported) == keymsg' = k /\ keymsglen' = 164
Kept(k, supported) == IF supported THEN keymsg' = k /\ keymsglen' = 164
                      ELSE UNCHANGED fairplay

FairplayHandshake ==
  /\ Open
  /\ \E k \in 1 .. MaxKeys, supported \in BOOLEAN :
       /\ Fresh(k)
       /\ Kept(k, supported)
       /\ IF supported THEN sender' = [sender EXCEPT !.keymsg = k] ELSE UNCHANGED sender
  /\ UNCHANGED <<pairing, mirrors, disconnect, answer>>

-----------------------------------------------------------------------------
(* SETUP and TEARDOWN                                                      *)

(* fairplay_decrypt, whose failure the handler does not look at: aeskey    *)
(* stays as the stack was.                                                 *)
Decrypted(ekey) == IF keymsglen = 164 THEN <<keymsg, ekey>> ELSE Garbage

(* SETUP with ekey.  The sender has hidden its key with the message it had *)
(* an answer to; without both exchanges it has nothing to encrypt with.    *)
Ready == sender.secret # None /\ sender.keymsg # None
SetupKeys ==
  /\ Open /\ setups < MaxSetups
  /\ setups' = setups + 1
  /\ raop_rtp_mirror' = setups'
  /\ session' = [session EXCEPT ![setups'] =
       [NoSession EXCEPT
          !.aeskey = Decrypted(setups'), !.ecdh_secret = pairing.secret,
          !.sent = IF Ready THEN <<<<sender.keymsg, setups'>>, sender.secret>> ELSE None]]
  /\ UNCHANGED <<pairing, fairplay, disconnect, made, sender, answer>>

(* mirror_buffer_init_aes; a mistake: the secret pairing has by now.       *)
CurrentKeys(n) == <<session[n].aeskey, pairing.secret>>
SessionKeys(n) == <<session[n].aeskey, session[n].ecdh_secret>>
StreamKey(n, id) == [keys |-> SessionKeys(n), id |-> id]

(* SETUP of a stream of type 110.  The sender uses the keys of its SETUP,  *)
(* and does not set a stream up again before it has torn it down.          *)
SetupStream ==
  /\ Open
  /\ LET n == raop_rtp_mirror
     IN IF n = 0 THEN disconnect' = TRUE /\ UNCHANGED session
        ELSE /\ session[n].streaming = None
             /\ \E id \in StreamId :
                  session' = [session EXCEPT ![n].cipher = StreamKey(n, id),
                                             ![n].streaming = [keys |-> session[n].sent, id |-> id]]
             /\ UNCHANGED disconnect
  /\ UNCHANGED <<pairing, fairplay, raop_rtp_mirror, setups, made, sender, answer>>

Teardown ==
  /\ Open /\ raop_rtp_mirror # 0
  /\ session' = [session EXCEPT ![raop_rtp_mirror] = NoSession]
  /\ raop_rtp_mirror' = 0
  /\ UNCHANGED <<pairing, fairplay, setups, disconnect, made, sender, answer>>

KeysNext ==
  \/ PairSetup \/ PairVerifyKey \/ PairVerifySignature
  \/ FairplaySetup \/ FairplayHandshake
  \/ SetupKeys \/ SetupStream \/ Teardown

KeysSpec == KeysInit /\ [][KeysNext]_keysVars

-----------------------------------------------------------------------------
(* Every variable has its type: a secret is the pair of keys it comes from,*)
(* an AES key the message that hides it and the SETUP that brings it.      *)
Key    == 1 .. MaxKeys
Secret == Key \X Key
AesKey == Key \X Setups
Session ==
  [aeskey : AesKey \cup {None, Garbage}, ecdh_secret : Secret \cup {None},
   sent : (AesKey \X Secret) \cup {None},
   cipher : [keys : (AesKey \cup {None, Garbage}) \X (Secret \cup {None}),
             id : StreamId] \cup {None},
   streaming : [keys : (AesKey \X Secret) \cup {None}, id : StreamId] \cup {None}]
KeysTypeOK ==
  /\ pairing \in [status : {"INITIAL", "SETUP", "HANDSHAKE", "FINISHED"},
                  ours : Key \cup {None}, theirs : Key \cup {None},
                  secret : Secret \cup {None}]
  /\ keymsg \in Key \cup {None} /\ keymsglen \in {0, 164}
  /\ keymsglen = 164 => keymsg \in Key
  /\ session \in [Setups -> Session]
  /\ setups \in 0 .. MaxSetups /\ raop_rtp_mirror \in 0 .. setups
  /\ disconnect \in BOOLEAN /\ made \in 0 .. MaxKeys
  /\ sender \in [secret : Secret \cup {None}, keymsg : Key \cup {None}]
  /\ answer \in [to : Key \cup {None}, key : Key \cup {None, Garbage},
                 signature : [of : Secret, by : Secret] \cup {None, Garbage}]

(* An answer to the first message of pair-verify always has the key and    *)
(* the signature that this message calls for: the garbage that the handler *)
(* says it may send is never sent, whatever was exchanged before.          *)
AnswersGenuine == answer.to # None => Genuine(answer)

(* The receiver derives a stream's key from what the sender encrypts it    *)
(* with, if the sender had completed both exchanges at its SETUP: however  *)
(* often it repeated or broke off one before, in between or after, and     *)
(* whatever was refused.                                                   *)
StreamKeysAgree ==
  \A n \in Setups :
    LET s == session[n]
    IN s.streaming # None /\ s.sent # None => s.cipher = s.streaming
=============================================================================
