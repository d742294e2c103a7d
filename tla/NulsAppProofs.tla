--------------------------- MODULE NulsAppProofs ---------------------------
(***************************************************************************)
(* Theorems about NulsApp, for any set of keys, transactions and pieces:    *)
(* first for every host, whatever Liberties it takes, then for one that     *)
(* follows the protocol.                                                    *)
(***************************************************************************)
EXTENDS NulsApp, TLAPS

---------------------------------------------------------------------------
(* The channel, as the record the functions of ApduIo work on.              *)

Channel == [state : IoState, output : Reply \cup {NoReply},
            sent : Reply \cup {NoReply}, ret : {0, -1}]

\* A staged reply has been counted as the answer to its command.
Settled(ch) == ch.output # NoReply => ch.state = "READY"

\* The program stands where it waits for a command, or for the callback that
\* will send a reply.
Rested == site = "sync" \/ (site = "async" /\ ioState = "WAITING")

\* io_send_response keeps the channel well formed, and settles it.
LEMMA SendResponseSettles ==
  ASSUME NEW ch \in Channel, NEW r \in Reply
  PROVE  /\ SendResponse(ch, r) \in Channel
         /\ SendResponse(ch, r).state = "READY"
BY DEF Channel, SendResponse, IoState

\* The replies of the application are replies.
LEMMA RepliesAreReplies ==
  /\ \A e \in Errors \cup {"OK"} : Status(e) \in Reply
  /\ \A k \in Key \cup {NoKey} : KeyReply(k) \in Reply
  /\ \A k \in Key \cup {NoKey}, s \in Signature : SigReply(k, s) \in Reply
BY DEF Status, KeyReply, SigReply, Reply

\* The channel as a callback finds it, and as a handler does.
LEMMA ChannelAtRest ==
  ASSUME TypeOK, ChannelOK, NoReply \notin Reply
  PROVE  /\ Here \in Channel /\ Here.sent = NoReply
         /\ Woken \in Channel /\ Settled(Woken)
BY DEF TypeOK, ChannelOK, Here, Woken, Received, Channel, Settled, IoState

\* app_main comes back to io_recv_command.
LEMMA ResumeRests ==
  ASSUME NEW ch \in Channel, Settled(ch), ch.state # "WAITING", Resume(ch),
         TypeOK
  PROVE  /\ ioState' \in IoState
         /\ output' \in Reply \cup {NoReply}
         /\ site' \in {"sync", "async", "off"}
         /\ pending' \in Command \cup {NoCommand}
         /\ answer' \in [cmd : Command \cup {NoCommand},
                         reply : Reply \cup {NoReply}]
         /\ ChannelOK' /\ Rested'
BY DEF Rested, Resume, RecvCommand, SiteOf, Deliver, Channel, Settled, TypeOK,
       ChannelOK, IoState

\* main resets it.
LEMMA RestartRests ==
  ASSUME Restart, TypeOK
  PROVE  /\ ioState' \in IoState
         /\ output' \in Reply \cup {NoReply}
         /\ site' \in {"sync", "async", "off"}
         /\ context' \in Context /\ screen' = Menu /\ storage' \in Storage
         /\ ChannelOK' /\ Rested'
BY DEF Rested, Restart, TypeOK, ChannelOK, IoState, Storage, Initialise, ZeroContext,
       Context, Alg, Digest, ZeroDigest

LEMMA MenuIsScreen == Menu \in Screen
BY DEF Menu, Screen

\* A handler returns, with a context and a screen that are well formed.
LEMMA ReturnRests ==
  ASSUME NEW ch \in Channel, Settled(ch),
         NEW c \in Context, NEW s \in Screen,
         Return(ch, c, s), Take, TypeOK
  PROVE  TypeOK' /\ ChannelOK' /\ Rested'
<1>1. inbox' \in Command \cup {NoCommand} /\ sent' = sent
  BY DEF Take
<1>2. CASE Restart /\ UNCHANGED <<pending, answer>>
  BY <1>1, <1>2, RestartRests, MenuIsScreen DEF TypeOK
<1>3. CASE /\ ch.state # "WAITING"
           /\ Resume(ch) /\ context' = c /\ screen' = s /\ storage' = storage
  BY <1>1, <1>3, ResumeRests DEF TypeOK
<1>. QED  BY <1>2, <1>3 DEF Return

---------------------------------------------------------------------------
(* Contexts.                                                                *)

LEMMA ZeroIsContext == ZeroContext \in Context
BY DEF ZeroContext, Context, Alg, Digest, ZeroDigest

\* A context with one of its fields replaced.
LEMMA ContextWith ==
  ASSUME NEW c \in Context
  PROVE  /\ \A v \in {"CONFIRM_ADDRESS", "CONFIRM_TRANSACTION"} :
              [c EXCEPT !.req = v] \in Context
         /\ \A v \in {"STATE_NONE", "STATE_PARSED", "STATE_APPROVED"} :
              [c EXCEPT !.state = v] \in Context
         /\ \A v \in Key \cup {NoKey} : [c EXCEPT !.key = v] \in Context
         /\ \A v \in Alg : [c EXCEPT !.alg = v] \in Context
         /\ \A v \in Seq(Piece) : [c EXCEPT !.hashed = v] \in Context
         /\ \A v \in {"aligned", "done", "scrambled"} :
              [c EXCEPT !.parse = v] \in Context
         /\ \A v \in Nat : [c EXCEPT !.messageLen = v] \in Context
         /\ \A v \in Nat \cup {-1} : [c EXCEPT !.left = v] \in Context
         /\ \A v \in Digest : [c EXCEPT !.digest = v] \in Context
         /\ \A v \in Signature \cup {NoSig} : [c EXCEPT !.sig = v] \in Context
BY ZenonT(60) DEF Context

\* A session starts from, and goes on with, a well-formed context.
LEMMA SessionIsContext ==
  ASSUME TypeOK, inbox # NoCommand, NEW alg \in {"sha256", "keccak"},
         NEW ins \in Signing, Absorbs(ins)
  PROVE  Session(inbox, alg) \in Context
<1>1. inbox \in Command /\ context \in Context
  BY DEF TypeOK
<1>2. MaxLen \in Nat
  BY DataAssumption
<1>3. CASE inbox.p1 = 0
  <2>1. inbox.path \in Key /\ inbox.len \in Nat
    BY <1>1, <1>2, <1>3 DEF Absorbs, Command
  <2>2. alg \in Alg /\ (IF alg = "keccak" THEN inbox.len ELSE 0) \in Nat
    BY <2>1 DEF Alg
  <2>3. [ZeroContext EXCEPT !.req = "CONFIRM_TRANSACTION"] \in Context
    BY ZeroIsContext, ContextWith
  <2>4. [ZeroContext EXCEPT !.req = "CONFIRM_TRANSACTION", !.key = inbox.path,
                            !.alg = alg] \in Context
    BY <2>1, <2>2, <2>3, ContextWith
  <2>. QED
    BY <1>3, <2>2, <2>4, ContextWith DEF Session
<1>4. CASE inbox.p1 # 0
  BY <1>1, <1>4 DEF Session
<1>. QED  BY <1>3, <1>4

\* A chunk of data, hashed.
LEMMA HashIsContext ==
  ASSUME NEW c \in Context, NEW alg \in {"sha256", "keccak"},
         NEW data \in Chunk
  PROVE  Hash(c, alg, data) \in Context
<1>1. data \in Seq(Piece)
  <2>1. CASE data = <<>>
    BY <2>1
  <2>2. CASE \E q \in Piece : data = <<q>>
    BY <2>2
  <2>. QED  BY <2>1, <2>2 DEF Chunk
<1>2. c.hashed \o data \in Seq(Piece)
  BY <1>1 DEF Context
<1>3. (IF c.alg = alg THEN alg ELSE "mixed") \in Alg
  BY DEF Alg
<1>. QED  BY <1>2, <1>3, ContextWith DEF Hash

LEMMA ChunksAreContexts ==
  ASSUME TypeOK, inbox # NoCommand, NEW ins \in Signing, Absorbs(ins)
  PROVE  TxChunk \in Context /\ NsChunk \in Context
<1>1. inbox.data \in Chunk
  BY DEF TypeOK, Command
<1>2. TxChunk \in Context
  BY <1>1, SessionIsContext, HashIsContext DEF TxChunk
<1>3. Hash(Session(inbox, "keccak"), "keccak", inbox.data) \in Context
  BY <1>1, SessionIsContext, HashIsContext
<1>4. \A l \in Nat \cup {-1}, n \in Nat :
        (IF n > l THEN -1 ELSE l - n) \in Nat \cup {-1}
  OBVIOUS
<1>5. Session(inbox, "keccak").left \in Nat \cup {-1}
  BY SessionIsContext DEF Context
<1>6. Len(inbox.data) \in Nat
  BY <1>1 DEF Chunk
<1>7. \A d \in Context, l \in Nat \cup {-1} :
        [d EXCEPT !.parse = IF @ = "done" THEN @ ELSE "scrambled", !.left = l]
          \in Context
  BY ContextWith
<1>. QED  BY <1>2, <1>3, <1>4, <1>5, <1>6, <1>7 DEF NsChunk

---------------------------------------------------------------------------
(* The handlers.                                                            *)

\* A handler answers, with a context that is well formed.
LEMMA AnswerRests ==
  ASSUME TypeOK, ChannelOK, Take, NEW r \in Reply, NEW c \in Context,
         Answer(r, c)
  PROVE  TypeOK' /\ ChannelOK' /\ Rested'
<1>1. SendResponse(Woken, r) \in Channel /\ Settled(SendResponse(Woken, r))
  BY ChannelAtRest, SendResponseSettles, AbsenceAssumption DEF Settled
<1>2. screen \in Screen
  BY DEF TypeOK
<1>. QED  BY <1>1, <1>2, ReturnRests DEF Answer

\* A handler shows a screen instead.
LEMMA ShowRests ==
  ASSUME TypeOK, ChannelOK, Take, NEW s \in Screen, NEW c \in Context,
         Show(s, c)
  PROVE  TypeOK' /\ ChannelOK' /\ Rested'
BY ChannelAtRest, AbsenceAssumption, ReturnRests DEF Show

\* A handler has replied, and returns something else than io_send_response did.
LEMMA AnsweredRests ==
  ASSUME TypeOK, ChannelOK, Take, NEW r \in Reply, NEW c \in Context,
         NEW s \in Screen, NEW n \in {0, -1},
         Return([SendResponse(Woken, r) EXCEPT !.ret = n], c, s)
  PROVE  TypeOK' /\ ChannelOK' /\ Rested'
<1>1. SendResponse(Woken, r) \in Channel /\ SendResponse(Woken, r).state = "READY"
  BY ChannelAtRest, SendResponseSettles, AbsenceAssumption
<1>2. /\ [SendResponse(Woken, r) EXCEPT !.ret = n] \in Channel
      /\ [SendResponse(Woken, r) EXCEPT !.ret = n].state = "READY"
  BY <1>1 DEF Channel
<1>. QED  BY <1>2, ReturnRests DEF Settled

LEMMA ErrorsAreReplies == \A e \in Errors \cup {"OK"} : Status(e) \in Reply
BY RepliesAreReplies

LEMMA BadFrameRests ==
  ASSUME TypeOK, ChannelOK, BadFrame  PROVE  TypeOK' /\ ChannelOK' /\ Rested'
<1>1. Status("WRONG_DATA_LENGTH") \in Reply
  BY ErrorsAreReplies DEF Errors
<1>2. LET ch == SendResponse(Woken, Status("WRONG_DATA_LENGTH"))
      IN ch \in Channel /\ ch.state = "READY"
  BY <1>1, ChannelAtRest, SendResponseSettles, AbsenceAssumption
<1>3. Resume(SendResponse(Woken, Status("WRONG_DATA_LENGTH")))
  BY DEF BadFrame
<1>4. inbox' \in Command \cup {NoCommand} /\ sent' = sent
      /\ UNCHANGED <<context, screen, storage>>
  BY DEF BadFrame, Take
<1>. QED  BY <1>2, <1>3, <1>4, ResumeRests DEF Settled, TypeOK

LEMMA SimpleHandlersRest ==
  ASSUME TypeOK, ChannelOK, Refuse \/ GetVersion \/ BadState
  PROVE  TypeOK' /\ ChannelOK' /\ Rested'
<1>1. context \in Context
  BY DEF TypeOK
<1>2. Refusal(inbox) # "none" => Status(Refusal(inbox)) \in Reply
  BY ErrorsAreReplies DEF Refusal, Errors
<1>3. Status("OK") \in Reply /\ Status("BAD_STATE") \in Reply
  BY ErrorsAreReplies DEF Errors
<1>. QED  BY <1>1, <1>2, <1>3, AnswerRests DEF Refuse, GetVersion, BadState

LEMMA PathErrorIsReply == \A path \in Path : PathError(path) \in Reply
BY ErrorsAreReplies DEF PathError, Errors

LEMMA GetPublicKeyRests ==
  ASSUME TypeOK, ChannelOK, GetPublicKey  PROVE  TypeOK' /\ ChannelOK' /\ Rested'
<1>. DEFINE c == [ZeroContext EXCEPT !.key = inbox.path]
<1>1. Take /\ inbox.path \in Path /\ screen \in Screen
  BY DEF GetPublicKey, Take, TypeOK, Command
<1>2. CASE inbox.path \notin Key
  <2>1. Return([SendResponse(Woken, PathError(inbox.path)) EXCEPT !.ret = -1],
               ZeroContext, screen)
    BY <1>2 DEF GetPublicKey
  <2>. QED  BY <1>1, <2>1, PathErrorIsReply, ZeroIsContext, AnsweredRests
<1>3. CASE inbox.path \in Key
  <2>1. c \in Context /\ c.key = inbox.path
    BY <1>3, ZeroIsContext, ContextWith DEF ZeroContext
  <2>2. PubkeyReview \in Screen
    BY DEF Screen, PubkeyReview
  <2>3. KeyReply(c.key) \in Reply
    BY <1>3, <2>1, RepliesAreReplies
  <2>4. Show(PubkeyReview, c) \/ Answer(KeyReply(c.key), c)
    BY <1>3 DEF GetPublicKey
  <2>. HIDE DEF c
  <2>. QED  BY <1>1, <2>1, <2>2, <2>3, <2>4, AnswerRests, ShowRests
<1>. QED  BY <1>2, <1>3

LEMMA BadPathRests ==
  ASSUME TypeOK, ChannelOK, BadPath  PROVE  TypeOK' /\ ChannelOK' /\ Rested'
<1>1. Take /\ inbox.path \in Path /\ screen \in Screen
  BY DEF BadPath, Take, TypeOK, Command
<1>2. SendResponse(Woken, PathError(inbox.path)) \in Channel
  BY <1>1, PathErrorIsReply, ChannelAtRest, SendResponseSettles, AbsenceAssumption
<1>3. Status("TX_PARSING_FAIL") \in Reply
  BY ErrorsAreReplies DEF Errors
<1>4. LET ch == SendResponse(SendResponse(Woken, PathError(inbox.path)),
                             Status("TX_PARSING_FAIL"))
      IN ch \in Channel /\ ch.state = "READY" /\ Return(ch, ZeroContext, screen)
  BY <1>2, <1>3, SendResponseSettles DEF BadPath
<1>. QED  BY <1>1, <1>4, ZeroIsContext, ReturnRests DEF Settled

LEMMA SignTxRefusesRest ==
  ASSUME TypeOK, ChannelOK, SignTxTooLong \/ SignTxMore \/ SignTxFail
  PROVE  TypeOK' /\ ChannelOK' /\ Rested'
<1>1. /\ Status("WRONG_TX_LENGTH") \in Reply
      /\ Status("TX_PARSING_FAIL") \in Reply
      /\ Status("OK") \in Reply
  BY ErrorsAreReplies DEF Errors
<1>2. Absorbs("SIGN_TX") /\ inbox # NoCommand /\ Take
  BY DEF SignTxTooLong, SignTxMore, SignTxFail, Take
<1>3. context \in Context /\ TxChunk \in Context
  BY <1>2, ChunksAreContexts DEF Signing, TypeOK
<1>4. [TxChunk EXCEPT !.parse = IF @ = "done" THEN @ ELSE "scrambled"] \in Context
  BY <1>3, ContextWith
<1>. QED
  BY <1>1, <1>2, <1>3, <1>4, AnswerRests DEF SignTxTooLong, SignTxMore, SignTxFail

\* What the parser calls complete is a transaction.
LEMMA ParsedIsTx ==
  ASSUME NEW c, "OK" \in ParseStatus(c), NEW t \in ParsedTx(c)
  PROVE  t \in Tx
BY DEF ParseStatus, ParsedTx

\* The context once all of a transaction, or of a message, has been hashed.
LEMMA DigestIsContext ==
  ASSUME NEW c \in Context, NEW n \in Nat
  PROVE  [c EXCEPT !.state = "STATE_PARSED",
                   !.digest = [alg |-> c.alg, len |-> n, data |-> c.hashed]]
           \in Context
<1>1. [alg |-> c.alg, len |-> n, data |-> c.hashed] \in Digest
  BY DEF Context, Digest
<1>. QED  BY <1>1, ContextWith

LEMMA SignTxDoneRests ==
  ASSUME TypeOK, ChannelOK, SignTxDone  PROVE  TypeOK' /\ ChannelOK' /\ Rested'
<1>. DEFINE c == [TxChunk EXCEPT
                    !.state = "STATE_PARSED", !.parse = "done",
                    !.digest = [alg |-> TxChunk.alg, len |-> 0,
                                data |-> TxChunk.hashed]]
<1>1. Absorbs("SIGN_TX") /\ inbox # NoCommand /\ Take /\ screen \in Screen
  BY DEF SignTxDone, Take, TypeOK
<1>2. TxChunk \in Context
  BY <1>1, ChunksAreContexts DEF Signing
<1>3. c \in Context
  <2>1. [alg |-> TxChunk.alg, len |-> 0, data |-> TxChunk.hashed] \in Digest
    BY <1>2 DEF Context, Digest
  <2>. QED  BY <1>2, <2>1, ContextWith
<1>4. PICK t \in ParsedTx(TxChunk) :
        IF NotDisplayable(t)
        THEN Show([kind |-> "notBlind", tx |-> t], c)
        ELSE \/ Show([kind |-> "transaction", tx |-> t], c)
             \/ /\ t \in Unshowable
                /\ Throw(c, IF screen.kind \in {"pubkey", "transaction"}
                            THEN [kind |-> "transaction", tx |-> t]
                            ELSE screen)
  BY DEF SignTxDone
<1>5. t \in Tx
  BY <1>4, ParsedIsTx DEF SignTxDone
<1>6. /\ [kind |-> "notBlind", tx |-> t] \in Screen
      /\ [kind |-> "transaction", tx |-> t] \in Screen
  BY <1>5 DEF Screen
<1>7. Status("EXCEPTION") \in Reply
  BY ErrorsAreReplies DEF Errors
<1>. HIDE DEF c
<1>8. CASE Show([kind |-> "notBlind", tx |-> t], c)
  BY <1>1, <1>3, <1>6, <1>8, ShowRests
<1>9. CASE Show([kind |-> "transaction", tx |-> t], c)
  BY <1>1, <1>3, <1>6, <1>9, ShowRests
<1>10. CASE \E s \in Screen : Throw(c, s)
  BY <1>1, <1>3, <1>7, <1>10, AnsweredRests DEF Throw
<1>. QED  BY <1>1, <1>4, <1>6, <1>8, <1>9, <1>10

LEMMA SignNsRefusesRest ==
  ASSUME TypeOK, ChannelOK, SignNsRefuse \/ SignNsMore
  PROVE  TypeOK' /\ ChannelOK' /\ Rested'
<1>1. /\ Status("WRONG_TX_LENGTH") \in Reply
      /\ Status("TX_PARSING_FAIL") \in Reply
      /\ Status("OK") \in Reply
  BY ErrorsAreReplies DEF Errors
<1>2. Absorbs("SIGN_NS") /\ inbox # NoCommand /\ Take
  BY DEF SignNsRefuse, SignNsMore, Take
<1>3. NsChunk \in Context
  BY <1>2, ChunksAreContexts DEF Signing
<1>. QED  BY <1>1, <1>2, <1>3, AnswerRests DEF SignNsRefuse, SignNsMore

\* A signature is one, and the context that holds it a context.
LEMMA SignIsContext ==
  ASSUME NEW c \in Context
  PROVE  Sign(c) \in Context /\ Sign(c).sig \in Signature
<1>1. [key |-> c.key, digest |-> c.digest] \in Signature
  BY DEF Context, Signature
<1>2. Sign(c).sig = [key |-> c.key, digest |-> c.digest]
  BY DEF Sign, Context
<1>. QED  BY <1>1, <1>2, ContextWith DEF Sign

LEMMA SignNsDoneRests ==
  ASSUME TypeOK, ChannelOK, SignNsDone  PROVE  TypeOK' /\ ChannelOK' /\ Rested'
<1>. DEFINE c == [NsChunk EXCEPT
                    !.state = "STATE_PARSED",
                    !.digest = [alg |-> NsChunk.alg, len |-> NsChunk.messageLen,
                                data |-> NsChunk.hashed]]
<1>1. Absorbs("SIGN_NS") /\ inbox # NoCommand /\ Take /\ screen \in Screen
  BY DEF SignNsDone, Take, TypeOK
<1>2. NsChunk \in Context
  BY <1>1, ChunksAreContexts DEF Signing
<1>3. c \in Context
  <2>1. NsChunk.messageLen \in Nat
    BY <1>2 DEF Context
  <2>. QED  BY <1>2, <2>1, DigestIsContext
<1>4. \/ Return([SendResponse(Woken, SigReply(NoKey, Sign(c).sig))
                   EXCEPT !.ret = 0], Sign(c), screen)
      \/ Return([SendResponse(Woken, Status("SIGNATURE_FAIL"))
                   EXCEPT !.ret = 0], c, screen)
  BY DEF SignNsDone
<1>. HIDE DEF c
<1>5. SigReply(NoKey, Sign(c).sig) \in Reply /\ Status("SIGNATURE_FAIL") \in Reply
  BY <1>3, SignIsContext, RepliesAreReplies DEF Errors
<1>. QED  BY <1>1, <1>3, <1>4, <1>5, SignIsContext, AnsweredRests

\* Every handler leaves the channel at rest.
LEMMA HandleRests ==
  ASSUME TypeOK, ChannelOK, Handle  PROVE  TypeOK' /\ ChannelOK' /\ Rested'
BY BadFrameRests, SimpleHandlersRest, GetPublicKeyRests, BadPathRests,
   SignTxRefusesRest, SignTxDoneRests, SignNsRefusesRest, SignNsDoneRests
   DEF Handle

---------------------------------------------------------------------------
(* The user.                                                                *)

\* The inductive invariant.  ChannelOK needs the last conjunct: a callback
\* that ran while its reply had already been sent, or with the program left,
\* would stage a reply where none is sent.
ChannelInv == TypeOK /\ ChannelOK /\ (screen.kind \in Decision => Rested)

\* A callback replies on the channel as it finds it.
LEMMA CallbackRests ==
  ASSUME ChannelInv, NEW kind \in Decision, NEW r \in Reply, NEW c \in Context,
         Callback(kind, r, c)
  PROVE  ChannelInv'
<1>1. Rested /\ screen' = Menu /\ context' = c
      /\ UNCHANGED <<site, storage, inbox, sent>>
  BY DEF Callback, ChannelInv
<1>2. screen' \in Screen /\ screen'.kind \notin Decision
  BY <1>1 DEF Menu, Screen, Decision
<1>3. /\ ioState' = SendResponse(Here, r).state
      /\ output' = SendResponse(Here, r).output
      /\ Deliver(SendResponse(Here, r).sent)
  BY DEF Callback
<1>4. /\ ioState' \in IoState /\ output' \in Reply \cup {NoReply}
      /\ SendResponse(Here, r).sent \in Reply \cup {NoReply}
  <2>1. SendResponse(Here, r) \in Channel
    BY ChannelAtRest, SendResponseSettles, AbsenceAssumption DEF ChannelInv
  <2>. QED  BY <1>3, <2>1 DEF Channel
<1>5. /\ pending' \in Command \cup {NoCommand}
      /\ answer' \in [cmd : Command \cup {NoCommand}, reply : Reply \cup {NoReply}]
  BY <1>3, <1>4 DEF Deliver, ChannelInv, TypeOK
<1>6. ChannelOK'
  BY <1>1, <1>3 DEF ChannelInv, ChannelOK, TypeOK, Rested, Here, SendResponse, IoState
<1>. QED  BY <1>1, <1>2, <1>4, <1>5, <1>6 DEF ChannelInv, TypeOK

LEMMA DecideRests ==
  ASSUME ChannelInv, Decide  PROVE  ChannelInv'
<1>1. context \in Context /\ context.key \in Key \cup {NoKey}
  BY DEF ChannelInv, TypeOK, Context
<1>2. /\ KeyReply(context.key) \in Reply
      /\ Status("DENY") \in Reply /\ Status("NOT_SIGNATURE_FAIL") \in Reply
      /\ Status("SIGNATURE_FAIL") \in Reply
  BY <1>1, RepliesAreReplies DEF Errors
<1>3. CASE ApprovePubkey \/ RejectPubkey \/ DenyNotBlind
  BY <1>1, <1>2, <1>3, CallbackRests
     DEF ApprovePubkey, RejectPubkey, DenyNotBlind, Decision
<1>4. CASE RejectTx
  <2>1. [context EXCEPT !.state = "STATE_NONE"] \in Context
    BY <1>1, ContextWith
  <2>. QED  BY <1>2, <1>4, <2>1, CallbackRests DEF RejectTx, Decision
<1>5. CASE AcceptTx
  <2>. DEFINE c == [context EXCEPT !.state = "STATE_APPROVED"]
  <2>1. c \in Context
    BY <1>1, ContextWith
  <2>2. [c EXCEPT !.state = "STATE_NONE"] \in Context
    BY <2>1, ContextWith
  <2>3. \/ Callback("transaction", SigReply(c.key, Sign(c).sig), Sign(c))
        \/ Callback("transaction", Status("SIGNATURE_FAIL"),
                    [c EXCEPT !.state = "STATE_NONE"])
    BY <1>5 DEF AcceptTx
  <2>. HIDE DEF c
  <2>4. c.key \in Key \cup {NoKey}
    BY <2>1 DEF Context
  <2>5. SigReply(c.key, Sign(c).sig) \in Reply /\ Sign(c) \in Context
    BY <2>1, <2>4, SignIsContext, RepliesAreReplies
  <2>. QED  BY <1>2, <2>2, <2>3, <2>5, CallbackRests DEF Decision
<1>. QED  BY <1>3, <1>4, <1>5 DEF Decide

LEMMA PageThrowsRests ==
  ASSUME ChannelInv, PageThrows  PROVE  ChannelInv'
<1>1. Status("EXCEPTION") \in Reply
  BY ErrorsAreReplies DEF Errors
<1>2. LET ch == SendResponse(Here, Status("EXCEPTION"))
      IN ch \in Channel /\ ch.state = "READY" /\ Resume(ch)
  BY <1>1, ChannelAtRest, SendResponseSettles, AbsenceAssumption
     DEF PageThrows, ChannelInv
<1>3. UNCHANGED <<context, screen, storage, inbox, sent>>
  BY DEF PageThrows
<1>. QED  BY <1>2, <1>3, ResumeRests DEF Settled, ChannelInv, TypeOK

---------------------------------------------------------------------------
(* The theorems.                                                            *)

LEMMA ChannelInit == Init => ChannelInv
<1>. SUFFICES ASSUME Init  PROVE ChannelInv
  OBVIOUS
<1>1. context \in Context /\ screen \in Screen
  BY ZeroIsContext, MenuIsScreen DEF Init
<1>2. screen.kind \notin Decision
  BY DEF Init, Menu, Decision
<1>3. sent \in [path : Path \cup {NoKey}, len : 0 .. MaxLen, data : Seq(Piece)]
  BY DataAssumption DEF Init, NoSession
<1>. QED
  BY <1>1, <1>2, <1>3
     DEF Init, ChannelInv, TypeOK, ChannelOK, IoState, Storage, NoAnswer

\* What the host sends are commands.
LEMMA SendableIsCommand ==
  ASSUME TypeOK, NEW c \in Sendable
  PROVE  c \in Command
         /\ SentWith(c) \in [path : Path \cup {NoKey}, len : 0 .. MaxLen,
                             data : Seq(Piece)]
<1>1. Paths \subseteq Path /\ AnyKey \in Path
  BY DataAssumption DEF Paths, Path, AnyKey
<1>2. 0 \in 0 .. MaxLen
  BY DataAssumption
<1>3. \A ins \in Ins, p1 \in {0, 1}, more \in BOOLEAN, path \in Path,
         len \in 0 .. MaxLen, data \in Chunk :
        Cmd(ins, p1, more, path, len, data) \in Command
  BY DEF Cmd, Command
<1>4. <<>> \in Chunk /\ Signing \subseteq Ins /\ "GET_CONFIGURATION" \in Ins
      /\ "GET_PUBLIC_KEY" \in Ins
  BY DEF Chunk, Signing, Ins
<1>5. FirstChunks \cup LaterChunks \cup OtherCommands \subseteq Command
  <2>1. FirstChunks \subseteq Command
    BY <1>1, <1>2, <1>3, <1>4 DEF FirstChunks, Signing
  <2>2. LaterChunks \subseteq Command
    BY <1>1, <1>2, <1>3, <1>4 DEF LaterChunks
  <2>3. OtherCommands \subseteq Command
    <3>1. Cmd("GET_CONFIGURATION", 0, FALSE, AnyKey, 0, <<>>) \in Command
      BY <1>1, <1>2, <1>3, <1>4
    <3>2. \A p1 \in {0, 1}, path \in Paths :
            Cmd("GET_PUBLIC_KEY", p1, FALSE, path, 0, <<>>) \in Command
      BY <1>1, <1>2, <1>3, <1>4
    <3>3. \A o \in OtherCommands :
            \/ o = Cmd("GET_CONFIGURATION", 0, FALSE, AnyKey, 0, <<>>)
            \/ \E p1 \in {0, 1}, path \in Paths :
                 o = Cmd("GET_PUBLIC_KEY", p1, FALSE, path, 0, <<>>)
      BY DEF OtherCommands, Cmd
    <3>. QED  BY <3>1, <3>2, <3>3
  <2>. QED  BY <2>1, <2>2, <2>3
<1>6. DefectiveCommands \subseteq Command
  <2>. DEFINE q == Cmd("SIGN_TX", 1, TRUE, AnyKey, 0, <<>>)
  <2>1. q \in Command
    BY <1>1, <1>2, <1>3, <1>4 DEF Signing
  <2>2. \A d \in Defect : [q EXCEPT !.defects = {d}] \in Command
    <3>. HIDE DEF q
    <3>. QED  BY <2>1 DEF Command
  <2>. QED  BY <2>2 DEF DefectiveCommands
<1>7. c \in Command
  BY <1>5, <1>6 DEF Sendable
<1>8. c.data \in Seq(Piece) /\ c.path \in Path /\ c.len \in 0 .. MaxLen
  <2>1. c.data = <<>> \/ \E q \in Piece : c.data = <<q>>
    BY <1>7 DEF Command, Chunk
  <2>2. c.data \in Seq(Piece)
    <3>1. CASE c.data = <<>>
      BY <3>1
    <3>2. CASE \E q \in Piece : c.data = <<q>>
      BY <3>2
    <3>. QED  BY <2>1, <3>1, <3>2
  <2>. QED  BY <1>7, <2>2 DEF Command
<1>9. sent.data \o c.data \in Seq(Piece)
  BY <1>8 DEF TypeOK
<1>10. NoSession \in [path : Path \cup {NoKey}, len : 0 .. MaxLen, data : Seq(Piece)]
  BY <1>2 DEF NoSession
<1>11. [sent EXCEPT !.data = @ \o c.data]
         \in [path : Path \cup {NoKey}, len : 0 .. MaxLen, data : Seq(Piece)]
  BY <1>9 DEF TypeOK
<1>. QED  BY <1>7, <1>8, <1>10, <1>11 DEF SentWith

\* The menu, the settings, the system and the host.
LEMMA OthersRest ==
  ASSUME ChannelInv,
         OpenSettings \/ CloseSettings \/ SwitchBlindSigning \/ System \/ Host
  PROVE  ChannelInv'
<1>1. [Menu EXCEPT !.kind = "settings"] \in Screen
      /\ [Menu EXCEPT !.kind = "settings"].kind \notin Decision
      /\ Menu \in Screen /\ Menu.kind \notin Decision
  BY DEF Menu, Screen, Decision
<1>2. CASE OpenSettings
  BY <1>1, <1>2 DEF OpenSettings, ChannelInv, TypeOK, ChannelOK, Rested, io, host
<1>3. CASE CloseSettings
  BY <1>1, <1>3 DEF CloseSettings, ChannelInv, TypeOK, ChannelOK, Rested, io, host
<1>4. CASE SwitchBlindSigning
  BY ZenonT(60), <1>4 DEF SwitchBlindSigning, Storage, ChannelInv, TypeOK, ChannelOK,
              Rested, io, host
<1>5. NoSession \in [path : Path \cup {NoKey}, len : 0 .. MaxLen, data : Seq(Piece)]
      /\ NoAnswer \in [cmd : Command \cup {NoCommand}, reply : Reply \cup {NoReply}]
  BY DataAssumption DEF NoSession, NoAnswer
<1>6. CASE Launch \/ IoReset
  <2>1. Restart /\ Disconnect
    BY <1>6 DEF Launch, IoReset
  <2>2. TypeOK' /\ ChannelOK' /\ Rested'
    BY <1>1, <1>5, <2>1, RestartRests DEF Disconnect, ChannelInv, TypeOK
  <2>. QED  BY <2>2 DEF ChannelInv
<1>7. CASE Quit
  <2>1. screen' = screen /\ screen.kind = "menu"
    BY <1>7 DEF Quit
  <2>2. context' \in Context
    BY <1>7, ZeroIsContext DEF Quit
  <2>. QED
    BY <1>5, <1>7, <2>1, <2>2
       DEF Quit, Disconnect, ChannelInv, TypeOK, ChannelOK, IoState, Decision
<1>8. CASE GiveUp
  BY <1>5, <1>8 DEF GiveUp, ChannelInv, TypeOK, ChannelOK, Rested, io
<1>9. ASSUME NEW c \in Sendable, Send(c)  PROVE ChannelInv'
  <2>1. /\ pending' = c /\ inbox' = c /\ answer' = NoAnswer /\ sent' = SentWith(c)
        /\ UNCHANGED <<ioState, output, site, context, screen, storage>>
    BY <1>9 DEF Send, io
  <2>2. c \in Command
        /\ SentWith(c) \in [path : Path \cup {NoKey}, len : 0 .. MaxLen,
                            data : Seq(Piece)]
    BY SendableIsCommand DEF ChannelInv
  <2>. QED  BY <1>5, <2>1, <2>2 DEF ChannelInv, TypeOK, ChannelOK, Rested
<1>. QED  BY <1>2, <1>3, <1>4, <1>6, <1>7, <1>8, <1>9 DEF System, Host

LEMMA ChannelStep == ChannelInv /\ [Next]_vars => ChannelInv'
<1>. SUFFICES ASSUME ChannelInv, [Next]_vars  PROVE ChannelInv'
  OBVIOUS
<1>1. CASE Handle
  BY <1>1, HandleRests DEF ChannelInv
<1>2. CASE User
  BY <1>2, DecideRests, PageThrowsRests, OthersRest DEF User
<1>3. CASE System \/ Host
  BY <1>3, OthersRest
<1>4. CASE UNCHANGED vars
  BY <1>4 DEF vars, io, host, ChannelInv, TypeOK, ChannelOK, Rested
<1>. QED  BY <1>1, <1>2, <1>3, <1>4 DEF Next

\* The types, for every host (all of the modelled sources).
THEOREM TypeCorrect == Spec => []TypeOK
<1>1. ChannelInv => TypeOK
  BY DEF ChannelInv
<1>. QED  BY <1>1, ChannelInit, ChannelStep, PTL DEF Spec

\* The reply channel is sound for every host, even one that does not wait for
\* replies, or sends chunks at any time (io.c, app_main, validate.c).
THEOREM ChannelCorrect == Spec => []ChannelOK
<1>1. ChannelInv => ChannelOK
  BY DEF ChannelInv
<1>. QED  BY <1>1, ChannelInit, ChannelStep, PTL DEF Spec

\* A review of a transaction that cannot be displayed is open only while the
\* setting allows it, for every host (__init in bagl_display.c, menu_bagl.c).
THEOREM BlindSigningIsAllowed == Spec => []BlindNeedsSetting
<1>1. Init => BlindNeedsSetting
  BY DEF Init, BlindNeedsSetting, Menu
<1>2. ASSUME BlindNeedsSetting, [Next]_vars  PROVE BlindNeedsSetting'
  <2>1. ASSUME NEW ch, NEW c, NEW s, Return(ch, c, s),
               s.kind = "transaction" /\ s.tx \in Blind => storage.dataAllowed
        PROVE  BlindNeedsSetting'
    BY <2>1 DEF Return, Restart, BlindNeedsSetting, Menu
  <2>2. ASSUME NEW ch, NEW c, Return(ch, c, screen)
        PROVE  BlindNeedsSetting'
    BY <1>2, <2>1, <2>2 DEF BlindNeedsSetting
  <2>3. CASE SignTxDone
    <3>. DEFINE c == [TxChunk EXCEPT
                        !.state = "STATE_PARSED", !.parse = "done",
                        !.digest = [alg |-> TxChunk.alg, len |-> 0,
                                    data |-> TxChunk.hashed]]
    <3>1. PICK t \in ParsedTx(TxChunk) :
            IF NotDisplayable(t)
            THEN Show([kind |-> "notBlind", tx |-> t], c)
            ELSE \/ Show([kind |-> "transaction", tx |-> t], c)
                 \/ /\ t \in Unshowable
                    /\ Throw(c, IF screen.kind \in {"pubkey", "transaction"}
                                THEN [kind |-> "transaction", tx |-> t]
                                ELSE screen)
      BY <2>3 DEF SignTxDone
    <3>. HIDE DEF c
    <3>. QED  BY <1>2, <2>1, <2>2, <3>1 DEF Show, Throw, NotDisplayable
  <2>4. CASE GetPublicKey
    <3>1. PICK s \in {screen, PubkeyReview} :
            \E ch, c : Return(ch, c, s)
      BY <2>4 DEF GetPublicKey, Show, Answer
    <3>. QED  BY <2>1, <2>2, <3>1 DEF PubkeyReview
  <2>5. CASE BadFrame
    BY <1>2, <2>5 DEF BadFrame, BlindNeedsSetting
  <2>6. CASE \/ Refuse \/ GetVersion \/ BadPath \/ BadState
             \/ SignTxTooLong \/ SignTxMore \/ SignTxFail
             \/ SignNsRefuse \/ SignNsMore \/ SignNsDone
    <3>1. \E ch, c : Return(ch, c, screen)
      BY <2>6 DEF Refuse, GetVersion, BadPath, BadState, SignTxTooLong, SignTxMore,
                  SignTxFail, SignNsRefuse, SignNsMore, SignNsDone, Answer
    <3>. QED  BY <2>2, <3>1
  <2>7. CASE User
    BY <1>2, <2>7
       DEF User, Decide, ApprovePubkey, RejectPubkey, DenyNotBlind, AcceptTx,
           RejectTx, Callback, PageThrows, OpenSettings, CloseSettings,
           SwitchBlindSigning, Menu, BlindNeedsSetting
  <2>8. CASE System
    BY <2>8, <1>2 DEF System, Launch, IoReset, Restart, Quit, Menu, BlindNeedsSetting
  <2>9. CASE Host \/ UNCHANGED vars
    BY <1>2, <2>9 DEF Host, GiveUp, Send, vars, BlindNeedsSetting
  <2>. QED
    BY <1>2, <2>3, <2>4, <2>5, <2>6, <2>7, <2>8, <2>9 DEF Next, Handle
<1>. QED  BY <1>1, <1>2, PTL DEF Spec

\* Nothing but the user's choice in the settings, and the first start, changes
\* the setting (main.c, menu_bagl.c).
THEOREM SettingIsKept == Spec => SettingKept
<1>. DEFINE Kept == storage'.dataAllowed # storage.dataAllowed
                      => screen.kind = "settings" \/ ~storage.initialized
<1>1. ASSUME [Next]_vars  PROVE Kept
  <2>1. CASE Restart
    BY <2>1 DEF Restart, Initialise
  <2>2. ASSUME NEW ch, NEW c, NEW s, Return(ch, c, s)  PROVE Kept
    BY <2>1, <2>2 DEF Return
  <2>3. CASE SignTxDone
    <3>1. \E ch, c, s : Return(ch, c, s)
      BY <2>3, Zenon DEF SignTxDone, Show, Throw
    <3>. QED  BY <2>2, <3>1
  <2>4. CASE BadFrame
    BY <2>4 DEF BadFrame
  <2>5. CASE \/ Refuse \/ GetVersion \/ GetPublicKey \/ BadPath \/ BadState
             \/ SignTxTooLong \/ SignTxMore \/ SignTxFail
             \/ SignNsRefuse \/ SignNsMore \/ SignNsDone
    <3>1. \E ch, c, s : Return(ch, c, s)
      BY <2>5 DEF Refuse, GetVersion, GetPublicKey, BadPath, BadState,
                  SignTxTooLong, SignTxMore, SignTxFail, SignNsRefuse,
                  SignNsMore, SignNsDone, Answer, Show
    <3>. QED  BY <2>2, <3>1
  <2>6. CASE User
    BY <2>6
       DEF User, Decide, ApprovePubkey, RejectPubkey, DenyNotBlind, AcceptTx,
           RejectTx, Callback, PageThrows, OpenSettings, CloseSettings,
           SwitchBlindSigning
  <2>7. CASE System
    BY <2>1, <2>7 DEF System, Launch, IoReset, Quit
  <2>8. CASE Host \/ UNCHANGED vars
    BY <2>8 DEF Host, GiveUp, Send, vars
  <2>. QED
    BY <1>1, <2>3, <2>4, <2>5, <2>6, <2>7, <2>8 DEF Next, Handle
<1>. QED  BY <1>1, PTL DEF Spec, SettingKept

---------------------------------------------------------------------------
(* A host that follows the protocol, for any set of keys, pieces and        *)
(* transactions and sessions of any length: no command is forgotten, what   *)
(* is signed is what was sent and reviewed, and every step is one of        *)
(* ApduExchange.                                                            *)

\* The host keeps to the protocol, and every address can be displayed.
Disciplined == Liberties = {} /\ Unshowable = {}

---------------------------------------------------------------------------
(* The invariant.                                                           *)

\* The program is at rest where the screen says: in the asynchronous
\* io_exchange with a reply owed exactly if the user is being asked, and no
\* reply is ever left staged.
Quiet ==
  /\ output = NoReply
  /\ site = "sync" => ioState = "RECEIVED"
  /\ site = "async" =>
       ioState = IF screen.kind \in Decision THEN "WAITING" ELSE "READY"
  /\ screen.kind \in Decision => site = "async"
  /\ site = "off" => pending = NoCommand /\ inbox = NoCommand

\* A command that is owed its reply is one that can be handled.
Owed ==
  /\ inbox # NoCommand => inbox = pending
  /\ pending # NoCommand =>
       answer = NoAnswer /\ pending.defects = {} /\ pending.path \in Key

\* c is the context of the session ses of ins, after some of its chunks.
InSession(c, ins, ses) ==
  /\ c.req = "CONFIRM_TRANSACTION"
  /\ ses.path \in Key /\ c.key = ses.path
  /\ ins = "SIGN_TX" => c.alg = "sha256" /\ c.parse = "aligned"
  /\ ins = "SIGN_NS" =>
       /\ c.alg = "keccak" /\ c.messageLen = ses.len
       /\ c.left = ses.len - Len(c.hashed) /\ c.left >= 0

\* A chunk that has arrived starts a session, or goes on with the one in the
\* context.
Arrived ==
  inbox # NoCommand /\ inbox.ins \in Signing =>
    IF inbox.p1 = 0
    THEN sent = [path |-> inbox.path, len |-> inbox.len, data |-> inbox.data]
    ELSE /\ InSession(context, inbox.ins, sent)
         /\ sent.data = context.hashed \o inbox.data

\* Where the host may go on, the context has taken in what it sent.
Continued ==
  \A ins \in Signing :
    Continuing(ins) =>
      InSession(context, ins, sent) /\ sent.data = context.hashed

\* The screen s asks about command cmd, the last of session ses, and the
\* context c holds what the answer takes.
Asked(s, c, cmd, ses) ==
  /\ s.kind = "pubkey" =>
       cmd.ins = "GET_PUBLIC_KEY" /\ cmd.p1 = 1 /\ c.key = cmd.path
  /\ s.kind \in {"notBlind", "transaction"} => cmd.ins = "SIGN_TX"
  /\ s.kind = "transaction" =>
       /\ s.tx = ses.data /\ ses.data \in Tx
       /\ ses.path \in Key /\ c.key = ses.path
       /\ c.digest = [alg |-> "sha256", len |-> 0, data |-> ses.data]
       /\ c.state = "STATE_PARSED"

Protocol ==
  /\ Quiet /\ DecisionAwaited /\ Owed /\ Arrived /\ Continued
  /\ Asked(screen, context, pending, sent)

ProtocolInv == ChannelInv /\ Protocol

---------------------------------------------------------------------------
(* The contract speaks of the same commands and replies.                    *)

LEMMA SameCommands ==
  /\ Exchange!Command = Command /\ Exchange!Signing = Signing
  /\ \A c : Exchange!Framed(c) <=> Framed(c)
  /\ \A c : Exchange!Refusal(c) = Refusal(c)
  /\ Exchange!NoAnswer = NoAnswer
BY DEF Exchange!Command, Command, Exchange!Signing, Signing, Exchange!Framed,
       Framed, Exchange!Refusal, Refusal, Exchange!NoAnswer, NoAnswer,
       Exchange!Ins, Ins, Exchange!Path, Path, Exchange!Chunk, Chunk,
       Exchange!Defect, Defect

LEMMA SameReplies ==
  /\ Exchange!Errors = Errors
  /\ \A e : Exchange!Status(e) = Status(e)
  /\ \A k : Exchange!KeyReply(k) = KeyReply(k)
  /\ \A k, s : Exchange!SigReply(k, s) = SigReply(k, s)
BY DEF Exchange!Errors, Errors, Exchange!Status, Status, Exchange!KeyReply,
       KeyReply, Exchange!SigReply, SigReply

---------------------------------------------------------------------------
(* A handler returns.                                                       *)

LEMMA RepliesDiffer ==
  /\ NoReply \notin Reply
  /\ \A e \in Errors : Status(e) # Status("OK")
  /\ \A k \in Key, s \in Signature \cup {NoSig} :
       SigReply(k, s) # Status("OK") /\ KeyReply(k) # Status("OK")
  /\ \A k, s : s \in Signature => SigReply(k, s) # Status("OK")
BY AbsenceAssumption, DataAssumption DEF Errors, Status, SigReply, KeyReply

\* The channel as every handler finds it.
LEMMA WokenReceived ==
  ASSUME TypeOK, Protocol, inbox # NoCommand
  PROVE  /\ Woken = [state |-> "RECEIVED", output |-> NoReply, sent |-> NoReply,
                     ret |-> 0]
         /\ pending = inbox /\ screen.kind \notin Decision
BY DEF Protocol, Quiet, Owed, DecisionAwaited, TypeOK, Woken, Received, Here

\* It replies: the reply goes out at once, and the program waits for the next
\* command.
LEMMA Answered ==
  ASSUME TypeOK, Protocol, Take, NEW r, r # NoReply, NEW c,
         \/ Answer(r, c)
         \/ Return([SendResponse(Woken, r) EXCEPT !.ret = 0], c, screen)
  PROVE  /\ ioState' = "RECEIVED" /\ output' = NoReply /\ site' = "sync"
         /\ context' = c /\ screen' = screen
         /\ pending' = NoCommand /\ answer' = [cmd |-> pending, reply |-> r]
         /\ inbox' = NoCommand /\ sent' = sent
<1>. DEFINE ch == [state |-> "READY", output |-> r, sent |-> NoReply, ret |-> 0]
<1>1. Woken = [state |-> "RECEIVED", output |-> NoReply, sent |-> NoReply, ret |-> 0]
  BY WokenReceived DEF Take
<1>2. SendResponse(Woken, r) = ch
  BY <1>1 DEF SendResponse
<1>3. [ch EXCEPT !.ret = 0] = ch
  OBVIOUS
<1>4. Return(ch, c, screen)
  <2>. HIDE DEF ch
  <2>. QED  BY <1>2, <1>3 DEF Answer
<1>5. Resume(ch) /\ context' = c /\ screen' = screen
  BY <1>4 DEF Return
<1>. QED  BY <1>5 DEF Resume, RecvCommand, SiteOf, Deliver, Take

\* It opens a screen, and the reply is owed.
LEMMA Shown ==
  ASSUME TypeOK, Protocol, Take, NEW s, NEW c, Show(s, c)
  PROVE  /\ ioState' = "WAITING" /\ output' = NoReply /\ site' = "async"
         /\ context' = c /\ screen' = s
         /\ pending' = pending /\ answer' = answer
         /\ inbox' = NoCommand /\ sent' = sent
<1>. DEFINE ch == [state |-> "RECEIVED", output |-> NoReply, sent |-> NoReply,
                   ret |-> 0]
<1>1. Woken = ch
  BY WokenReceived DEF Take
<1>2. Return(ch, c, s)
  BY <1>1 DEF Show
<1>3. Resume(ch) /\ context' = c /\ screen' = s
  BY <1>2 DEF Return
<1>. QED  BY <1>3 DEF Resume, RecvCommand, SiteOf, Deliver, Take

---------------------------------------------------------------------------
(* What a handler does to the contract.                                     *)

exchange == <<pending, answer, sent>>
ExchangeStep == Exchange!GetReply \/ UNCHANGED exchange

\* From the context c to d nothing is signed but a personal message, and
\* nothing is approved.
Safe(c, d) ==
  /\ \/ d.sig \in {NoSig, c.sig}
     \/ /\ d.sig.digest.alg = "keccak"
        /\ d.sig.digest.len = Len(d.sig.digest.data)
  /\ d.state = "STATE_APPROVED" => c.state = "STATE_APPROVED"

Promise == Protocol' /\ ExchangeStep /\ Safe(context, context')

\* A reply that fits, with a context the host may go on with if it may go on.
LEMMA AnswerKeeps ==
  ASSUME TypeOK, Protocol, Take, NEW r, r \in Reply, NEW c,
         \/ Answer(r, c)
         \/ Return([SendResponse(Woken, r) EXCEPT !.ret = 0], c, screen),
         r \in Exchange!Fitting(inbox, sent), Safe(context, c),
         r = Status("OK") /\ inbox.ins \in Signing /\ inbox.more =>
           InSession(c, inbox.ins, sent) /\ sent.data = c.hashed
  PROVE  Promise
<1>1. /\ ioState' = "RECEIVED" /\ output' = NoReply /\ site' = "sync"
      /\ context' = c /\ screen' = screen
      /\ pending' = NoCommand /\ answer' = [cmd |-> pending, reply |-> r]
      /\ inbox' = NoCommand /\ sent' = sent
  BY Answered, RepliesDiffer
<1>2. pending = inbox /\ pending # NoCommand /\ screen.kind \notin Decision
  BY WokenReceived DEF Take
<1>3. Quiet' /\ DecisionAwaited' /\ Owed' /\ Arrived'
  BY <1>1, <1>2 DEF Quiet, DecisionAwaited, Owed, Arrived
<1>4. Continued'
  <2>1. ASSUME NEW ins \in Signing, Continuing(ins)'
        PROVE  r = Status("OK") /\ inbox.ins = ins /\ inbox.more
    BY <1>1, <1>2, <2>1 DEF Continuing
  <2>. QED  BY <1>1, <2>1 DEF Continued, InSession
<1>5. Asked(screen, context, pending, sent)'
  BY <1>1, <1>2 DEF Asked, Decision
<1>6. Exchange!GetReply
  BY <1>1, <1>2 DEF Exchange!GetReply
<1>. QED
  BY <1>1, <1>3, <1>4, <1>5, <1>6 DEF Promise, Protocol, ExchangeStep

\* A question about the command, with a context that holds what it is about.
LEMMA ShowKeeps ==
  ASSUME TypeOK, Protocol, Take, NEW s, NEW c, Show(s, c),
         s.kind \in Decision, Asked(s, c, inbox, sent), Safe(context, c)
  PROVE  Promise
<1>1. /\ ioState' = "WAITING" /\ output' = NoReply /\ site' = "async"
      /\ context' = c /\ screen' = s
      /\ pending' = pending /\ answer' = answer
      /\ inbox' = NoCommand /\ sent' = sent
  BY Shown
<1>2. /\ pending = inbox /\ pending # NoCommand /\ answer = NoAnswer
      /\ pending.defects = {} /\ pending.path \in Key
  BY WokenReceived DEF Take, Protocol, Owed
<1>3. Quiet' /\ DecisionAwaited' /\ Owed' /\ Arrived'
  BY <1>1, <1>2 DEF Quiet, DecisionAwaited, Owed, Arrived
<1>4. Continued'
  BY <1>1, <1>2 DEF Continued, Continuing
<1>5. Asked(screen, context, pending, sent)'
  BY <1>1, <1>2 DEF Asked
<1>. QED
  BY <1>1, <1>3, <1>4, <1>5 DEF Promise, Protocol, ExchangeStep, exchange

\* The commands of a host that keeps to the protocol pass all checks.
LEMMA InboxIsSound ==
  ASSUME TypeOK, Protocol, inbox # NoCommand
  PROVE  /\ inbox \in Command /\ pending = inbox
         /\ Framed(inbox) /\ Refusal(inbox) = "none" /\ inbox.path \in Key
BY DEF TypeOK, Protocol, Owed, Framed, Refusal

\* Replies that fit.
LEMMA ErrorFits ==
  ASSUME TypeOK, Protocol, inbox # NoCommand, inbox.ins \in Signing,
         NEW e \in Errors
  PROVE  /\ Status(e) \in Exchange!Fitting(inbox, sent) /\ Status(e) \in Reply
         /\ Status(e) # Status("OK")
<1>1. Status(e) \in Exchange!ErrorReplies
  BY SameReplies DEF Exchange!ErrorReplies
<1>2. inbox.ins = "SIGN_TX" \/ inbox.ins = "SIGN_NS"
  BY DEF Signing
<1>3. Framed(inbox) /\ Refusal(inbox) = "none"
  BY InboxIsSound
<1>. QED
  BY <1>1, <1>2, <1>3, SameCommands, ErrorsAreReplies, RepliesDiffer
     DEF Exchange!Fitting

LEMMA OkFits ==
  ASSUME TypeOK, Protocol, inbox # NoCommand,
         \/ inbox.ins \in Signing /\ inbox.more
         \/ inbox.ins = "GET_CONFIGURATION"
  PROVE  Status("OK") \in Exchange!Fitting(inbox, sent) /\ Status("OK") \in Reply
<1>1. inbox.ins \in {"SIGN_TX", "SIGN_NS", "GET_CONFIGURATION"}
  BY DEF Signing
<1>2. Framed(inbox) /\ Refusal(inbox) = "none"
  BY InboxIsSound
<1>. QED
  BY <1>1, <1>2, SameCommands, SameReplies, ErrorsAreReplies
     DEF Exchange!Fitting, Signing

---------------------------------------------------------------------------
(* The simple handlers.                                                     *)

LEMMA RefusalsDoNotHappen ==
  ASSUME TypeOK, Protocol, BadFrame \/ Refuse \/ BadPath
  PROVE  FALSE
BY InboxIsSound DEF BadFrame, Refuse, BadPath, Take

LEMMA VersionKeeps ==
  ASSUME TypeOK, Protocol, GetVersion  PROVE  Promise
<1>1. /\ Take /\ inbox # NoCommand /\ inbox.ins = "GET_CONFIGURATION"
      /\ inbox.ins \notin Signing
      /\ Answer(Status("OK"), context)
  BY DEF GetVersion, Take, Accepted, Signing
<1>2. Safe(context, context)
  BY DEF Safe
<1>. QED  BY <1>1, <1>2, OkFits, AnswerKeeps

LEMMA PublicKeyKeeps ==
  ASSUME TypeOK, Protocol, GetPublicKey  PROVE  Promise
<1>. DEFINE c == [ZeroContext EXCEPT !.key = inbox.path]
<1>1. /\ Take /\ inbox # NoCommand /\ inbox.ins = "GET_PUBLIC_KEY"
      /\ inbox.ins \notin Signing
  BY DEF GetPublicKey, Take, Accepted, Signing
<1>2. inbox.path \in Key /\ Framed(inbox) /\ Refusal(inbox) = "none"
  BY <1>1, InboxIsSound
<1>3. c.key = inbox.path /\ Safe(context, c)
  BY DEF ZeroContext, Safe
<1>4. \/ inbox.p1 = 1 /\ Show(PubkeyReview, c)
      \/ Answer(KeyReply(c.key), c)
  BY <1>2 DEF GetPublicKey
<1>. HIDE DEF c
<1>5. CASE inbox.p1 = 1 /\ Show(PubkeyReview, c)
  <2>1. PubkeyReview.kind \in Decision /\ Asked(PubkeyReview, c, inbox, sent)
    BY <1>1, <1>3, <1>5 DEF PubkeyReview, Decision, Asked
  <2>. QED  BY <1>1, <1>3, <1>5, <2>1, ShowKeeps
<1>6. CASE Answer(KeyReply(c.key), c)
  <2>1. KeyReply(c.key) \in Exchange!Fitting(inbox, sent)
    BY <1>1, <1>2, <1>3, SameCommands, SameReplies DEF Exchange!Fitting
  <2>2. KeyReply(c.key) \in Reply
    BY <1>2, <1>3, RepliesAreReplies
  <2>. QED  BY <1>1, <1>3, <1>6, <2>1, <2>2, AnswerKeeps
<1>. QED  BY <1>4, <1>5, <1>6

LEMMA BadStateKeeps ==
  ASSUME TypeOK, Protocol, BadState  PROVE  Promise
<1>1. /\ Take /\ inbox # NoCommand /\ inbox.ins \in Signing
      /\ Answer(Status("BAD_STATE"), context)
  BY DEF BadState, Take, Accepted
<1>2. Safe(context, context) /\ "BAD_STATE" \in Errors
  BY DEF Safe, Errors
<1>. QED  BY <1>1, <1>2, ErrorFits, AnswerKeeps

---------------------------------------------------------------------------
(* SIGN_TX.                                                                 *)

\* The context with the chunk, whatever the handler then does: the session is
\* that of the host, and nothing has been signed or approved.
LEMMA TxChunkFacts ==
  ASSUME TypeOK, Protocol, Take, Absorbs("SIGN_TX")
  PROVE  /\ inbox # NoCommand /\ inbox.ins = "SIGN_TX"
         /\ TxChunk \in Context /\ InSession(TxChunk, "SIGN_TX", sent)
         /\ sent.data = TxChunk.hashed /\ Safe(context, TxChunk)
<1>1. /\ inbox # NoCommand /\ inbox.ins = "SIGN_TX" /\ "SIGN_TX" \in Signing
      /\ context \in Context /\ inbox \in Command
  BY DEF Take, Absorbs, Accepted, Signing, TypeOK
<1>2. TxChunk \in Context
  BY <1>1, ChunksAreContexts
<1>3. CASE inbox.p1 = 0
  <2>. DEFINE c == [ZeroContext EXCEPT !.req = "CONFIRM_TRANSACTION",
                      !.key = inbox.path, !.alg = "sha256",
                      !.messageLen = 0, !.left = 0]
  <2>1. Session(inbox, "sha256") = c
    BY <1>3 DEF Session
  <2>2. /\ c.req = "CONFIRM_TRANSACTION" /\ c.key = inbox.path
        /\ c.alg = "sha256" /\ c.parse = "aligned" /\ c.hashed = <<>>
        /\ c.sig = NoSig /\ c.state = "STATE_NONE"
    BY DEF ZeroContext
  <2>3. c \in Context
    BY <1>1, <2>1, SessionIsContext
  <2>. HIDE DEF c
  <2>4. /\ TxChunk.req = "CONFIRM_TRANSACTION" /\ TxChunk.key = inbox.path
        /\ TxChunk.alg = "sha256" /\ TxChunk.parse = "aligned"
        /\ TxChunk.hashed = <<>> \o inbox.data
        /\ TxChunk.sig = NoSig /\ TxChunk.state = "STATE_NONE"
    BY <2>1, <2>2, <2>3 DEF TxChunk, Hash, Context
  <2>5. <<>> \o inbox.data = inbox.data
    <3>1. CASE inbox.data = <<>>
      BY <3>1
    <3>2. CASE \E q \in Piece : inbox.data = <<q>>
      BY <3>2
    <3>. QED  BY <1>1, <3>1, <3>2 DEF Command, Chunk
  <2>6. /\ sent.path = inbox.path /\ sent.data = inbox.data
        /\ inbox.path \in Key
    BY <1>1, <1>3 DEF Protocol, Arrived, Absorbs
  <2>. QED  BY <1>1, <1>2, <2>4, <2>5, <2>6 DEF InSession, Safe
<1>4. CASE inbox.p1 # 0
  <2>1. Session(inbox, "sha256") = context
    BY <1>4 DEF Session
  <2>2. /\ InSession(context, "SIGN_TX", sent)
        /\ sent.data = context.hashed \o inbox.data
    BY <1>1, <1>4 DEF Protocol, Arrived
  <2>3. /\ TxChunk.req = context.req /\ TxChunk.key = context.key
        /\ TxChunk.alg = "sha256" /\ TxChunk.parse = context.parse
        /\ TxChunk.hashed = context.hashed \o inbox.data
        /\ TxChunk.sig = context.sig /\ TxChunk.state = context.state
    BY <1>1, <2>1, <2>2 DEF TxChunk, Hash, Context, InSession
  <2>. QED  BY <1>1, <1>2, <2>2, <2>3 DEF InSession, Safe
<1>. QED  BY <1>3, <1>4

LEMMA TxChunkAnswers ==
  ASSUME TypeOK, Protocol, SignTxTooLong \/ SignTxMore \/ SignTxFail
  PROVE  Promise
<1>. DEFINE c == [TxChunk EXCEPT !.parse = IF @ = "done" THEN @ ELSE "scrambled"]
<1>1. Take /\ Absorbs("SIGN_TX")
  BY DEF SignTxTooLong, SignTxMore, SignTxFail
<1>2. /\ inbox # NoCommand /\ inbox.ins = "SIGN_TX" /\ inbox.ins \in Signing
      /\ TxChunk \in Context /\ InSession(TxChunk, inbox.ins, sent)
      /\ sent.data = TxChunk.hashed /\ Safe(context, TxChunk)
  BY <1>1, TxChunkFacts DEF Signing
<1>3. Safe(context, context) /\ Safe(context, c)
  BY <1>2 DEF Safe, Context
<1>. HIDE DEF c
<1>4. CASE SignTxTooLong
  <2>1. Answer(Status("WRONG_TX_LENGTH"), context) /\ "WRONG_TX_LENGTH" \in Errors
    BY <1>4 DEF SignTxTooLong, Errors
  <2>. QED  BY <1>1, <1>2, <1>3, <2>1, ErrorFits, AnswerKeeps
<1>5. CASE SignTxMore
  <2>1. Answer(Status("OK"), TxChunk) /\ inbox.more
    BY <1>5 DEF SignTxMore
  <2>. QED  BY <1>1, <1>2, <2>1, OkFits, AnswerKeeps
<1>6. CASE SignTxFail
  <2>1. Answer(Status("TX_PARSING_FAIL"), c) /\ "TX_PARSING_FAIL" \in Errors
    BY <1>6 DEF SignTxFail, Errors, c
  <2>. QED  BY <1>1, <1>2, <1>3, <2>1, ErrorFits, AnswerKeeps
<1>. QED  BY <1>4, <1>5, <1>6

\* The transaction on the screen is the one that was sent.
LEMMA SignTxDoneKeeps ==
  ASSUME TypeOK, Protocol, Disciplined, SignTxDone  PROVE  Promise
<1>. DEFINE c == [TxChunk EXCEPT
                    !.state = "STATE_PARSED", !.parse = "done",
                    !.digest = [alg |-> TxChunk.alg, len |-> 0,
                                data |-> TxChunk.hashed]]
<1>1. Take /\ Absorbs("SIGN_TX") /\ "OK" \in ParseStatus(TxChunk)
  BY DEF SignTxDone
<1>2. /\ inbox # NoCommand /\ inbox.ins = "SIGN_TX"
      /\ TxChunk \in Context /\ InSession(TxChunk, "SIGN_TX", sent)
      /\ sent.data = TxChunk.hashed /\ Safe(context, TxChunk)
  BY <1>1, TxChunkFacts
<1>3. /\ c.key = sent.path /\ sent.path \in Key /\ c.state = "STATE_PARSED"
      /\ c.digest = [alg |-> "sha256", len |-> 0, data |-> sent.data]
      /\ c.sig = TxChunk.sig
  BY <1>2 DEF InSession, Context
<1>4. PICK t \in ParsedTx(TxChunk) :
        IF NotDisplayable(t)
        THEN Show([kind |-> "notBlind", tx |-> t], c)
        ELSE \/ Show([kind |-> "transaction", tx |-> t], c)
             \/ /\ t \in Unshowable
                /\ Throw(c, IF screen.kind \in {"pubkey", "transaction"}
                            THEN [kind |-> "transaction", tx |-> t]
                            ELSE screen)
  BY DEF SignTxDone
<1>5. t = sent.data /\ t \in Tx /\ t \notin Unshowable
  BY <1>1, <1>2, <1>4, ParsedIsTx DEF ParsedTx, InSession, Disciplined
<1>. HIDE DEF c
<1>6. Safe(context, c)
  BY <1>2, <1>3 DEF Safe
<1>7. ASSUME NEW kind \in {"notBlind", "transaction"}, Show([kind |-> kind, tx |-> t], c)
      PROVE  Promise
  <2>1. Asked([kind |-> kind, tx |-> t], c, inbox, sent) /\ kind \in Decision
    BY <1>2, <1>3, <1>5 DEF Asked, Decision
  <2>. QED  BY <1>1, <1>6, <1>7, <2>1, ShowKeeps
<1>. QED  BY <1>4, <1>5, <1>7

---------------------------------------------------------------------------
(* SIGN_NS.                                                                 *)

LEMMA NsChunkFacts ==
  ASSUME TypeOK, Protocol, Take, Absorbs("SIGN_NS")
  PROVE  /\ inbox # NoCommand /\ inbox.ins = "SIGN_NS" /\ NsChunk \in Context
         /\ sent.data = NsChunk.hashed /\ Safe(context, NsChunk)
         /\ NsChunk.req = "CONFIRM_TRANSACTION"
         /\ sent.path \in Key /\ NsChunk.key = sent.path
         /\ NsChunk.alg = "keccak" /\ NsChunk.messageLen = sent.len
         /\ \/ NsChunk.left = -1
            \/ /\ NsChunk.left = sent.len - Len(NsChunk.hashed)
               /\ NsChunk.left >= 0
<1>1. /\ inbox # NoCommand /\ inbox.ins = "SIGN_NS" /\ "SIGN_NS" \in Signing
      /\ context \in Context /\ inbox \in Command
  BY DEF Take, Absorbs, Accepted, Signing, TypeOK
<1>2. NsChunk \in Context /\ Session(inbox, "keccak") \in Context
  BY <1>1, ChunksAreContexts, SessionIsContext
<1>3. inbox.data \in Seq(Piece) /\ <<>> \o inbox.data = inbox.data
  <2>1. CASE inbox.data = <<>>
    BY <2>1
  <2>2. CASE \E q \in Piece : inbox.data = <<q>>
    BY <2>2
  <2>. QED  BY <1>1, <2>1, <2>2 DEF Command, Chunk
<1>. DEFINE s == Session(inbox, "keccak")
            n == Len(inbox.data)
<1>4. /\ NsChunk.hashed = s.hashed \o inbox.data
      /\ NsChunk.alg = IF s.alg = "keccak" THEN "keccak" ELSE "mixed"
      /\ NsChunk.left = IF n > s.left THEN -1 ELSE s.left - n
      /\ NsChunk.req = s.req /\ NsChunk.key = s.key
      /\ NsChunk.messageLen = s.messageLen
      /\ NsChunk.sig = s.sig /\ NsChunk.state = s.state
  <2>. DEFINE h == Hash(s, "keccak", inbox.data)
              m == IF n > s.left THEN -1 ELSE s.left - n
              q == IF h.parse = "done" THEN h.parse ELSE "scrambled"
  <2>1. /\ h.hashed = s.hashed \o inbox.data
        /\ h.alg = IF s.alg = "keccak" THEN "keccak" ELSE "mixed"
        /\ h.req = s.req /\ h.key = s.key /\ h.messageLen = s.messageLen
        /\ h.sig = s.sig /\ h.state = s.state
    <3>1. s \in Context
      BY <1>2
    <3>. HIDE DEF s
    <3>. QED  BY <3>1 DEF Hash, Context
  <2>2. h \in Context
    BY <1>1, <1>2, HashIsContext DEF Command
  <2>3. NsChunk = [h EXCEPT !.parse = q, !.left = m]
    BY DEF NsChunk
  <2>. HIDE DEF h, m, q
  <2>4. /\ NsChunk.left = m
        /\ NsChunk.hashed = h.hashed /\ NsChunk.alg = h.alg
        /\ NsChunk.req = h.req /\ NsChunk.key = h.key
        /\ NsChunk.messageLen = h.messageLen
        /\ NsChunk.sig = h.sig /\ NsChunk.state = h.state
    BY <2>2, <2>3 DEF Context
  <2>. QED  BY <2>1, <2>4 DEF m
<1>5. /\ s.req = "CONFIRM_TRANSACTION" /\ sent.path \in Key /\ s.key = sent.path
      /\ s.alg = "keccak" /\ s.messageLen = sent.len
      /\ s.left = sent.len - Len(s.hashed) /\ s.left >= 0
      /\ sent.data = s.hashed \o inbox.data /\ s.hashed \in Seq(Piece)
      /\ Safe(context, s)
  <2>1. CASE inbox.p1 = 0
    <3>1. /\ sent.path = inbox.path /\ sent.data = inbox.data
          /\ sent.len = inbox.len /\ inbox.path \in Key
      BY <1>1, <2>1 DEF Protocol, Arrived, Absorbs
    <3>2. s = [ZeroContext EXCEPT !.req = "CONFIRM_TRANSACTION",
                 !.key = inbox.path, !.alg = "keccak",
                 !.messageLen = inbox.len, !.left = inbox.len]
      BY <2>1 DEF Session
    <3>3. /\ s.req = "CONFIRM_TRANSACTION" /\ s.key = inbox.path
          /\ s.alg = "keccak" /\ s.messageLen = inbox.len /\ s.left = inbox.len
          /\ s.hashed = <<>> /\ s.sig = NoSig /\ s.state = "STATE_NONE"
      BY ZenonT(60), <3>2 DEF ZeroContext
    <3>4. inbox.len \in Nat /\ Len(<<>>) = 0
      BY <1>1, DataAssumption DEF Command
    <3>. HIDE DEF s
    <3>. QED  BY <1>3, <3>1, <3>3, <3>4 DEF Safe
  <2>2. CASE inbox.p1 # 0
    <3>1. s = context
      BY <2>2 DEF Session
    <3>2. /\ InSession(context, "SIGN_NS", sent)
          /\ sent.data = context.hashed \o inbox.data
      BY <1>1, <2>2 DEF Protocol, Arrived
    <3>. QED  BY <1>1, <3>1, <3>2 DEF InSession, Safe, Context
  <2>. QED  BY <2>1, <2>2
<1>. HIDE DEF s
<1>6. Len(s.hashed \o inbox.data) = Len(s.hashed) + n /\ n \in Nat
  BY <1>3, <1>5
<1>7. s.left \in Int /\ sent.len \in Int /\ Len(s.hashed) \in Nat
  BY <1>5, DataAssumption DEF TypeOK
<1>8. \/ NsChunk.left = -1
      \/ /\ NsChunk.left = sent.len - Len(NsChunk.hashed) /\ NsChunk.left >= 0
  <2>. HIDE DEF n
  <2>. QED  BY <1>4, <1>5, <1>6, <1>7
<1>9. Safe(context, NsChunk)
  BY <1>4, <1>5 DEF Safe
<1>. QED  BY <1>1, <1>2, <1>4, <1>5, <1>8, <1>9

LEMMA NsChunkAnswers ==
  ASSUME TypeOK, Protocol, SignNsRefuse \/ SignNsMore  PROVE  Promise
<1>1. Take /\ Absorbs("SIGN_NS")
  BY DEF SignNsRefuse, SignNsMore
<1>2. /\ inbox # NoCommand /\ inbox.ins = "SIGN_NS" /\ inbox.ins \in Signing
      /\ NsChunk \in Context /\ Safe(context, NsChunk)
  BY <1>1, NsChunkFacts DEF Signing
<1>3. CASE SignNsRefuse
  <2>1. PICK e \in {"WRONG_TX_LENGTH", "TX_PARSING_FAIL"} : Answer(Status(e), NsChunk)
    BY <1>3 DEF SignNsRefuse
  <2>2. e \in Errors
    BY DEF Errors
  <2>. QED  BY <1>1, <1>2, <2>1, <2>2, ErrorFits, AnswerKeeps
<1>4. CASE SignNsMore
  <2>1. Answer(Status("OK"), NsChunk) /\ inbox.more /\ NsChunk.left # -1
    BY <1>1, <1>4, NsChunkFacts DEF SignNsMore, LengthVerdict
  <2>2. InSession(NsChunk, inbox.ins, sent) /\ sent.data = NsChunk.hashed
    BY <1>1, <2>1, NsChunkFacts DEF InSession
  <2>. QED  BY <1>1, <1>2, <2>1, <2>2, OkFits, AnswerKeeps
<1>. QED  BY <1>3, <1>4

\* The signature of a personal message is over what was sent, under the key of
\* the path that was named.
LEMMA SignNsDoneKeeps ==
  ASSUME TypeOK, Protocol, SignNsDone  PROVE  Promise
<1>. DEFINE c == [NsChunk EXCEPT
                    !.state = "STATE_PARSED",
                    !.digest = [alg |-> NsChunk.alg, len |-> NsChunk.messageLen,
                                data |-> NsChunk.hashed]]
            d == [alg |-> "keccak", len |-> sent.len, data |-> sent.data]
            r == SigReply(NoKey, [key |-> sent.path, digest |-> d])
<1>1. /\ Take /\ Absorbs("SIGN_NS") /\ ~inbox.more
      /\ "exact" \in LengthVerdict(NsChunk)
  BY DEF SignNsDone
<1>2. /\ inbox # NoCommand /\ inbox.ins = "SIGN_NS" /\ inbox.ins \in Signing
      /\ NsChunk \in Context /\ Safe(context, NsChunk)
      /\ sent.path \in Key /\ sent.data \in Seq(Piece) /\ sent.len \in Nat
  BY <1>1, NsChunkFacts, DataAssumption DEF Signing, TypeOK
<1>3. Len(sent.data) = sent.len
  <2>1. NsChunk.left = 0 /\ Len(sent.data) \in Nat
    BY <1>1, <1>2, NsChunkFacts DEF LengthVerdict
  <2>. QED  BY <1>1, <1>2, <2>1, NsChunkFacts
<1>4. /\ c.key = sent.path /\ c.digest = d /\ c.sig = NsChunk.sig
      /\ c.state = "STATE_PARSED" /\ c \in Context
  <2>1. c \in Context
    BY <1>2, DigestIsContext DEF Context
  <2>. QED  BY <1>1, <1>2, <2>1, NsChunkFacts DEF Context
<1>5. \/ Return([SendResponse(Woken, SigReply(NoKey, Sign(c).sig)) EXCEPT !.ret = 0],
                Sign(c), screen)
      \/ Return([SendResponse(Woken, Status("SIGNATURE_FAIL")) EXCEPT !.ret = 0],
                c, screen)
  BY DEF SignNsDone
<1>. HIDE DEF c
<1>6. Sign(c).sig = [key |-> sent.path, digest |-> d] /\ Sign(c).state = c.state
  BY <1>4 DEF Sign, Context
<1>7. Safe(context, c) /\ Safe(context, Sign(c))
  BY <1>2, <1>3, <1>4, <1>6 DEF Safe
<1>8. CASE Return([SendResponse(Woken, SigReply(NoKey, Sign(c).sig)) EXCEPT !.ret = 0],
                  Sign(c), screen)
  <2>1. [key |-> sent.path, digest |-> d] \in Signature
    BY <1>2 DEF Signature, Digest, Alg
  <2>2. r \in Reply /\ r # Status("OK")
    BY <2>1, RepliesAreReplies, RepliesDiffer
  <2>3. r \in Exchange!Fitting(inbox, sent)
    <3>1. r = Exchange!SigReply(NoKey, Exchange!Signed(sent.path,
                                  Exchange!NsDigest(sent.len, sent.data)))
      BY SameReplies DEF Exchange!Signed, Exchange!NsDigest
    <3>. HIDE DEF r
    <3>. QED
      BY <1>1, <1>2, <1>3, <3>1, InboxIsSound, SameCommands DEF Exchange!Fitting
  <2>. QED  BY <1>1, <1>6, <1>7, <1>8, <2>2, <2>3, AnswerKeeps
<1>9. CASE Return([SendResponse(Woken, Status("SIGNATURE_FAIL")) EXCEPT !.ret = 0],
                  c, screen)
  <2>1. "SIGNATURE_FAIL" \in Errors
    BY DEF Errors
  <2>. QED  BY <1>1, <1>2, <1>7, <1>9, <2>1, ErrorFits, AnswerKeeps
<1>. QED  BY <1>5, <1>8, <1>9

\* Every handler keeps the promise.
LEMMA HandleKeeps ==
  ASSUME TypeOK, Protocol, Disciplined, Handle  PROVE  Promise
BY RefusalsDoNotHappen, VersionKeeps, PublicKeyKeeps, BadStateKeeps,
   TxChunkAnswers, SignTxDoneKeeps, NsChunkAnswers, SignNsDoneKeeps DEF Handle

---------------------------------------------------------------------------
(* The user.                                                                *)

\* The two signatures of a step: those the user gives are of the transaction on
\* the screen, and it has been parsed.
Reviewed ==
  /\ context'.sig \in {NoSig, context.sig}
     \/ /\ context'.sig.digest.alg = "sha256"
        /\ context'.sig.digest.data = screen.tx
  /\ context'.state = "STATE_APPROVED" /\ context.state # "STATE_APPROVED"
       => context.state = "STATE_PARSED"

\* A callback sends the reply that is owed, at once, and shows the menu.
LEMMA CallbackKeeps ==
  ASSUME TypeOK, Protocol, NEW kind \in Decision, NEW r, r # NoReply, NEW c,
         Callback(kind, r, c), r \in Exchange!Fitting(pending, sent),
         r # Status("OK")
  PROVE  Protocol' /\ Exchange!GetReply
<1>1. /\ screen.kind = kind /\ site = "async" /\ ioState = "WAITING"
      /\ pending # NoCommand /\ inbox = NoCommand
  BY DEF Callback, Protocol, DecisionAwaited
<1>2. SendResponse(Here, r) =
        [state |-> "READY", output |-> NoReply, sent |-> r, ret |-> 0]
  BY <1>1 DEF SendResponse, Here
<1>3. /\ ioState' = "READY" /\ output' = NoReply /\ site' = site
      /\ pending' = NoCommand /\ answer' = [cmd |-> pending, reply |-> r]
      /\ context' = c /\ screen' = Menu /\ inbox' = inbox /\ sent' = sent
  BY <1>2 DEF Callback, Deliver
<1>4. Quiet' /\ DecisionAwaited' /\ Owed' /\ Arrived'
  BY <1>1, <1>3 DEF Quiet, DecisionAwaited, Owed, Arrived, Menu, Decision
<1>5. Continued' /\ Asked(screen, context, pending, sent)'
  BY <1>3 DEF Continued, Continuing, Asked, Menu
<1>6. Exchange!GetReply
  BY <1>1, <1>3 DEF Exchange!GetReply
<1>. QED  BY <1>4, <1>5, <1>6 DEF Protocol

LEMMA DecideKeeps ==
  ASSUME TypeOK, Protocol, Decide
  PROVE  Protocol' /\ Exchange!GetReply /\ Reviewed
<1>1. /\ context \in Context
      /\ \A e \in Errors : Status(e) # NoReply /\ Status(e) # Status("OK")
      /\ \A k \in Key : KeyReply(k) # NoReply /\ KeyReply(k) # Status("OK")
  BY RepliesAreReplies, RepliesDiffer DEF TypeOK
<1>2. \A k \in Decision : \A q, c : Callback(k, q, c) =>
        /\ screen.kind = k /\ context' = c /\ pending # NoCommand
        /\ pending \in Command /\ pending.path \in Key
        /\ Framed(pending) /\ Refusal(pending) = "none"
        /\ Asked(screen, context, pending, sent)
  BY DEF Callback, Protocol, DecisionAwaited, Owed, TypeOK, Framed, Refusal
<1>3. CASE ApprovePubkey
  <2>1. Callback("pubkey", KeyReply(context.key), context) /\ "pubkey" \in Decision
    BY <1>3 DEF ApprovePubkey, Decision
  <2>2. /\ pending.ins = "GET_PUBLIC_KEY" /\ context.key = pending.path
        /\ pending.path \in Key /\ context' = context
    BY <1>2, <2>1 DEF Asked
  <2>3. KeyReply(context.key) \in Exchange!Fitting(pending, sent)
    BY <1>2, <2>1, <2>2, SameCommands, SameReplies DEF Exchange!Fitting
  <2>. QED  BY <1>1, <2>1, <2>2, <2>3, CallbackKeeps DEF Reviewed
<1>4. CASE RejectPubkey
  <2>1. /\ Callback("pubkey", Status("DENY"), context)
        /\ "pubkey" \in Decision /\ "DENY" \in Errors
    BY <1>4 DEF RejectPubkey, Decision, Errors
  <2>2. /\ pending.ins = "GET_PUBLIC_KEY" /\ pending.p1 = 1 /\ context' = context
    BY <1>2, <2>1 DEF Asked
  <2>3. Status("DENY") \in Exchange!Fitting(pending, sent)
    BY <1>2, <2>1, <2>2, SameCommands, SameReplies DEF Exchange!Fitting
  <2>. QED  BY <1>1, <2>1, <2>2, <2>3, CallbackKeeps DEF Reviewed
<1>5. ASSUME NEW kind \in {"notBlind", "transaction"}, NEW e \in Errors, NEW c,
             Callback(kind, Status(e), c)
      PROVE  Protocol' /\ Exchange!GetReply
  <2>1. kind \in Decision
    BY DEF Decision
  <2>2. pending.ins = "SIGN_TX"
    BY <1>2, <1>5, <2>1 DEF Asked
  <2>3. Status(e) \in Exchange!Fitting(pending, sent)
    BY <1>2, <1>5, <2>1, <2>2, SameCommands, SameReplies
       DEF Exchange!Fitting, Exchange!ErrorReplies
  <2>. QED  BY <1>1, <1>5, <2>1, <2>3, CallbackKeeps
<1>6. CASE DenyNotBlind
  <2>1. Callback("notBlind", Status("NOT_SIGNATURE_FAIL"), context)
        /\ "NOT_SIGNATURE_FAIL" \in Errors
    BY <1>6 DEF DenyNotBlind, Errors
  <2>2. context' = context
    BY <2>1 DEF Callback
  <2>. QED  BY <1>5, <2>1, <2>2 DEF Reviewed
<1>7. CASE RejectTx
  <2>1. Callback("transaction", Status("DENY"), [context EXCEPT !.state = "STATE_NONE"])
        /\ "DENY" \in Errors
    BY <1>7 DEF RejectTx, Errors
  <2>2. context'.sig = context.sig /\ context'.state = "STATE_NONE"
    BY <1>1, <2>1 DEF Callback, Context
  <2>. QED  BY <1>5, <2>1, <2>2 DEF Reviewed
<1>8. CASE AcceptTx
  <2>. DEFINE c == [context EXCEPT !.state = "STATE_APPROVED"]
              q == SigReply(c.key, Sign(c).sig)
  <2>1. \/ Callback("transaction", q, Sign(c))
        \/ Callback("transaction", Status("SIGNATURE_FAIL"),
                    [c EXCEPT !.state = "STATE_NONE"])
    BY <1>8 DEF AcceptTx
  <2>2. /\ c.key = context.key /\ c.digest = context.digest
        /\ c.sig = context.sig /\ c \in Context
    <3>1. c \in Context
      BY <1>1, ContextWith
    <3>. QED  BY <1>1, <3>1 DEF Context
  <2>. HIDE DEF c
  <2>3. CASE Callback("transaction", Status("SIGNATURE_FAIL"),
                      [c EXCEPT !.state = "STATE_NONE"])
    <3>1. "SIGNATURE_FAIL" \in Errors
      BY DEF Errors
    <3>2. context'.sig = context.sig /\ context'.state = "STATE_NONE"
      BY <2>2, <2>3 DEF Callback, Context
    <3>. QED  BY <1>5, <2>3, <3>1, <3>2 DEF Reviewed
  <2>4. CASE Callback("transaction", q, Sign(c))
    <3>. DEFINE d == [alg |-> "sha256", len |-> 0, data |-> sent.data]
    <3>1. /\ "transaction" \in Decision /\ screen.kind = "transaction"
          /\ pending.ins = "SIGN_TX" /\ screen.tx = sent.data /\ sent.data \in Tx
          /\ sent.path \in Key /\ context.key = sent.path
          /\ context.digest = d /\ context.state = "STATE_PARSED"
          /\ context' = Sign(c)
      <4>1. "transaction" \in Decision
        BY DEF Decision
      <4>. QED  BY <1>2, <2>4, <4>1 DEF Asked
    <3>2. Sign(c).sig = [key |-> sent.path, digest |-> d]
      BY <2>2, <3>1 DEF Sign, Context
    <3>3. q = SigReply(sent.path, [key |-> sent.path, digest |-> d])
      BY <2>2, <3>1, <3>2
    <3>4. [key |-> sent.path, digest |-> d] \in Signature
      BY <2>2, <3>2, SignIsContext
    <3>5. q \in Reply /\ q # Status("OK") /\ q # NoReply
      <4>1. q \in Reply /\ q # Status("OK")
        BY <3>1, <3>3, <3>4, RepliesAreReplies, RepliesDiffer
      <4>. QED  BY <4>1, RepliesDiffer
    <3>6. q \in Exchange!Fitting(pending, sent)
      <4>1. q = Exchange!SigReply(sent.path, Exchange!Signed(sent.path,
                                    Exchange!TxDigest(sent.data)))
        BY <3>3, SameReplies DEF Exchange!Signed, Exchange!TxDigest
      <4>. HIDE DEF q
      <4>. QED
        BY <1>2, <2>4, <3>1, <4>1, SameCommands DEF Exchange!Fitting
    <3>7. Reviewed
      <4>1. context'.sig.digest = d
        BY <3>1, <3>2
      <4>. QED  BY <3>1, <4>1 DEF Reviewed
    <3>. HIDE DEF q
    <3>. QED  BY <2>4, <3>1, <3>5, <3>6, <3>7, CallbackKeeps
  <2>. QED  BY <2>1, <2>3, <2>4
<1>. QED  BY <1>3, <1>4, <1>6, <1>7, <1>8 DEF Decide

\* The menu and the settings.
LEMMA SettingsKeep ==
  ASSUME TypeOK, Protocol, OpenSettings \/ CloseSettings \/ SwitchBlindSigning
  PROVE  Protocol' /\ UNCHANGED exchange /\ context' = context
<1>1. /\ UNCHANGED <<ioState, output, site, context, inbox, pending, answer, sent>>
      /\ screen'.kind \notin Decision /\ screen.kind \notin Decision
  BY DEF OpenSettings, CloseSettings, SwitchBlindSigning, io, host, Menu, Decision
<1>2. Quiet' /\ DecisionAwaited' /\ Owed' /\ Arrived'
  BY <1>1 DEF Protocol, Quiet, DecisionAwaited, Owed, Arrived
<1>3. Continued'
  BY <1>1 DEF Protocol, Continued, Continuing
<1>4. Asked(screen, context, pending, sent)'
  BY <1>1 DEF Asked, Decision
<1>. QED  BY <1>1, <1>2, <1>3, <1>4 DEF Protocol, exchange

---------------------------------------------------------------------------
(* The system and the host.                                                 *)

LEMMA SystemKeeps ==
  ASSUME TypeOK, Protocol, System
  PROVE  Protocol' /\ Exchange!Disconnect /\ context' = ZeroContext
<1>1. /\ output' = NoReply /\ context' = ZeroContext /\ screen'.kind \notin Decision
      /\ \/ site' = "sync" /\ ioState' = "RECEIVED"
         \/ site' = "off"
      /\ pending' = NoCommand /\ inbox' = NoCommand /\ answer' = NoAnswer
      /\ sent' = NoSession
  BY DEF System, Launch, IoReset, Quit, Restart, Disconnect, Menu, Decision
<1>2. Quiet' /\ DecisionAwaited' /\ Owed' /\ Arrived'
  BY <1>1 DEF Quiet, DecisionAwaited, Owed, Arrived
<1>3. Continued' /\ Asked(screen, context, pending, sent)'
  BY <1>1 DEF Continued, Continuing, Asked, Decision
<1>4. Exchange!Disconnect
  BY <1>1, SameCommands DEF Exchange!Disconnect, NoSession
<1>. QED  BY <1>1, <1>2, <1>3, <1>4 DEF Protocol

\* A disciplined host sends nothing that is refused, and goes on with a session
\* only where the application does.
LEMMA SendableIsSound ==
  ASSUME Disciplined, NEW c \in Sendable
  PROVE  /\ c.defects = {} /\ c.path \in Key
         /\ c.p1 # 0 /\ c.ins \in Signing => Continuing(c.ins)
<1>1. Paths = Key /\ ~HostMay("malformed") /\ ~HostMay("disordered")
  BY DEF Disciplined, Paths, HostMay
<1>2. AnyKey \in Key
  BY DataAssumption DEF AnyKey
<1>3. CASE c \in OtherCommands
  BY <1>1, <1>2, <1>3 DEF OtherCommands, Cmd, Signing
<1>4. CASE c \in FirstChunks
  BY <1>1, <1>4 DEF FirstChunks, Cmd
<1>5. CASE c \in LaterChunks /\ Continuing(c.ins)
  BY <1>2, <1>5 DEF LaterChunks, Cmd
<1>. QED  BY <1>1, <1>3, <1>4, <1>5 DEF Sendable

LEMMA SendKeeps ==
  ASSUME TypeOK, Protocol, Disciplined, NEW c \in Sendable, Send(c)
  PROVE  Protocol' /\ Exchange!Send /\ context' = context /\ inbox' # NoCommand
<1>1. /\ pending = NoCommand /\ inbox = NoCommand /\ site # "off"
      /\ pending' = c /\ inbox' = c /\ answer' = NoAnswer /\ sent' = SentWith(c)
      /\ UNCHANGED <<ioState, output, site, context, screen, storage>>
  BY DEF Send, io
<1>2. c \in Command /\ c # NoCommand
  BY SendableIsCommand, AbsenceAssumption
<1>3. Quiet' /\ DecisionAwaited' /\ Owed'
  BY <1>1, <1>2, SendableIsSound DEF Protocol, Quiet, DecisionAwaited, Owed
<1>4. Arrived'
  <2>1. SUFFICES ASSUME c.ins \in Signing
                 PROVE  IF c.p1 = 0
                        THEN SentWith(c) = [path |-> c.path, len |-> c.len,
                                            data |-> c.data]
                        ELSE /\ InSession(context, c.ins, SentWith(c))
                             /\ SentWith(c).data = context.hashed \o c.data
    BY <1>1 DEF Arrived, InSession
  <2>2. CASE c.p1 = 0
    BY <2>1, <2>2 DEF SentWith
  <2>3. CASE c.p1 # 0
    <3>1. InSession(context, c.ins, sent) /\ sent.data = context.hashed
      BY <2>1, <2>3, SendableIsSound DEF Protocol, Continued
    <3>2. SentWith(c) = [sent EXCEPT !.data = @ \o c.data]
      BY <2>1, <2>3 DEF SentWith
    <3>3. /\ SentWith(c).path = sent.path /\ SentWith(c).len = sent.len
          /\ SentWith(c).data = sent.data \o c.data
      BY <3>2 DEF TypeOK
    <3>. QED  BY <2>3, <3>1, <3>3 DEF InSession
  <2>. QED  BY <2>2, <2>3
<1>5. Continued'
  BY <1>1 DEF Continued, Continuing
<1>6. Asked(screen, context, pending, sent)'
  BY <1>1 DEF Protocol, DecisionAwaited, Asked, Decision
<1>7. Exchange!Send
  BY <1>1, <1>2, SameCommands DEF Exchange!Send, SentWith, NoSession
<1>. QED  BY <1>1, <1>2, <1>3, <1>4, <1>5, <1>6, <1>7 DEF Protocol

---------------------------------------------------------------------------
(* The theorems.                                                            *)

LEMMA ProtocolInit == Init => ProtocolInv
<1>. SUFFICES ASSUME Init  PROVE ProtocolInv
  OBVIOUS
<1>1. ChannelInv
  BY ChannelInit
<1>2. screen.kind \notin Decision
  BY DEF Init, Menu, Decision
<1>3. Quiet /\ DecisionAwaited /\ Owed /\ Arrived
  BY <1>2 DEF Init, Quiet, DecisionAwaited, Owed, Arrived
<1>4. Continued /\ Asked(screen, context, pending, sent)
  BY <1>2 DEF Init, Continued, Continuing, Asked, Decision
<1>. QED  BY <1>1, <1>3, <1>4 DEF ProtocolInv, Protocol

\* What a step of the application, of the user, or of the others does.
LEMMA ProtocolSteps ==
  ASSUME Disciplined, ProtocolInv, Next
  PROVE  /\ Protocol'
         /\ \/ Promise /\ inbox # NoCommand /\ screen.kind # "transaction"
            \/ Exchange!GetReply /\ Reviewed /\ inbox' = inbox
            \/ /\ UNCHANGED exchange \/ Exchange!Disconnect \/ Exchange!Send
               /\ context' \in {context, ZeroContext}
<1>. TypeOK /\ Protocol
  BY DEF ProtocolInv, ChannelInv
<1>1. CASE Handle
  <2>1. Take
    BY <1>1 DEF Handle, BadFrame, Refuse, GetVersion, GetPublicKey, BadPath,
                BadState, SignTxTooLong, SignTxMore, SignTxFail, SignTxDone,
                SignNsRefuse, SignNsMore, SignNsDone
  <2>2. inbox # NoCommand /\ screen.kind # "transaction"
    BY <2>1, WokenReceived DEF Take, Decision
  <2>. QED  BY <1>1, <2>2, HandleKeeps DEF Promise
<1>2. CASE Decide
  <2>1. inbox' = inbox
    BY <1>2 DEF Decide, ApprovePubkey, RejectPubkey, DenyNotBlind, AcceptTx,
                RejectTx, Callback
  <2>. QED  BY <1>2, <2>1, DecideKeeps
<1>3. CASE PageThrows \/ GiveUp
  BY <1>3 DEF PageThrows, GiveUp, HostMay, Disciplined
<1>4. CASE OpenSettings \/ CloseSettings \/ SwitchBlindSigning
  BY <1>4, SettingsKeep
<1>5. CASE System
  BY <1>5, SystemKeeps
<1>6. CASE \E c \in Sendable : Send(c)
  BY <1>6, SendKeeps
<1>. QED  BY <1>1, <1>2, <1>3, <1>4, <1>5, <1>6 DEF Next, User, Host

LEMMA ProtocolStep ==
  ASSUME Disciplined  PROVE ProtocolInv /\ [Next]_vars => ProtocolInv'
<1>. SUFFICES ASSUME ProtocolInv, [Next]_vars  PROVE Protocol'
  BY ChannelStep DEF ProtocolInv
<1>1. CASE Next
  BY <1>1, ProtocolSteps
<1>2. CASE UNCHANGED vars
  BY <1>2 DEF vars, io, host, ProtocolInv, Protocol, Quiet, DecisionAwaited, Owed,
              Arrived, Continued, Continuing, Asked, InSession
<1>. QED  BY <1>1, <1>2

\* No command is forgotten, and every question on the screen belongs to the
\* command that is owed its reply, for every host that keeps to the protocol
\* (io.c with the ui_display_* and validate_* functions).
THEOREM EveryCommandIsAwaited ==
  ASSUME Disciplined  PROVE Spec => []DecisionAwaited
<1>1. ProtocolInv => DecisionAwaited
  BY DEF ProtocolInv, Protocol
<1>. QED  BY <1>1, ProtocolInit, ProtocolStep, PTL DEF Spec

\* What the user signs on the review of a transaction is that transaction, in
\* sessions of any number of chunks (sign_tx.c, validate.c).
THEOREM SignaturesAreReviewed ==
  ASSUME Disciplined  PROVE Spec => SignedIsReviewed
<1>. DEFINE Step == screen.kind = "transaction" /\ context'.sig # context.sig
                      /\ context'.sig # NoSig
                    => /\ context'.sig.digest.alg = "sha256"
                       /\ context'.sig.digest.data = screen.tx
<1>1. ProtocolInv /\ [Next]_vars => Step
  <2>. SUFFICES ASSUME ProtocolInv, [Next]_vars  PROVE Step
    OBVIOUS
  <2>1. CASE Next
    BY <2>1, ProtocolSteps DEF Reviewed, ZeroContext
  <2>2. CASE UNCHANGED vars
    BY <2>2 DEF vars
  <2>. QED  BY <2>1, <2>2
<1>. QED  BY <1>1, ProtocolInit, ProtocolStep, PTL DEF Spec, SignedIsReviewed

\* What is signed without a question to the user is a personal message
\* (sign_ns.c).
THEOREM UnreviewedSignaturesArePersonal ==
  ASSUME Disciplined  PROVE Spec => UnreviewedIsPersonal
<1>. DEFINE Step == inbox # NoCommand /\ inbox' = NoCommand
                      /\ context'.sig # context.sig /\ context'.sig # NoSig
                    => /\ context'.sig.digest.alg = "keccak"
                       /\ context'.sig.digest.len = Len(context'.sig.digest.data)
<1>1. ProtocolInv /\ [Next]_vars => Step
  <2>. SUFFICES ASSUME ProtocolInv, [Next]_vars  PROVE Step
    OBVIOUS
  <2>1. CASE Next
    BY <2>1, ProtocolSteps DEF Promise, Safe, ZeroContext
  <2>2. CASE UNCHANGED vars
    BY <2>2 DEF vars
  <2>. QED  BY <2>1, <2>2
<1>. QED  BY <1>1, ProtocolInit, ProtocolStep, PTL DEF Spec, UnreviewedIsPersonal

\* Only what has been parsed is approved (types.h, validate_transaction).
THEOREM ApprovalsFollowParsing ==
  ASSUME Disciplined  PROVE Spec => ApprovedWasParsed
<1>. DEFINE Step == context'.state = "STATE_APPROVED"
                      /\ context.state # "STATE_APPROVED"
                    => context.state = "STATE_PARSED"
<1>1. ProtocolInv /\ [Next]_vars => Step
  <2>. SUFFICES ASSUME ProtocolInv, [Next]_vars  PROVE Step
    OBVIOUS
  <2>1. CASE Next
    BY <2>1, ProtocolSteps DEF Promise, Safe, Reviewed, ZeroContext
  <2>2. CASE UNCHANGED vars
    BY <2>2 DEF vars
  <2>. QED  BY <2>1, <2>2
<1>. QED  BY <1>1, ProtocolInit, ProtocolStep, PTL DEF Spec, ApprovedWasParsed

\* The application implements the contract with the host, but for its liveness:
\* every reply fits its command and the chunks that were sent, and none comes
\* unasked (io.c, the handlers and the callbacks).
THEOREM RepliesFit ==
  ASSUME Disciplined
  PROVE  Spec => Exchange!Init /\ [][Exchange!Next]_(Exchange!exchange)
<1>1. Init => Exchange!Init
  BY SameCommands DEF Init, Exchange!Init, NoSession
<1>2. ProtocolInv /\ [Next]_vars => [Exchange!Next]_(Exchange!exchange)
  <2>. SUFFICES ASSUME ProtocolInv, [Next]_vars
                PROVE  Exchange!Next \/ UNCHANGED exchange
    BY DEF exchange, Exchange!exchange
  <2>1. CASE Next
    BY <2>1, ProtocolSteps DEF Promise, ExchangeStep, Exchange!Next
  <2>2. CASE UNCHANGED vars
    BY <2>2 DEF vars, host, exchange
  <2>. QED  BY <2>1, <2>2
<1>. QED  BY <1>1, <1>2, ProtocolInit, ProtocolStep, PTL DEF Spec
=============================================================================
