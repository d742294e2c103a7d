------------------------------ MODULE AppData ------------------------------
(***************************************************************************)
(* The commands a host sends to the NULS application, the replies it gets,  *)
(* and the data both are about.  A transaction is abstracted to the         *)
(* sequence of pieces its serialisation is cut into; a BIP32 path that the  *)
(* application can use is identified with the key it derives.               *)
(***************************************************************************)
EXTENDS Integers, Sequences

CONSTANTS
  Key,         \* the paths that parse and derive, each named by its key
  ShortPath,   \* a path whose bytes do not match its length byte
  RefusedPath, \* a path that parses and that the system refuses to derive
  Piece,       \* the pieces of serialised data
  Tx,          \* the serialised transactions: complete sequences of pieces
  Blind,       \* those of a type the application cannot display
  Unshowable,  \* those one of whose addresses does not fit in 32 base58 digits
  MaxLen,      \* bound on the declared length of a personal message
  NoKey, NoSig, NoReply, NoCommand, NoTx

ASSUME DataAssumption ==
  /\ Tx \subseteq Seq(Piece)
  /\ Blind \subseteq Tx
  /\ Unshowable \subseteq Tx
  /\ MaxLen \in Nat
  /\ Key # {}
  /\ NoKey \notin Key /\ ShortPath \notin Key /\ RefusedPath \notin Key
  /\ NoTx \notin Tx
  \* a transaction that is complete is not the beginning of another one
  /\ \A s, t \in Tx : Len(s) <= Len(t) /\ SubSeq(t, 1, Len(s)) = s => s = t

---------------------------------------------------------------------------
(* Commands.  One record shape for all of them: p1 is 0 or 1 (for the       *)
(* signing commands 0 is the first chunk and 1 any later one, for           *)
(* GET_PUBLIC_KEY 1 asks for the confirmation on the screen), more is       *)
(* p2 = P2_MORE, len is the length a personal message announces.            *)

Ins == {"GET_CONFIGURATION", "GET_PUBLIC_KEY", "SIGN_TX", "SIGN_NS"}
Signing == {"SIGN_TX", "SIGN_NS"}
Defect == {"frame", "cla", "ins", "p1p2", "nodata"}
Path == Key \cup {ShortPath, RefusedPath}
Chunk == {<<>>} \cup {<<p>> : p \in Piece}

Command == [ins : Ins, p1 : {0, 1}, more : BOOLEAN, path : Path,
            len : 0 .. MaxLen, data : Chunk, defects : SUBSET Defect]

Cmd(ins, p1, more, path, len, data) ==
  [ins |-> ins, p1 |-> p1, more |-> more, path |-> path,
   len |-> len, data |-> data, defects |-> {}]

\* apdu_parser: the length check on the five header bytes and Lc.
Framed(c) == "frame" \notin c.defects

\* The checks of apdu_dispatcher, in its order; "none" if it calls a handler.
Refusal(c) ==
  IF "cla" \in c.defects THEN "CLA_NOT_SUPPORTED"
  ELSE IF "ins" \in c.defects THEN "INS_NOT_SUPPORTED"
  ELSE IF "p1p2" \in c.defects THEN "WRONG_P1P2"
  ELSE IF "nodata" \in c.defects /\ c.ins # "GET_CONFIGURATION"
       THEN "WRONG_DATA_LENGTH"
  ELSE "none"

---------------------------------------------------------------------------
(* Replies: a status word, and for the replies that carry data the key or   *)
(* the signature.  What is signed is a digest: the algorithm, the length    *)
(* that entered it, and the pieces hashed.                                  *)

Errors == {"DENY", "WRONG_P1P2", "WRONG_DATA_LENGTH", "INS_NOT_SUPPORTED",
           "CLA_NOT_SUPPORTED", "WRONG_TX_LENGTH", "TX_PARSING_FAIL",
           "BAD_STATE", "SIGNATURE_FAIL", "NOT_SIGNATURE_FAIL", "EXCEPTION",
           "DERIVATION"}

Alg == {"none", "sha256", "keccak", "mixed"}
Digest == [alg : Alg, len : Nat, data : Seq(Piece)]
ZeroDigest == [alg |-> "none", len |-> 0, data |-> <<>>]
Signature == [key : Key \cup {NoKey}, digest : Digest]

Reply == [sw : Errors \cup {"OK"}, key : Key \cup {NoKey},
          sig : Signature \cup {NoSig}]

Status(sw) == [sw |-> sw, key |-> NoKey, sig |-> NoSig]
KeyReply(k) == [sw |-> "OK", key |-> k, sig |-> NoSig]
SigReply(k, s) == [sw |-> "OK", key |-> k, sig |-> s]

ASSUME AbsenceAssumption ==
  /\ NoSig \notin Signature
  /\ NoReply \notin Reply
  /\ NoCommand \notin Command
=============================================================================
