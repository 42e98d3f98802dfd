----------------------------- MODULE Serialize -----------------------------
(***************************************************************************)
(* What a receiver gets of a group of coefficients that went through one   *)
(* of the four codecs: a key, share or partial ("bytes"), a ciphertext's   *)
(* vector part ("du") or scalar part ("dv"), or a message that decryption  *)
(* noise was added to ("msg").                                             *)
(***************************************************************************)
EXTENDS Codec, Sequences

CONSTANTS
  Groups,   \* Groups[kind]: groups of coefficients to send, centred
  Messages, \* message bytes
  Noises    \* groups of eight noise values

Coefficient == -(KYBER_Q \div 2)..(KYBER_Q \div 2)

ASSUME SerializeAssumption ==
  /\ Groups["bytes"] \subseteq [1..2 -> Coefficient]
  /\ Groups["du"] \subseteq [1..4 -> Coefficient]
  /\ Groups["dv"] \subseteq [1..2 -> Coefficient]
  /\ Messages \subseteq 0..255
  /\ Noises \subseteq [1..8 -> Coefficient]

VARIABLES
  kind,    \* the codec in use
  stage,   \* "send", "sent", "received"
  coeffs,  \* what is sent: coefficients, or the message byte
  noise,   \* what decryption adds to a message
  wire,    \* the bytes
  out      \* what is received

wireVars == <<kind, stage, coeffs, noise, wire, out>>

WireInit ==
  /\ kind \in {"bytes", "du", "dv", "msg"}
  /\ stage = "send" /\ coeffs = << >> /\ noise = << >> /\ wire = << >> /\ out = << >>

SendGroup ==
  /\ stage = "send" /\ kind # "msg"
  /\ coeffs' \in Groups[kind]
  /\ wire' = CASE kind = "bytes" -> poly_tobytes(coeffs')
               [] kind = "du"    -> polyvec_compress(coeffs')
               [] kind = "dv"    -> poly_compress(coeffs')
  /\ stage' = "sent"
  /\ UNCHANGED <<kind, noise, out>>

ReceiveGroup ==
  /\ stage = "sent" /\ kind # "msg"
  /\ out' = CASE kind = "bytes" -> poly_frombytes(wire)
              [] kind = "du"    -> polyvec_decompress(wire)
              [] kind = "dv"    -> poly_decompress(wire)
  /\ stage' = "received"
  /\ UNCHANGED <<kind, coeffs, noise, wire>>

(* Encryption adds the encoded message to a ring element; decryption gets  *)
(* it back with noise, reduced to the centred range.                       *)
SendMessage ==
  /\ stage = "send" /\ kind = "msg"
  /\ \E byte \in Messages : wire' = poly_frommsg(<<byte>>) /\ coeffs' = <<byte>>
  /\ stage' = "sent"
  /\ UNCHANGED <<kind, noise, out>>

Centred(c) == LET r == c % KYBER_Q IN IF r > KYBER_Q \div 2 THEN r - KYBER_Q ELSE r

ReceiveMessage ==
  /\ stage = "sent" /\ kind = "msg"
  /\ noise' \in Noises
  /\ out' = poly_tomsg([i \in 1..8 |-> Centred(wire[i] + noise'[i])])
  /\ stage' = "received"
  /\ UNCHANGED <<kind, coeffs, wire>>

WireNext == SendGroup \/ ReceiveGroup \/ SendMessage \/ ReceiveMessage

WireSpec == WireInit /\ [][WireNext]_wireVars
-----------------------------------------------------------------------------
Distance(a, b) == LET d == (a - b) % KYBER_Q IN IF d > KYBER_Q \div 2 THEN KYBER_Q - d ELSE d

(* A share or a partial decryption arrives exactly, in [0, q).             *)
ExactOnWire ==
  (stage = "received" /\ kind = "bytes") =>
    \A i \in 1..2 : out[i] \in 0..(KYBER_Q - 1) /\ (out[i] - coeffs[i]) % KYBER_Q = 0

(* Compression loses at most half a step: q/2^(d+1), rounded.              *)
CompressionError ==
  stage = "received" =>
    /\ kind = "du" => \A i \in 1..4 : out[i] \in 0..KYBER_Q /\ Distance(out[i], coeffs[i]) <= 2
    /\ kind = "dv" => \A i \in 1..2 : out[i] \in 0..KYBER_Q /\ Distance(out[i], coeffs[i]) <= 104

(* A message survives any noise from -832 to 831, in each coefficient.     *)
MessageSurvives ==
  (stage = "received" /\ kind = "msg" /\ \A i \in 1..8 : noise[i] \in -832..831) =>
    out = coeffs
=============================================================================
