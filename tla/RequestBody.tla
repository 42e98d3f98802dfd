----------------------------- MODULE RequestBody -----------------------------
(***************************************************************************)
(* How a request reaches the globals of src/shareholder.c.  libmicrohttpd  *)
(* calls the one handler many times for a request: once to begin, once for *)
(* every piece of the body, and once when the body is complete.  Several   *)
(* connections take turns on the one thread, each with a context of its    *)
(* own, and a client may go away at any time.                              *)
(*                                                                         *)
(* A body is a sequence of symbols: the text that carries one field up to  *)
(* its value is one symbol, and so is every digit of a hex string.         *)
(***************************************************************************)
EXTENDS ShareApi

CONSTANTS
  Conns,       \* connections
  Requests,    \* what the clients may send
  MaxBody,     \* MAX_BODY
  ShareBytes,  \* KYBER_POLYVECBYTES
  CtBytes,     \* KYBER_INDCPA_BYTES
  MaxSent      \* bound: how many requests are begun

ASSUME LengthAssumption ==
  /\ ShareBytes \in Nat \ {0} /\ CtBytes \in Nat \ {0} /\ MaxSent \in Nat
  /\ MaxBody \in Nat /\ MaxBody > 3 + 2 * ShareBytes /\ MaxBody > 3 + 2 * CtBytes

(* A request: party_index and x, if its body has such fields, and the      *)
(* digits of share_hex or ct_hex.                                          *)
ASSUME RequestAssumption ==
  \A r \in Requests : /\ DOMAIN r = {"method", "url", "party", "x", "hex"}
                      /\ r.party = Missing \/ r.party \in Int
                      /\ r.x = Missing \/ r.x \in Int
                      /\ r.hex \in Seq(HexVal)

Text(field) == [field |-> field, v |-> 0]
Digits(hex) == [i \in 1..Len(hex) |-> [field |-> "digit", v |-> hex[i]]]
Number(field, v) == IF v = Missing THEN << >> ELSE <<[field |-> field, v |-> v]>>
HexField(url) == IF url = "store_share" THEN "share_hex" ELSE "ct_hex"

(* The dealer's and the coordinator's snprintf.                            *)
Body(r) ==
  Number("party_index", r.party) \o Number("x", r.x)
  \o (IF r.hex = << >> THEN << >>
      ELSE <<Text(HexField(r.url))>> \o Digits(r.hex) \o <<Text("end")>>)

VARIABLES
  phase,    \* phase[c]: where the connection is
  req,      \* req[c]: the request it carries
  rest,     \* rest[c]: the part of the body that has not arrived
  rb,       \* rb[c]: the buffer of its ReqBody, empty when there is none
  response, \* response[c]: what the handler queued, {} or a singleton
  g_share,  \* the bytes the share was unpacked from
  g_x,
  g_ready,
  sent,     \* how many requests were begun
  whole     \* history: the requests whose body arrived completely

globals == <<g_share, g_x, g_ready>>
vars == <<phase, req, rest, rb, response, globals, sent, whole>>

Init ==
  /\ phase = [c \in Conns |-> "none"]
  /\ req = [c \in Conns |-> {}]
  /\ rest = [c \in Conns |-> << >>]
  /\ rb = [c \in Conns |-> << >>]
  /\ response = [c \in Conns |-> {}]
  /\ g_share = << >> /\ g_x = 0 /\ g_ready = FALSE
  /\ sent = 0 /\ whole = {}

(* A client connects and sends the header of a request.                    *)
Connect(c) ==
  /\ phase[c] = "none" /\ sent < MaxSent
  /\ \E r \in Requests : /\ req' = [req EXCEPT ![c] = {r}]
                         /\ rest' = [rest EXCEPT ![c] = Body(r)]
  /\ phase' = [phase EXCEPT ![c] = "header"]
  /\ sent' = sent + 1
  /\ UNCHANGED <<rb, response, globals, whole>>

(* The first call: a zeroed context, or MHD_NO, which closes.              *)
FirstCall(c) ==
  /\ phase[c] = "header"
  /\ \E allocated \in BOOLEAN :
       phase' = [phase EXCEPT ![c] = IF allocated THEN "body" ELSE "closing"]
  /\ rb' = [rb EXCEPT ![c] = << >>]
  /\ UNCHANGED <<req, rest, response, globals, sent, whole>>

(* Mutant of CopyLength: no room is left for the terminating NUL.          *)
CopyAll(len, size) == IF len + size > MaxBody THEN MaxBody - len ELSE size

(* How much of a piece of this size still fits behind len bytes.           *)
CopyLength(len, size) == IF len + size >= MaxBody THEN MaxBody - len - 1 ELSE size

(* Mutant of Upload: one buffer for all connections.                       *)
UploadShared(c) ==
  /\ phase[c] = "body" /\ rest[c] # << >>
  /\ \E size \in 1..Len(rest[c]) :
       /\ rb' = [d \in Conns |-> rb[c] \o SubSeq(rest[c], 1, CopyLength(Len(rb[c]), size))]
       /\ rest' = [rest EXCEPT ![c] = SubSeq(@, size + 1, Len(@))]
  /\ UNCHANGED <<phase, req, response, globals, sent, whole>>

(* A call with upload_data: a piece of any size is appended, or cut.       *)
Upload(c) ==
  /\ phase[c] = "body" /\ rest[c] # << >>
  /\ \E size \in 1..Len(rest[c]) :
       /\ rb' = [rb EXCEPT ![c] = @ \o SubSeq(rest[c], 1, CopyLength(Len(@), size))]
       /\ rest' = [rest EXCEPT ![c] = SubSeq(@, size + 1, Len(@))]
  /\ UNCHANGED <<phase, req, response, globals, sent, whole>>

(* strstr: where the field begins in the buffer, 0 when it is not there.   *)
FieldAt(b, field) ==
  IF \E i \in 1..Len(b) : b[i].field = field
  THEN CHOOSE i \in 1..Len(b) :
         b[i].field = field /\ \A j \in 1..(i - 1) : b[j].field # field
  ELSE 0

(* parse_json_string: digits up to a quote, the end of the buffer or max.  *)
StringAt(b, i, max) ==
  LET run == CHOOSE n \in 0..(Len(b) - i) :
               /\ \A j \in 1..n : b[i + j].field = "digit"
               /\ n < Len(b) - i => b[i + n + 1].field # "digit"
  IN  [j \in 1..(IF run < max THEN run ELSE max) |-> b[i + j].v]

ParseString(b, field, max) ==
  IF FieldAt(b, field) = 0 THEN << >> ELSE StringAt(b, FieldAt(b, field), max)

(* hex_decode: exactly 2 * n digits.                                       *)
Decodes(hex, n) == Len(hex) = 2 * n /\ \A i \in 1..Len(hex) : hex[i] # -1

(* Mutant of LastCall: the handler does not wait for the end of the body.  *)
FirstPiece(c, method, url) ==
  /\ phase[c] = "body"
  /\ \E r \in req[c] : r.method = method /\ r.url = url

(* The last call of a request: upload_data_size is 0, the body complete.   *)
LastCall(c, method, url) ==
  /\ phase[c] = "body" /\ rest[c] = << >>
  /\ \E r \in req[c] : r.method = method /\ r.url = url

(* send_json, after which libmicrohttpd sends the response.                *)
Respond(c, answer) ==
  /\ response' = [response EXCEPT ![c] = {answer}]
  /\ phase' = [phase EXCEPT ![c] = "answered"]
  /\ whole' = whole \cup req[c]
  /\ UNCHANGED <<req, rest, rb, sent>>

Health(c) ==
  /\ LastCall(c, "GET", "health")
  /\ Respond(c, Answer(200)) /\ UNCHANGED globals

(* Mutant of StoreShare: x is taken over before the share is looked at.    *)
StoreXFirst(c) ==
  /\ LastCall(c, "POST", "store_share")
  /\ LET hex == ParseString(rb[c], "share_hex", 2 * ShareBytes)
         x   == FieldAt(rb[c], "x")
     IN  /\ g_x' = IF x # 0 THEN rb[c][x].v ELSE g_x
         /\ IF FieldAt(rb[c], "party_index") # 0 /\ x # 0 /\ Decodes(hex, ShareBytes)
            THEN g_share' = Decode(hex, ShareBytes) /\ g_ready' = TRUE /\ Respond(c, Answer(200))
            ELSE UNCHANGED <<g_share, g_ready>> /\ Respond(c, Answer(400))

(* /store_share: every field there, a number of any value, and the share   *)
(* whole, or 400.  (g_party_index, which only the log shows, is left out.) *)
StoreShare(c) ==
  /\ LastCall(c, "POST", "store_share")
  /\ LET hex == ParseString(rb[c], "share_hex", 2 * ShareBytes)
         x   == FieldAt(rb[c], "x")
     IN  IF FieldAt(rb[c], "party_index") # 0 /\ x # 0 /\ Decodes(hex, ShareBytes)
         THEN /\ g_share' = Decode(hex, ShareBytes)
              /\ g_x' = rb[c][x].v
              /\ g_ready' = TRUE
              /\ Respond(c, Answer(200))
         ELSE UNCHANGED globals /\ Respond(c, Answer(400))

(* /partial_decrypt: 409 without a share, 400 without a whole ciphertext;  *)
(* the partial is a function of the share and the ciphertext.              *)
PartialDecrypt(c) ==
  /\ LastCall(c, "POST", "partial_decrypt")
  /\ LET hex == ParseString(rb[c], "ct_hex", 2 * CtBytes)
     IN  Respond(c, IF ~g_ready THEN Answer(409)
                    ELSE IF ~Decodes(hex, CtBytes) THEN Answer(400)
                    ELSE [code |-> 200, x |-> g_x, share |-> g_share,
                          ct |-> Decode(hex, CtBytes)])
  /\ UNCHANGED globals

(* Any other method or path, the HEAD of the health probes among them.     *)
NotFound(c) ==
  /\ phase[c] = "body" /\ rest[c] = << >>
  /\ \A r \in req[c] : <<r.method, r.url>> \notin
       {<<"GET", "health">>, <<"POST", "store_share">>, <<"POST", "partial_decrypt">>}
  /\ Respond(c, Answer(404)) /\ UNCHANGED globals

(* on_complete: the response is out, the handler said MHD_NO, or the       *)
(* client went away, the timeout of its 5 s included.                      *)
OnComplete(c) ==
  /\ phase[c] # "none"
  /\ phase' = [phase EXCEPT ![c] = "none"]
  /\ req' = [req EXCEPT ![c] = {}]
  /\ rest' = [rest EXCEPT ![c] = << >>]
  /\ rb' = [rb EXCEPT ![c] = << >>]
  /\ response' = [response EXCEPT ![c] = {}]
  /\ UNCHANGED <<globals, sent, whole>>

Next ==
  \E c \in Conns :
    \/ Connect(c) \/ FirstCall(c) \/ Upload(c)
    \/ Health(c) \/ StoreShare(c) \/ PartialDecrypt(c) \/ NotFound(c)
    \/ OnComplete(c)

Spec == Init /\ [][Next]_vars
-----------------------------------------------------------------------------
Byte == 0..255

(* The buffer always has room for the terminating NUL.                     *)
TypeOK ==
  /\ phase \in [Conns -> {"none", "header", "body", "closing", "answered"}]
  /\ req \in [Conns -> SUBSET Requests]
  /\ \A c \in Conns : Len(rb[c]) < MaxBody
  /\ g_x \in Int /\ g_ready \in BOOLEAN
  /\ g_share \in Seq(Byte)
  /\ whole \subseteq Requests
  /\ sent \in 0..MaxSent

(* x and share are those of one store request that arrived whole.          *)
OfOneRequest(x, share) ==
  \E r \in whole : /\ r.url = "store_share" /\ Numbered(r) /\ x = r.x
                   /\ StartsWith(r.hex, ShareBytes)
                   /\ share = Decode(r.hex, ShareBytes)

(* The share held and its x are always those of one request, however its   *)
(* body was cut into pieces and mixed with others, whichever requests were *)
(* refused, cut at MAX_BODY or given up in between.  A share_hex that is   *)
(* too long counts for its first bytes: the length check of hex_decode     *)
(* sees a string that parse_json_string has already cut.                   *)
HoldsOneRequest == g_ready => OfOneRequest(g_x, g_share)

(* The code a request deserves by what its client sent.                    *)
Deserves(r, code) ==
  CASE r.method = "POST" /\ r.url = "store_share" ->
         code = (IF Numbered(r) /\ StartsWith(r.hex, ShareBytes) THEN 200 ELSE 400)
    [] r.method = "POST" /\ r.url = "partial_decrypt" ->
         code \in {409, IF StartsWith(r.hex, CtBytes) THEN 200 ELSE 400}
    [] OTHER ->
         code = (IF r.method = "GET" /\ r.url = "health" THEN 200 ELSE 404)

(* Every answer is the one its own request deserves, and a partial was     *)
(* computed from that request's ciphertext with the share and the x of one *)
(* store request: nothing of another connection, and nothing of the pieces *)
(* the body came in, shows.                                                *)
AnsweredAsSent ==
  \A c \in Conns : \A r \in req[c], a \in response[c] :
    /\ Deserves(r, a.code)
    /\ (r.url = "partial_decrypt" /\ a.code = 200) =>
         /\ a.ct = Decode(r.hex, CtBytes)
         /\ OfOneRequest(a.x, a.share)
=============================================================================
