----------------------------- MODULE Connection -----------------------------
(***************************************************************************)
(* One client's connection to the HTTP server (src/lib/shervin.c,          *)
(* shv_con.c, shv_env.c, shv_response.c): requests come in chunks of any   *)
(* size, the end of a head is looked for over the chunks, a body is as     *)
(* long as its content-length says, and a response is written by another   *)
(* watcher than the one that reads.  Both watchers share the connection.   *)
(*                                                                         *)
(* The bytes on the wire are "x", "r" (CR) and "n" (LF), each with the     *)
(* number of the request it belongs to.                                    *)
(***************************************************************************)
EXTENDS Naturals, FiniteSets, Sequences, SequencesExt

CONSTANTS
  Scripts,   \* what the client may ask: sequences of requests
  MaxChunk,  \* FSHV_BUFFER_SIZE
  None       \* NULL; no content-length

Char == {"x", "r", "n"}

Hend(h, ch) ==
  IF \/ h \in {0, 2} /\ ch = "r"
     \/ h \in {1, 3} /\ ch = "n"
  THEN h + 1
  ELSE 0

\* The last byte of a head is where the server sees its end.
HeadEnds(head) ==
  LET hend[b \in 0 .. Len(head)] ==
        IF b = 0 THEN 0 ELSE Hend(hend[b - 1], head[b])
  IN \A b \in 0 .. Len(head) : hend[b] = 4 <=> b = Len(head)

\* A client sends a body with a post alone, and as long as it says.
Sendable(r) ==
  /\ r.head \in Seq(Char) /\ HeadEnds(r.head)
  /\ r.body \in Seq(Char)
  /\ r.body = <<>> \/ (r.parses /\ r.method = "post")
  /\ r.length \in {None, Len(r.body)}

\* The response that is made, with the file that it has for a body, opened or not.
Response ==
  [ pc : {"prepare", "write"}, status : {200, 400, 401, 403, 404, 500},
    length : Nat, file : Nat \cup {None}, bout : Nat \cup {None} ]

ASSUME ConnectionAssumption ==
  /\ MaxChunk \in Nat \ {0}
  /\ None \notin Nat \cup Response
  /\ \A s \in Scripts : s \in Seq(Range(s)) /\ \A i \in DOMAIN s : Sendable(s[i])

VARIABLES
  script,   \* what this client asks
  wire,     \* the bytes of it
  polite,   \* it waits for a response before it asks again or leaves
  at,       \* how much of the script has been read
  con,      \* the fshv_con, with its env
  out,      \* the response being made: None when there is no write watcher
  answers,  \* the responses written
  state     \* "open", "closed", or "broken": memory freed or NULL is used

conVars == <<script, wire, polite, at, con, out, answers, state>>

-----------------------------------------------------------------------------
\* The bytes of a part of request i.
Bytes(i, part) == [b \in DOMAIN part |-> [of |-> i, ch |-> part[b]]]

Wire(s) == FlattenSeq([i \in DOMAIN s |-> Bytes(i, s[i].head \o s[i].body)])

\* con_reset.
Reset == [head |-> <<>>, hend |-> 0, body |-> None, req |-> None]

Frame(c, b) ==
  IF c.hend = 4 THEN [c EXCEPT !.body = Append(@, b)]
  ELSE [c EXCEPT !.head = Append(@, b), !.hend = Hend(@, b.ch)]

\* Mutant: each chunk is looked at alone.
FramedAlone(chunk) ==
  FoldLeft(Frame, IF con.hend = 4 THEN con
                  ELSE [con EXCEPT !.body = <<>>, !.hend = 0], chunk)

\* A chunk belongs to the head up to CR LF CR LF, and to the body after.
Framed(chunk) ==
  FoldLeft(Frame, IF con.hend = 4 THEN con ELSE [con EXCEPT !.body = <<>>], chunk)

\* fshv_env_malloc: 0 is a head that cannot be parsed.
Parsed(head) ==
  LET whole == {i \in DOMAIN script :
                  script[i].parses /\ head = Bytes(i, script[i].head)}
  IN IF whole = {} THEN 0 ELSE CHOOSE i \in whole : TRUE

Headed(c) ==
  IF c.req = None /\ c.hend = 4 THEN [c EXCEPT !.req = Parsed(c.head)] ELSE c

\* Mutant: the handler does not wait for a body.
BodyMissingNever(c) == FALSE

\* blen < content-length; without the header, -1 becomes the largest size_t.
BodyMissing(c) ==
  /\ script[c.req].method = "post"
  /\ script[c.req].length # None => Len(c.body) < script[c.req].length

Waits(c) == c.req = None \/ (c.req \notin {None, 0} /\ BodyMissing(c))

\* How far the client has sent.
Sent ==
  LET upTo == IF polite /\ Len(answers) < Len(script) THEN Len(answers) + 1
              ELSE Len(script)
  IN Cardinality({b \in DOMAIN wire : wire[b].of <= upTo})

\* What fshv_handle_cb has of the request after a chunk of k bytes.
After(k) == Headed(Framed(SubSeq(wire, at + 1, at + k)))

-----------------------------------------------------------------------------
(* fshv_handle_cb                                                          *)

Read(k) ==
  /\ state = "open"
  /\ at + k <= Sent
  /\ at' = at + k
  /\ UNCHANGED <<script, wire, polite>>

\* Head or body not yet complete.
ReadPart(k) ==
  /\ Read(k)
  /\ out = None
  /\ Waits(After(k))
  /\ con' = After(k)
  /\ UNCHANGED <<out, answers, state>>

\* "couldn't parse request head".
ReadBad(k) ==
  /\ Read(k)
  /\ out = None
  /\ After(k).req = 0
  /\ con' = After(k)
  /\ out' = [pc |-> "write", status |-> 400, length |-> 0, file |-> None,
             bout |-> None]
  /\ UNCHANGED <<answers, state>>

\* fshv_handle: the request goes to the handler, which makes the answer.
ReadWhole(k) ==
  /\ Read(k)
  /\ out = None
  /\ ~ Waits(After(k))
  /\ After(k).req # 0
  /\ con' = [After(k) EXCEPT !.body = None]
  /\ UNCHANGED <<answers, state>>

\* Bytes that come while a response is written find the body handed over, or
\* no request: NULL is dereferenced.
ReadEarly(k) ==
  /\ Read(k)
  /\ out # None
  /\ out.pc = "write"
  /\ state' = "broken"
  /\ UNCHANGED <<con, out, answers>>

\* fshv_close frees the connection; a write watcher still leads to it.
Close ==
  /\ state = "open"
  /\ out # None => out.pc = "write"
  /\ polite => out = None /\ Len(answers) = Len(script)
  /\ state' = IF out = None THEN "closed" ELSE "broken"
  /\ UNCHANGED <<script, wire, polite, at, con, out, answers>>

-----------------------------------------------------------------------------
(* fshv_respond and fshv_respond_cb                                        *)

\* prepare_response: the file of the answer is opened.
Prepare(opened) ==
  /\ state = "open"
  /\ out # None
  /\ out.pc = "prepare"
  /\ out' = [out EXCEPT !.pc = "write", !.bout = opened]
  /\ UNCHANGED <<script, wire, polite, at, con, answers, state>>

\* The last byte is written; body is what was found in the file, to its end.
RespondCb(body) ==
  /\ state = "open"
  /\ out # None
  /\ out.pc = "write"
  /\ answers' = Append(answers, [to |-> con.req, status |-> out.status,
                                 length |-> out.length, body |-> body])
  /\ con' = Reset
  /\ out' = None
  /\ UNCHANGED <<script, wire, polite, at, state>>

InitConnection ==
  /\ script \in Scripts
  /\ wire = Wire(script)
  /\ polite \in BOOLEAN
  /\ at = 0
  /\ con = [head |-> <<>>, hend |-> 0, body |-> None, req |-> None]
  /\ out = None
  /\ answers = <<>>
  /\ state = "open"
=============================================================================
