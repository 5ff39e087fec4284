---------------------------- MODULE HttpRequest -----------------------------
(***************************************************************************)
(* src/lib/lib/http_request.c: a request as the callbacks of the parser    *)
(* put it together.  TCP cuts the bytes of a request anywhere, and the     *)
(* parser calls back for each part of a token that a recv has brought.     *)
(*                                                                         *)
(* A string is a sequence of parts, and a piece of the stream is a record  *)
(* of a token's kind and a part of its text.                               *)
(***************************************************************************)
EXTENDS Integers, Sequences

(* headers holds field, value, field, value and so on; NULL is <<>>.       *)
NewRequest == [url |-> <<>>, headers |-> <<>>, headers_index |-> 0,
               data |-> <<>>, complete |-> FALSE]

HttpRequestOf(Text) ==
  [url : Seq(Text), headers : Seq(Seq(Text)), headers_index : Nat,
   data : Seq(Text), complete : BOOLEAN]

OnUrl(r, text) == [r EXCEPT !.url = Append(@, text)]

(* The even places of the C array are fields, the odd ones their values.   *)
(* (A mistake: every part of a field begins a header.)                     *)
AppendHeader(r, index, headers, text) ==
  [r EXCEPT !.headers_index = index,
            !.headers = [headers EXCEPT ![index + 1] = Append(headers[index + 1], text)]]

FieldIndexAgain(r) == Len(r.headers)
FieldIndex(r) == IF r.headers_index % 2 = 1 THEN r.headers_index + 1 ELSE r.headers_index
ValueIndex(r) == IF r.headers_index % 2 = 0 THEN r.headers_index + 1 ELSE r.headers_index

OnHeaderField(r, text) ==
  AppendHeader(r, FieldIndex(r),
               IF FieldIndex(r) = Len(r.headers) THEN r.headers \o <<<<>>, <<>>>>
               ELSE r.headers, text)

OnHeaderValue(r, text) == AppendHeader(r, ValueIndex(r), r.headers, text)

OnBody(r, text) == [r EXCEPT !.data = Append(@, text)]

OnMessageComplete(r) == [r EXCEPT !.complete = TRUE]

(* http_request_add_data: llhttp calls back for each piece.                *)
Callback(r, piece) ==
  CASE piece.kind = "url"   -> OnUrl(r, piece.text)
    [] piece.kind = "field" -> OnHeaderField(r, piece.text)
    [] piece.kind = "value" -> OnHeaderValue(r, piece.text)
    [] piece.kind = "body"  -> OnBody(r, piece.text)
    [] piece.kind = "end"   -> OnMessageComplete(r)
AddData(r, pieces) ==
  LET after[n \in 0 .. Len(pieces)] ==
        IF n = 0 THEN r ELSE Callback(after[n - 1], pieces[n])
  IN after[Len(pieces)]

(* http_request_get_header finds the name.                                 *)
HasHeader(r, name) == \E i \in DOMAIN r.headers : i % 2 = 1 /\ r.headers[i] = name
=============================================================================
