------------------------------ MODULE EventWire ------------------------------
(***************************************************************************)
(* The wire between the contracts and the indexer.  #[contractevent]       *)
(* publishes a symbol and the #[topic] fields as topics and the other      *)
(* fields as a map; the indexer's parsers take them apart again by topic   *)
(* position and field name, and give up on what they do not expect.  A     *)
(* recognised event they give up on holds the indexer back and is finally  *)
(* dropped (module Indexer), so every event must come through.             *)
(*                                                                         *)
(* A value on the wire has its ScVal type.  Texts are model values, and    *)
(* the contracts take any bytes for a text: those of NotUtf8 are not valid *)
(* UTF-8, and decoding puts Replaced in their place, the same text with    *)
(* U+FFFD for what is invalid.                                             *)
(***************************************************************************)
EXTENDS Naturals, Sequences

CONSTANTS Addresses, EmptyText, None, NotUtf8, Replaced

Sv(type, v) == [type |-> type, value |-> v]
U32(n) == Sv("u32", n)
U64(n) == Sv("u64", n)
Address(a) == Sv("address", a)
String(s) == Sv("string", s)
Bytes(b) == Sv("bytes", b)

Wire(name, topics, data) == [topics |-> <<Sv("symbol", name)>> \o topics, data |-> data]

-----------------------------------------------------------------------------
(* Reading the wire.  None: the parser returned null or threw. *)

Void == Sv("void", EmptyText)
Topic(w, n) == IF n < Len(w.topics) THEN w.topics[n + 1] ELSE Void
Field(w, name) == IF name \in DOMAIN w.data THEN w.data[name] ELSE Void
EventName(w) == w.topics[1].value

ToBigInt(s) == IF s.type \in {"u32", "u64", "i128"} THEN s.value ELSE None
ToSafeInteger(s) == IF s.type \in {"u32", "u64"} THEN s.value ELSE None
IsValidStellarAddress(v) == v \in Addresses
ToAddress(s) == IF IsValidStellarAddress(s.value) THEN s.value ELSE None
\* utf8Decoder, which is not fatal
Decode(b) == IF b \in NotUtf8 THEN Replaced[b] ELSE b
BytesToUtf8(s) == IF s.type \in {"bytes", "string"} THEN Decode(s.value) ELSE None
ToText(s) == IF s.type = "void" THEN EmptyText ELSE BytesToUtf8(s)
ToHex(s) == IF s.type = "bytes" THEN s.value ELSE EmptyText

\* An event none of whose fields failed.
Parsed(event) == IF \E f \in DOMAIN event : event[f] = None THEN None ELSE event
=============================================================================
