------------------------------- MODULE MCStartup -------------------------------
(* Small torrents and replies for Startup, written with an encoder of their own. *)
EXTENDS Startup

Str(s)    == <<Digits[Len(s) + 1], ":">> \o s
Num(n)    == <<"i", Digits[n + 1], "e">>
Entry(k, v) == Str(<<k>>) \o v
Dict(entries) == <<"d">> \o FlattenSeq(entries) \o <<"e">>
If(b, entries) == IF b THEN entries ELSE <<>>

\* Two hashes of two symbols each.
Blob == <<"a", "e", "1", "d">>
Info(extra) ==
  Dict(<<Entry("length", Num(7))>> \o
       If(extra, <<Entry("meta", Dict(<<Entry("x", <<"l", "l", "e", "e">>)>>))>>) \o
       <<Entry("name", Str(<<"pieces">>)), Entry("piece length", Num(4)), Entry("pieces", Str(Blob))>>)

\* A torrent with or without keys before, in and behind its info dictionary.
Torrent(before, inside, behind) ==
  LET bytes == Dict(<<Entry("announce", Str(<<"u">>))>> \o
                    If(before, <<Entry("comment", Str(<<"info">>)), Entry("date", <<"i", "-", "9", "e">>)>>) \o
                    <<Entry("info", Info(inside))>> \o
                    If(behind, <<Entry("urls", <<"l">> \o Str(<<"e">>) \o <<"e">>)>>))
  IN  [bytes  |-> bytes \o If(before, <<" ">>),
       whole  |-> Len(bytes),
       fields |-> [announce |-> <<"u">>, comment |-> IF before THEN <<"info">> ELSE NULL,
                   info_hash |-> Info(inside), name |-> <<"pieces">>, length |-> 7,
                   piece_length |-> 4, piece_hashes |-> <<<<"a", "e">>, <<"1", "d">>>>,
                   num_pieces |-> 2]]

\* A known key with a value of another type, or with none.
Odd(entries) == [bytes |-> Dict(entries), whole |-> Len(Dict(entries)), fields |-> NULL]

SomeTorrents ==
  {Torrent(b, i, a) : b, i, a \in BOOLEAN} \cup
  {Odd(<<Entry("announce", Num(3))>>), Odd(<<Entry("length", Str(<<"7">>))>>),
   Odd(<<Entry("info", Str(<<"x">>))>>), Odd(<<Str(<<"name">>)>>),
   Odd(<<Entry("info", Dict(<<>>)), <<"?">>>>)}

\* With nodes in place of a tracker.
Trackerless ==
  LET bytes == Dict(<<Entry("info", Info(FALSE)), Entry("nodes", <<"l", "e">>)>>)
  IN  {[bytes |-> bytes, whole |-> Len(bytes),
        fields |-> [Torrent(FALSE, FALSE, FALSE).fields EXCEPT !.announce = NULL]]}

Reply(bytes, plain, peers) ==
  [bytes |-> bytes, plain |-> plain, interval |-> 5, peers |-> peers]

Compact(blob) == Dict(<<Entry("interval", Num(5)), Entry("peers", Str(blob))>>)

\* Peers in compact form, none, one and two; no body at all; a failure; keys before
\* interval; a prefix of the key peers; and peers as a list of dictionaries.
SomeReplies ==
  {Reply(Compact(<<>>), TRUE, <<>>),
   Reply(<<>>, FALSE, NULL),
   Reply(Compact(<<"x", "1", "2">>), TRUE, <<[address |-> <<"x">>, port |-> 12]>>),
   Reply(Compact(<<"i", "1", "2", "e", "0", "7">>), TRUE,
         <<[address |-> <<"i">>, port |-> 12], [address |-> <<"e">>, port |-> 7]>>),
   Reply(Dict(<<Entry("failure", Str(<<"x">>))>>), FALSE, <<>>),
   Reply(Dict(<<Entry("complete", Num(1)), Entry("interval", Num(5)),
                Entry("peers", Str(<<"x", "1", "2">>))>>),
         FALSE, <<[address |-> <<"x">>, port |-> 12]>>),
   Reply(Dict(<<Entry("interval", Num(5)), Str(<<"p", "e">>) \o Str(<<"x", "1", "2">>)>>),
         FALSE, <<[address |-> <<"x">>, port |-> 12]>>),
   Reply(Dict(<<Entry("interval", Num(5)),
                Entry("peers", <<"l">> \o Dict(<<Entry("port", Num(6))>>) \o <<"e">>)>>),
         FALSE, NULL)}

\* Nothing, what could end the data, and what could go on with it.
SomeTails == {<<>>, <<"e", "e", "e", "e">>, <<"1", ":", "x", "e", "e">>}

SomeSymbols ==
  {"s"} \cup UNION {Range(x.bytes) : x \in SomeTorrents \cup Trackerless \cup SomeReplies}
        \cup UNION {Range(tail) : tail \in SomeTails}
-------------------------------------------------------------------------------
(* What the texts are read as.                                             *)

\* The items of a text.
ItemAt(b, p, depth) ==
  LET upTo(c) == Min({q \in p .. Len(b) : b[q] = c}) + 1
      type == IF b[p] \in Digit THEN "s" ELSE IF b[p] \in {"l", "d", "e", "i"} THEN b[p] ELSE "?"
      text == IF type = "s" THEN upTo(":") ELSE p + 1
      next == CASE type = "s" -> text + Number(SubSeq(b, p, text - 2))
                [] type = "i" -> upTo("e")
                [] OTHER      -> p + 1
  IN  [type |-> type, at |-> p, text |-> text, next |-> next,
       depth |-> depth + Change([type |-> type])]

Items(b, whole) ==
  LET from[p \in 1 .. whole + 1, d \in 0 .. whole] ==
        IF p > whole THEN <<>>
        ELSE LET x == ItemAt(b, p, d) IN <<x>> \o from[x.next, x.depth]
  IN  from[1, 0]

\* How many of its items are as they should be.
Good(t, items) ==
  IF t.fields # NULL THEN Len(items)
  ELSE Min({n \in 1 .. Len(items) - 1 :
              \/ items[n + 1].type = "?"
              \/ \E k \in Words : Spells(t.bytes, items[n], k) /\ items[n + 1].type # TypeOf(k)})

\* In each torrent here, a key is spelled for the last time where it is one.
Reading(t) ==
  LET items == Items(t.bytes, t.whole)
      good  == Good(t, items)
      at(k) == {n \in 1 .. good : Spells(t.bytes, items[n], k)}
      keys  == [k \in {w \in Words : at(w) # {}} |-> Max(at(k))]
      info  == IF "info" \in DOMAIN keys THEN keys["info"] ELSE 1
  IN  [items |-> items, good |-> good, keys |-> keys,
       ends  |-> Min({n \in info + 2 .. Len(items) : items[n].depth = items[info].depth}
                    \cup {Len(items)})]

SomeReadings ==
  [t \in SomeTorrents \cup Trackerless |-> Reading(t)] @@
  [r \in {x \in SomeReplies : x.plain} |-> [items |-> Items(r.bytes, Len(r.bytes))]]
================================================================================
