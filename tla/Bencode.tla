-------------------------------- MODULE Bencode --------------------------------
(***************************************************************************)
(* Which texts are torrents and plain replies, said of their bytes and not *)
(* of the scanner: a text comes with its items, each with its place, and   *)
(* only neighbours are related.                                            *)
(***************************************************************************)
EXTENDS TrackerResponse

\* The start of a list or of a dictionary, the end of one, an integer, a string,
\* or a symbol that starts none of them: where it lies, where its contents begin,
\* where the next one lies, and how many lists and dictionaries are open behind it.
Item == [type : {"l", "d", "e", "i", "s", "?"}, at : Nat, text : Nat, next : Nat, depth : Int]

Change(x) == CASE x.type \in {"l", "d"} -> 1 [] x.type = "e" -> -1 [] OTHER -> 0

IsItem(b, whole, x) ==
  /\ x.at \in 1 .. whole /\ x.next \in x.at + 1 .. whole + 1
  /\ x.type \in {"l", "d", "e"} => b[x.at] = x.type /\ x.next = x.at + 1
  /\ x.type = "?" => b[x.at] \notin Digit \cup Space \cup {"i", "l", "d", "e"}
  /\ x.type = "i" =>
       /\ b[x.at] = "i" /\ x.text = x.at + 1 /\ x.text < x.next /\ b[x.next - 1] = "e"
       /\ \A j \in x.text .. x.next - 2 : b[j] \in Digit \/ (j = x.text /\ b[j] = "-")
  /\ x.type = "s" =>
       /\ x.text \in x.at + 2 .. x.next /\ b[x.text - 1] = ":"
       /\ \A j \in x.at .. x.text - 2 : b[j] \in Digit
       /\ x.next = x.text + Number(SubSeq(b, x.at, x.text - 2))

\* The items of one list or dictionary, with nothing but spaces behind it.
IsReading(b, whole, items) ==
  /\ whole \in 1 .. Len(b) /\ \A j \in whole + 1 .. Len(b) : b[j] \in Space
  /\ items \in Seq(Item) /\ items # <<>>
  /\ \A n \in 1 .. Len(items) : IsItem(b, whole, items[n])
  /\ items[1].at = 1 /\ items[1].type \in {"l", "d"} /\ items[1].depth = 1
  /\ items[Len(items)].next = whole + 1 /\ items[Len(items)].depth = 0
  /\ \A n \in 1 .. Len(items) - 1 :
       /\ items[n].depth > 0 /\ items[n + 1].at = items[n].next
       /\ items[n + 1].depth = items[n].depth + Change(items[n + 1])

TextOf(b, x)  == SubSeq(b, x.text, x.next - IF x.type = "i" THEN 2 ELSE 1)
Spells(b, x, k) == x.type = "s" /\ TextOf(b, x) = <<k>>

\* What else a torrent is read as: r.items, the places r.keys among them of the keys
\* that it has, where info ends, and how many items are as they should be.
Words     == Keys \cup {"info"}
TypeOf(k) == CASE k \in StringKeys -> "s" [] k \in IntKeys -> "i" [] OTHER -> "d"

IsValue(r, n) == \E k \in DOMAIN r.keys \ {"info"} : n = r.keys[k] + 1
IsWrong(r, n) ==
  \/ r.items[n].type = "?"
  \/ \E k \in DOMAIN r.keys : n = r.keys[k] + 1 /\ r.items[n].type # TypeOf(k)

ValueOf(b, r, k) == TextOf(b, r.items[r.keys[k] + 1])
SizeOf(b, r, k)  == Strtol(ValueOf(b, r, k)) % SizeRange

\* From the first byte of the value of info to the end of its last item.
InfoOf(b, r) == SubSeq(b, r.items[r.keys["info"]].next, r.items[r.ends].next - 1)

InfoEndsAt(r, end) ==
  LET first == r.keys["info"]
  IN  /\ end \in first + 2 .. Len(r.items) /\ r.items[end].type = "e"
      /\ r.items[end].depth = r.items[first].depth
      /\ \A n \in first + 1 .. end - 1 : r.items[n].depth > r.items[first].depth

\* What those of the keys that are in K stand for.
FieldsOf(b, r, K) ==
  [announce     |-> IF "announce" \in K THEN ValueOf(b, r, "announce") ELSE NULL,
   comment      |-> IF "comment" \in K THEN ValueOf(b, r, "comment") ELSE NULL,
   info_hash    |-> IF "info" \in K THEN InfoOf(b, r) ELSE NULL,
   name         |-> IF "name" \in K THEN ValueOf(b, r, "name") ELSE NULL,
   length       |-> IF "length" \in K THEN SizeOf(b, r, "length") ELSE 0,
   piece_length |-> IF "piece length" \in K THEN SizeOf(b, r, "piece length") ELSE 0,
   piece_hashes |-> IF "pieces" \in K THEN Hashes(ValueOf(b, r, "pieces")) ELSE NULL,
   num_pieces   |-> IF "pieces" \in K THEN Len(ValueOf(b, r, "pieces")) \div HashLength ELSE 0]

\* Up to item r.good, each known key occurs once at most, with a value of its type
\* behind it, and is not spelled elsewhere but as such a value; either this holds of
\* the whole text, or the next item is wrong.
IsTorrent(t, r) ==
  /\ IsReading(t.bytes, t.whole, r.items)
  /\ DOMAIN r.keys \subseteq Words /\ r.good \in 1 .. Len(r.items)
  /\ \A k \in DOMAIN r.keys :
       /\ r.keys[k] \in 1 .. r.good /\ r.keys[k] < Len(r.items)
       /\ Spells(t.bytes, r.items[r.keys[k]], k) /\ ~IsValue(r, r.keys[k])
  /\ \A n \in 1 .. r.good :
       /\ ~IsWrong(r, n)
       /\ \A k \in Words : Spells(t.bytes, r.items[n], k) =>
            IsValue(r, n) \/ (k \in DOMAIN r.keys /\ n = r.keys[k])
  /\ \/ t.fields = NULL /\ r.good < Len(r.items) /\ IsWrong(r, r.good + 1)
     \/ /\ t.fields # NULL /\ r.good = Len(r.items) /\ t.fields = FieldsOf(t.bytes, r, DOMAIN r.keys)
        /\ "info" \in DOMAIN r.keys => InfoEndsAt(r, r.ends)

\* A plain reply: a dictionary of interval and peers.
IsPlain(p, r) ==
  /\ IsReading(p.bytes, Len(p.bytes), r.items)
  /\ [n \in 1 .. Len(r.items) |-> r.items[n].type] = <<"d", "s", "i", "s", "s", "e">>
  /\ Spells(p.bytes, r.items[2], "interval") /\ Spells(p.bytes, r.items[4], "peers")
  /\ p.interval = Strtol(TextOf(p.bytes, r.items[3]))
  /\ p.peers = PeersOf(TextOf(p.bytes, r.items[5]))
================================================================================
