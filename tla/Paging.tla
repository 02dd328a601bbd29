------------------------------- MODULE Paging -------------------------------
(***************************************************************************)
(* Cursor pagination (meridian-api/src/pagination.rs): a reader goes       *)
(* through one subject's items, newest first, while items come and go and  *)
(* its cursor travels as text that one symbol of may be damaged.           *)
(***************************************************************************)
EXTENDS Integers, Sequences, SequencesExt

CONSTANTS
  Readers,         \* subjects: the bytes of their names
  Scope,           \* the subject whose items these are
  WordBytes,       \* bytes of a timestamp or id (8 in the code)
  DefaultPageSize, \* DEFAULT_PAGE_SIZE
  MaxPageSize,     \* MAX_PAGE_SIZE; MIN_PAGE_SIZE is 1
  PageSizes,       \* sizes asked for
  MaxItems,        \* bound on the items ever made
  MaxStamp         \* bound on created_at

Byte == 0 .. 255

\* 256 to the power of k.
ByteTo(k) ==
  LET power[j \in 0 .. k] == IF j = 0 THEN 1 ELSE 256 * power[j - 1] IN power[k]

Word == 0 .. ByteTo(WordBytes) - 1   \* u64

ASSUME PagingAssumption ==
  /\ Readers \subseteq Seq(Byte) /\ Scope \in Readers
  /\ WordBytes \in Nat \ {0}
  /\ MaxPageSize \in Nat /\ DefaultPageSize \in 1 .. MaxPageSize
  /\ PageSizes \subseteq Nat
  /\ {MaxItems, MaxStamp} \subseteq Word

VARIABLES
  items,    \* the collection, newest first
  made,     \* ids are given in order
  stamp,    \* the clock
  cursor,   \* the encoded cursor the reader holds, <<>> for none
  seen,     \* history: the keys read so far, in order
  standing, \* history: the keys there from the start of the reading to now
  reading   \* "new", "reading", "done", or "refused" after a damaged or foreign cursor

pagingVars == <<items, made, stamp, cursor, seen, standing, reading>>

\* (created_at, id), compared as a pair.
Below(a, b) == a.at < b.at \/ (a.at = b.at /\ a.id < b.id)

-----------------------------------------------------------------------------
\* The cursor as bytes: the subject's length and bytes, timestamp, id, checksum.
BigEndian(n, k) == [i \in 1 .. k |-> (n \div ByteTo(k - i)) % 256]
Number(bytes) ==
  LET read[k \in 0 .. Len(bytes)] == IF k = 0 THEN 0 ELSE 256 * read[k - 1] + bytes[k]
  IN  read[Len(bytes)]

U16 == 65536

\* The bit worth p of one or the other.
EitherBit(x, y, p) == IF (x \div p) % 2 = 1 \/ (y \div p) % 2 = 1 THEN p ELSE 0

\* The bitwise or of two bytes.
BitOr(x, y) ==
  EitherBit(x, y, 1) + EitherBit(x, y, 2) + EitherBit(x, y, 4) + EitherBit(x, y, 8)
    + EitherBit(x, y, 16) + EitherBit(x, y, 32) + EitherBit(x, y, 64) + EitherBit(x, y, 128)

\* Mutant: the sums are not kept.
Fletcher16_Constant(bytes) == 0

\* fletcher16: two u16 sums that wrap at 2^16 and not at 255.  The second, shifted
\* by a byte, loses its upper byte, and its lower one is ored with the other's upper.
Fletcher16(bytes) ==
  LET one[k \in 0 .. Len(bytes)] == IF k = 0 THEN 0 ELSE (one[k - 1] + bytes[k]) % U16
      two[k \in 0 .. Len(bytes)] == IF k = 0 THEN 0 ELSE (two[k - 1] + one[k]) % U16
      n == Len(bytes)
  IN  256 * BitOr(two[n] % 256, one[n] \div 256) + (one[n] % 256)

\* What the checksum covers; the length is cast to u16.
Body(c) ==
  BigEndian(Len(c.subject) % U16, 2) \o c.subject
    \o BigEndian(c.at, WordBytes) \o BigEndian(c.id, WordBytes)

Encode(c) == Body(c) \o BigEndian(Fletcher16(Body(c)), 2)

Invalid == [valid |-> FALSE]

\* Cursor::decode; the bytes behind the id are ignored.
Decode(bytes) ==
  LET rest == SubSeq(bytes, 1, Len(bytes) - 2)
      size == Number(SubSeq(rest, 1, 2))
      from == 2 + size
  IN  IF Len(bytes) < 4 + 2 * WordBytes THEN Invalid
      ELSE IF Fletcher16(rest) # Number(SubSeq(bytes, Len(bytes) - 1, Len(bytes))) THEN Invalid
      ELSE IF Len(rest) < 2 + size + 2 * WordBytes THEN Invalid
      ELSE [ valid   |-> TRUE,
             subject |-> SubSeq(rest, 3, from),
             at      |-> Number(SubSeq(rest, from + 1, from + WordBytes)),
             id      |-> Number(SubSeq(rest, from + WordBytes + 1, from + 2 * WordBytes)) ]

\* Base 64: symbols are 0 .. 63, the padding '=' is 64.
Padding == 64

\* A position behind the end counts as zero.
OrZero(s, n, k) == IF k <= n THEN s[k] ELSE 0

\* The j-th symbol: six bits of the three bytes of its group, or padding.
SymbolAt(bytes, j) ==
  LET b(i) == OrZero(bytes, Len(bytes), 3 * ((j - 1) \div 4) + i)
      i == (j - 1) % 4
  IN  IF i > 1 /\ 3 * ((j - 1) \div 4) + i > Len(bytes) THEN Padding
      ELSE IF i = 0 THEN b(1) \div 4
      ELSE IF i = 1 THEN 16 * (b(1) % 4) + (b(2) \div 16)
      ELSE IF i = 2 THEN 4 * (b(2) % 16) + (b(3) \div 64)
      ELSE b(3) % 64

Base64Encode(bytes) ==
  [j \in 1 .. 4 * ((Len(bytes) + 2) \div 3) |-> SymbolAt(bytes, j)]

\* The length of the text without the padding at its end.
Kept(text) == SelectLastInSeq(text, LAMBDA s : s # Padding)

\* The k-th byte: eight bits of the four symbols of its group.
ByteAt(text, kept, k) ==
  LET s(i) == OrZero(text, kept, 4 * ((k - 1) \div 3) + i)
      i == (k - 1) % 3
  IN  IF i = 0 THEN 4 * s(1) + (s(2) \div 16)
      ELSE IF i = 1 THEN 16 * (s(2) % 16) + (s(3) \div 4)
      ELSE 64 * (s(3) % 4) + s(4)

\* base64_decode: four symbols give three bytes, and two or three that are left
\* give one or two; so does a single one.  What is left of the last is dropped.
Base64Decode(text) ==
  LET kept == Kept(text)
  IN  [k \in 1 .. 3 * (kept \div 4) + ((kept % 4) + 1) \div 2 |-> ByteAt(text, kept, k)]

EncodeText(c) == Base64Encode(Encode(c))
\* Padding anywhere but at the end is no symbol.
DecodeText(text) ==
  IF \E i \in 1 .. Kept(text) : text[i] = Padding THEN Invalid
  ELSE Decode(Base64Decode(text))

-----------------------------------------------------------------------------
NormalPageSize(n) ==
  IF n < 1 THEN DefaultPageSize ELSE IF n > MaxPageSize THEN MaxPageSize ELSE n

\* Mutant: the item under the cursor again.
StartAfter_At(c) ==
  LET after == {i \in DOMAIN items : ~Below(c, items[i])}
  IN  IF after = {} THEN Len(items) + 1 ELSE Min(after)

\* The first item below the cursor, which need not be there any more.
StartAfter(c) ==
  LET after == {i \in DOMAIN items : Below(items[i], c)}
  IN  IF after = {} THEN Len(items) + 1 ELSE Min(after)

\* Mutant: a full page is taken for the last.
HasMore_Whole(end) == end + 1 < Len(items)

HasMore(end) == end < Len(items)

\* compute_page from a start; the next cursor is the last item of the page.
Serve(start, size) ==
  LET end  == IF start + NormalPageSize(size) - 1 < Len(items)
              THEN start + NormalPageSize(size) - 1 ELSE Len(items)
      page == SubSeq(items, start, end)
  IN  /\ seen' = seen \o page
      /\ cursor' = IF HasMore(end) /\ page # <<>>
                   THEN EncodeText([subject |-> Scope, at |-> Last(page).at,
                                    id |-> Last(page).id])
                   ELSE <<>>
      /\ reading' = IF HasMore(end) THEN "reading" ELSE "done"

\* Mutant: whose cursor it is does not matter.
InScope_Any(c) == c.valid

InScope(c) == c.valid /\ c.subject = Scope

FirstPage(size) ==
  /\ reading = "new"
  /\ Serve(1, size)
  /\ UNCHANGED <<items, made, stamp, standing>>

NextPage(text, size) ==
  LET c == DecodeText(text)
  IN  /\ reading = "reading"
      /\ IF InScope(c) THEN Serve(StartAfter(c), size)
         ELSE reading' = "refused" /\ UNCHANGED <<cursor, seen>>
      /\ UNCHANGED <<items, made, stamp, standing>>

\* One symbol of the text changes on its way.
DamagedPage(i, symbol, size) ==
  /\ cursor[i] # symbol
  /\ NextPage([cursor EXCEPT ![i] = symbol], size)

\* The cursor of another subject's list is handed in.
ForeignPage(r, size) ==
  /\ r # Scope /\ reading = "reading"
  /\ \E at \in 0 .. stamp, id \in 1 .. made :
       NextPage(EncodeText([subject |-> r, at |-> at, id |-> id]), size)

\* A new item, with the time of its creation.
Insert(tick) ==
  /\ made < MaxItems /\ stamp + tick <= MaxStamp
  /\ made' = made + 1
  /\ stamp' = stamp + tick
  /\ items' = <<[at |-> stamp', id |-> made']>> \o items
  /\ standing' = IF reading = "new" THEN standing \union {Head(items')} ELSE standing
  /\ UNCHANGED <<cursor, seen, reading>>

Delete(i) ==
  /\ items' = RemoveAt(items, i)
  /\ standing' = standing \ {items[i]}
  /\ UNCHANGED <<made, stamp, cursor, seen, reading>>

PagingInit ==
  /\ items = <<>> /\ made = 0 /\ stamp = 0
  /\ cursor = <<>> /\ seen = <<>> /\ standing = {} /\ reading = "new"

PagingNext ==
  \/ \E size \in PageSizes :
       \/ FirstPage(size)
       \/ NextPage(cursor, size)
       \/ \E r \in Readers : ForeignPage(r, size)
       \/ \E i \in DOMAIN cursor, symbol \in 0 .. Padding : DamagedPage(i, symbol, size)
  \/ \E tick \in {0, 1} : Insert(tick)
  \/ \E i \in DOMAIN items : Delete(i)

PagingSpec == PagingInit /\ [][PagingNext]_pagingVars

-----------------------------------------------------------------------------
\* The reader gets every item that stood through the reading, none twice, newest
\* first, whatever is added or removed between its pages, the item under its
\* cursor included; and a cursor that is damaged on its way, or is
\* another subject's, gives it no page from anywhere else.
PagesMissNothing ==
  /\ \A i, j \in DOMAIN seen : i < j => Below(seen[j], seen[i])
  /\ reading = "done" => standing \subseteq ToSet(seen)
  /\ seen # <<>> => \A k \in standing \ ToSet(seen) : Below(k, Last(seen))
=============================================================================
