---------------------------- MODULE Descriptors -----------------------------
(***************************************************************************)
(* Descriptors: TMpegDescriptor's loop over raw bytes, and the classes     *)
(* that read one kind of descriptor each.                                  *)
(*                                                                         *)
(* A pointer p is the number of bytes before it, so p[k] is At(b, p + k).  *)
(* Text is the bytes handed to DecodeText; the character tables behind it  *)
(* are not modelled.  A class is one operator, which returns what all of   *)
(* its getters return.                                                     *)
(***************************************************************************)
EXTENDS DvbTime

At(b, p) == b[p + 1]
Word16(b, p) == 256 * At(b, p) + At(b, p + 1)
\* A length of twelve bits; the upper four bits belong to something else.
Length12(b, p) == 256 * (At(b, p) % 16) + At(b, p + 1)
Bytes(b, p, n) == SubSeq(b, p + 1, p + n)

\* A bug: an empty descriptor at the end of the loop is overlooked.
ParseMoreThanTwo(b, p, length) ==
  LET end == p + length
      From[q \in Nat] ==
        IF q + 2 >= end THEN << >>
        ELSE (IF At(b, q + 1) + 2 <= end - q
                THEN <<[tag  |-> At(b, q),
                        data |-> Bytes(b, q + 2, At(b, q + 1))]>>
                ELSE << >>)
             \o From[q + At(b, q + 1) + 2]
  IN From[p]

\* The descriptors in the length bytes at p; one that does not fit is left out.
ParseMpegDescriptors(b, p, length) ==
  LET end == p + length
      From[q \in Nat] ==
        IF q + 2 > end THEN << >>
        ELSE (IF At(b, q + 1) + 2 <= end - q
                THEN <<[tag  |-> At(b, q),
                        data |-> Bytes(b, q + 2, At(b, q + 1))]>>
                ELSE << >>)
             \o From[q + At(b, q + 1) + 2]
  IN From[p]

-----------------------------------------------------------------------------
\* The text behind the length byte at p, and the position behind that text.
Text(b, p) == Bytes(b, p + 1, At(b, p))
Behind(b, p) == p + At(b, p) + 1

\* Reads the n-th of the records of a fixed size, while a whole one is left.
Records(d, size, Read(_)) ==
  [n \in 1..(Len(d) \div size) |-> Read(Bytes(d, (n - 1) * size, size))]

\* Items of variable size from p on, as long as More holds; the next begins
\* where Next says.  What ItemVector points to, read.
Items(p, More(_), Read(_), Next(_)) ==
  LET From[q \in Nat] ==
        IF More(q) THEN <<Read(q)>> \o From[Next(q)] ELSE << >>
  IN From[p]

NetworkName(d) == [name |-> d]

Service(d) ==
  [type |-> At(d, 0), provider |-> Text(d, 1), name |-> Text(d, 2 + At(d, 1))]

ShortEvent(d) ==
  [language |-> Bytes(d, 0, 3), name |-> Text(d, 3),
   text |-> Text(d, 4 + At(d, 3))]

\* The items stand between two lengths; the text comes behind them.
ExtendedEvent(d) ==
  LET end == 5 + At(d, 4)
  IN [number |-> At(d, 0) \div 16, last |-> At(d, 0) % 16,
      language |-> Bytes(d, 1, 3),
      items |-> Items(5, LAMBDA p : p < end,
                      LAMBDA p : [description |-> Text(d, p),
                                  item |-> Text(d, Behind(d, p))],
                      LAMBDA p : Behind(d, Behind(d, p))),
      text |-> Text(d, end)]

Component(d) ==
  [content |-> At(d, 0) % 16, type |-> At(d, 1), component |-> At(d, 2),
   language |-> Bytes(d, 3, 3), text |-> Bytes(d, 6, Len(d) - 6)]

ContentClass(d) ==
  Records(d, 2, LAMBDA r : [level1 |-> At(r, 0) \div 16,
                            level2 |-> At(r, 0) % 16, user |-> At(r, 1)])

ParentalRating(d) ==
  Records(d, 4, LAMBDA r : [country |-> Bytes(r, 0, 3), rating |-> At(r, 3)])

ServiceList(d) ==
  Records(d, 3, LAMBDA r : [service |-> Word16(r, 0), type |-> At(r, 2)])

\* The channel number has ten bits.
LogicalChannel(d) ==
  Records(d, 4, LAMBDA r : [service |-> Word16(r, 0),
                            visible |-> At(r, 2) >= 128,
                            number |-> 256 * (At(r, 2) % 4) + At(r, 3)])

LocalTimeOffset(d) ==
  Records(d, 13, LAMBDA r : [country |-> Bytes(r, 0, 3),
                             region |-> At(r, 3) \div 4,
                             polarity |-> At(r, 3) % 2,
                             offset |-> Word16(r, 4),
                             change |-> Bytes(r, 6, 5),
                             next |-> Word16(r, 11)])

\* The loops of the three multilingual classes: a language and a text, or two.
\* A bug: the shortest item, one without a text, is overlooked.
LanguageItemsLonger(d, p) ==
  Items(p, LAMBDA q : q + 4 < Len(d),
        LAMBDA q : [language |-> Bytes(d, q, 3), text |-> Text(d, q + 3)],
        LAMBDA q : Behind(d, q + 3))

LanguageItems(d, p) ==
  Items(p, LAMBDA q : q + 3 < Len(d),
        LAMBDA q : [language |-> Bytes(d, q, 3), text |-> Text(d, q + 3)],
        LAMBDA q : Behind(d, q + 3))

MultilingualNetworkName(d) == LanguageItems(d, 0)

MultilingualComponent(d) ==
  [component |-> At(d, 0), items |-> LanguageItems(d, 1)]

MultilingualServiceName(d) ==
  Items(0, LAMBDA q : q + 4 < Len(d),
        LAMBDA q : [language |-> Bytes(d, q, 3), provider |-> Text(d, q + 3),
                    name |-> Text(d, Behind(d, q + 3))],
        LAMBDA q : Behind(d, Behind(d, q + 3)))

\* GetFrequency in Hz, GetSymbolRate in symbols per second.
CableDeliverySystem(d) ==
  [frequency  |-> BcdToDec(Word16(d, 0)) * 1000000
                    + BcdToDec(Word16(d, 2)) * 100,
   fecOuter   |-> At(d, 5) % 16,
   modulation |-> At(d, 6),
   symbolRate |-> (BcdByteToDec(At(d, 7)) * 100000
                     + BcdByteToDec(At(d, 8)) * 1000
                     + BcdByteToDec(At(d, 9)) * 10
                     + BcdByteToDec(At(d, 10) \div 16)) * 100,
   fecInner   |-> At(d, 10) % 16]

-----------------------------------------------------------------------------
\* Which class reads a descriptor, by its tag (enum TDescriptorTag).
ReadDescriptor(d) ==
  CASE d.tag = 64  -> NetworkName(d.data)
    [] d.tag = 65  -> ServiceList(d.data)
    [] d.tag = 68  -> CableDeliverySystem(d.data)
    [] d.tag = 72  -> Service(d.data)
    [] d.tag = 77  -> ShortEvent(d.data)
    [] d.tag = 78  -> ExtendedEvent(d.data)
    [] d.tag = 80  -> Component(d.data)
    [] d.tag = 84  -> ContentClass(d.data)
    [] d.tag = 85  -> ParentalRating(d.data)
    [] d.tag = 88  -> LocalTimeOffset(d.data)
    [] d.tag = 91  -> MultilingualNetworkName(d.data)
    [] d.tag = 93  -> MultilingualServiceName(d.data)
    [] d.tag = 94  -> MultilingualComponent(d.data)
    [] d.tag = 156 -> LogicalChannel(d.data)

=============================================================================
