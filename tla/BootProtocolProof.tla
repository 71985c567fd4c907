------------------------- MODULE BootProtocolProof -------------------------
(***************************************************************************)
(* For every set of programs, every checksum function and any number of    *)
(* runs of the installer, lost bytes and damaged bytes: what the Pi jumps  *)
(* to and what the installer commits to have passed the checksum, and the  *)
(* bootloader is not overwritten.  What has passed is the program itself   *)
(* if no byte is damaged, whatever the checksum, and if one is damaged     *)
(* that is not of the length, with a checksum such as CRC-32.              *)
(***************************************************************************)
EXTENDS BootProtocol, SequenceTheorems, TLAPS

\* s has at most one byte that is not p's.
OneOff(s, p) == \A j, k \in 1 .. Len(p) : s[j] # p[j] /\ s[k] # p[k] => j = k

\* A checksum that tells a program from the same program with one byte damaged:
\* CRC-32 does, whatever the program, since it detects any error within 32 bits.
DamageDetected ==
  \A p \in Programs : \A s \in Seq(Symbols \cup {"other"}) :
    Len(s) = Len(p) /\ OneOff(s, p) /\ Crc(s) = Crc(p) => s = p

\* The length that the Pi goes by is the one that was sent.
LengthArrived == pi \in {"code", "ack"} => length = Len(program)

\* The sum of the space check wraps for no program there is.
Addressable == \A p \in Programs : Base + Len(p) < U32

-----------------------------------------------------------------------------
(* The invariant.                                                          *)

PiStates == {"request", "info", "length", "checksum", "code", "ack", "jumped", "failed",
             "rebooting"}
HostStates == {"off", "listen", "skip", "header", "checksum", "success", "monitor", "done",
               "error"}

\* What the installer sends, or damage makes of it.
SentWords ==
  {ProgInfo, InstallerSuccess, Garbage} \cup {Length(n) : n \in Nat}
    \cup {Checksum(Crc(p)) : p \in Programs} \cup {<<"code", c>> : c \in Symbols}

SentBytes == [word : SentWords, place : Nat]

\* What the Pi sends: a word it has read, too.
ReplyWords == SentWords \cup {GetProgInfo, GetCode, PiSuccess, PiError, Done}

ReplyBytes == [word : ReplyWords, place : Nat]

TypeInv ==
  /\ pi \in PiStates /\ host \in HostStates
  /\ buf \in Seq(SentBytes) /\ Len(buf) <= WordLen
  /\ toPi \in Seq(SentBytes) /\ toHost \in Seq(ReplyBytes)
  /\ length \in Nat /\ checksum \in SentWords
  /\ mem \in Seq(Symbols \cup {"other"})
  /\ program \in Programs \cup {<<>>} /\ (host # "off" => program \in Programs)
  /\ lost \in Nat /\ damaged \in Nat

Has(s, b) == \E k \in 1 .. Len(s) : s[k] = b
HasTag(s, tag) == \E k \in 1 .. Len(s) : s[k].word[1] = tag

\* The second byte of INSTALLER_PROG_INFO: having read it, the Pi reads on.
InfoEnd == Bytes(ProgInfo)[2]

\* Nobody listens while the Pi is in the middle of something.
ListenInv ==
  host = "listen" =>
    /\ toPi = <<>> /\ Len(buf) < WordLen
    /\ pi \notin {"length", "checksum", "code", "ack"}

\* The Pi has read all of this run's header: it receives the code, or has answered.
HeaderRead == pi \in {"code", "ack"} \/ HasTag(toHost, "checksum") \/ HasTag(toHost, "PI_SUCCESS")

\* Then there is no other header to come.
HeaderInv ==
  HeaderRead =>
    /\ host # "listen" /\ pi \notin {"length", "checksum"}
    /\ ~Has(toPi, InfoEnd)
    /\ pi = "info" => ~Has(buf, InfoEnd)

\* Checksums that the Pi reads are those of the program.
RightChecksum(word) == word[1] = "checksum" => word = Checksum(Crc(program))
RightChecksums(s) == \A k \in 1 .. Len(s) : RightChecksum(s[k].word)

ChecksumInv ==
  /\ RightChecksums(toPi)
  /\ pi \in {"length", "checksum"} => RightChecksums(buf)
  /\ pi \in {"code", "ack"} => RightChecksum(checksum)

\* The Pi has what the installer sends, until it is told so or gives up.
LoadedInv ==
  pi = "ack" \/ HasTag(toHost, "PI_SUCCESS") => pi # "code" /\ Crc(mem) = Crc(program)

Committed == host \in {"monitor", "done", "error"}

\* The installer has committed before the Pi reads so,
AckInv ==
  HasTag(toPi, "INSTALLER_SUCCESS") \/ (pi = "ack" /\ HasTag(buf, "INSTALLER_SUCCESS")) =>
    Committed /\ committed = program

\* and does not commit to another program while the last one runs.
JumpInv ==
  pi = "jumped" =>
    /\ Crc(mem) = Crc(committed)
    /\ committed \in Programs
    /\ Committed \/ (host = "listen" /\ toHost = <<>>)

\* What is left to read is what the Pi still wants: first of the header ...
Counted(s) == \A k \in 1 .. Len(s) : s[k] = InfoEnd => Len(s) - k <= 2 * WordLen

HeaderCount ==
  /\ Counted(toPi)
  /\ pi = "info" /\ Len(buf) = WordLen /\ buf[2] = InfoEnd => Len(toPi) <= 2 * WordLen
  /\ pi = "length" => Len(buf) + Len(toPi) <= 2 * WordLen
  /\ pi = "checksum" => Len(buf) + Len(toPi) <= WordLen

\* ... then of the code, which is sent once.
CodeCount ==
  pi = "code" =>
    /\ buf = <<>>
    /\ Len(mem) + Len(toPi) <= Len(program)
    /\ host \in {"skip", "header", "checksum"} => mem = <<>> /\ toPi = <<>>

\* The length follows INSTALLER_PROG_INFO if nothing is missing and nothing damaged.
LengthBytes == Bytes(Length(Len(program)))

LengthFollows(s) ==
  \A k \in 1 .. Len(s) :
    s[k] = InfoEnd /\ Len(s) - k = 2 * WordLen =>
      s[k + 1] = LengthBytes[1] /\ s[k + 2] = LengthBytes[2]

LengthInv ==
  damaged = 0 =>
    /\ LengthFollows(toPi)
    /\ pi = "info" /\ Len(buf) = WordLen /\ buf[2] = InfoEnd /\ Len(toPi) = 2 * WordLen =>
         toPi[1] = LengthBytes[1] /\ toPi[2] = LengthBytes[2]
    /\ pi = "length" /\ Len(buf) + Len(toPi) = 2 * WordLen =>
         /\ IF Len(buf) >= 1 THEN buf[1] = LengthBytes[1] ELSE toPi[1] = LengthBytes[1]
         /\ IF Len(buf) = 2 THEN buf[2] = LengthBytes[2]
            ELSE toPi[2 - Len(buf)] = LengthBytes[2]
    /\ pi = "checksum" /\ Len(buf) + Len(toPi) = WordLen => length = Len(program)
    /\ pi \in {"code", "ack"} => length = Len(program)

\* And what is received has passed the space check.
SpaceInv ==
  /\ pi \in {"checksum", "code", "ack"} => (Base + length) % U32 < Base + Space
  /\ pi = "ack" => Len(mem) <= Len(program)

Inv ==
  /\ TypeInv /\ ListenInv /\ HeaderInv /\ ChecksumInv /\ LoadedInv /\ AckInv /\ JumpInv
  /\ HeaderCount /\ CodeCount /\ LengthInv /\ SpaceInv

-----------------------------------------------------------------------------
(* Bytes and words.                                                        *)

LEMMA ByteFacts ==
  ASSUME NEW S, NEW w \in S
  PROVE  /\ Bytes(w) \in Seq([word : S, place : Nat]) /\ Len(Bytes(w)) = 2
         /\ Bytes(w)[1] = [word |-> w, place |-> 1] /\ Bytes(w)[2] = [word |-> w, place |-> 2]
<1>1. Bytes(w) = [k \in 1 .. 2 |-> [word |-> w, place |-> k]]
  BY DEF Bytes, WordLen
<1>2. Bytes(w) \in [1 .. 2 -> [word : S, place : Nat]]
  BY <1>1
<1> QED
  BY <1>1, <1>2

\* A word read is in both bytes, at its places.
LEMMA WordRead ==
  ASSUME NEW S, NEW s \in Seq([word : S, place : Nat]), Len(s) = 2, FromBytes(s) # Garbage
  PROVE  /\ s[1] = [word |-> FromBytes(s), place |-> 1]
         /\ s[2] = [word |-> FromBytes(s), place |-> 2]
<1>1. s = Bytes(s[1].word) /\ FromBytes(s) = s[1].word
  BY DEF FromBytes
<1>2. s[1] \in [word : S, place : Nat]
  <2>1. 1 \in 1 .. Len(s)
    OBVIOUS
  <2> DEFINE T == [word : S, place : Nat]
  <2>2. s \in Seq(T)
    OBVIOUS
  <2> HIDE DEF T
  <2>3. s[1] \in T
    BY <2>1, <2>2, ElementOfSeq
  <2> QED
    BY <2>3 DEF T
<1>3. s[1].word \in S
  BY <1>2
<1> QED
  BY <1>1, <1>3, ByteFacts

LEMMA WordType ==
  ASSUME NEW s \in Seq(SentBytes), Len(s) = 2
  PROVE  FromBytes(s) \in SentWords
<1>1. s[1] \in SentBytes /\ Garbage \in SentWords
  BY ElementOfSeq DEF SentWords
<1>2. s[1].word \in SentWords
  BY <1>1 DEF SentBytes
<1> QED
  BY <1>1, <1>2 DEF FromBytes

LEMMA Tags ==
  /\ ProgInfo[1] = "INSTALLER_PROG_INFO" /\ InstallerSuccess[1] = "INSTALLER_SUCCESS"
  /\ GetProgInfo[1] = "PI_GET_PROG_INFO" /\ GetCode[1] = "PI_GET_CODE"
  /\ PiSuccess[1] = "PI_SUCCESS" /\ PiError[1] = "PI_ERROR" /\ Done[1] = "DONE!!!"
  /\ Garbage[1] = "garbage"
  /\ \A n : Length(n)[1] = "length"
  /\ \A c : Checksum(c)[1] = "checksum"
BY DEF ProgInfo, InstallerSuccess, GetProgInfo, GetCode, PiSuccess, PiError, Done, Garbage,
       Length, Checksum, Word

\* The installer sends nothing the Pi does.
LEMMA SentTags ==
  ASSUME NEW w \in SentWords
  PROVE  w[1] \in {"INSTALLER_PROG_INFO", "INSTALLER_SUCCESS", "garbage", "length", "checksum",
                   "code"}
BY Tags DEF SentWords

LEMMA ReplyTypes == SentWords \subseteq ReplyWords /\ SentBytes \subseteq ReplyBytes
BY DEF ReplyWords, SentBytes, ReplyBytes

LEMMA InfoEndFacts == InfoEnd = [word |-> ProgInfo, place |-> 2] /\ InfoEnd # Noise
<1>1. InfoEnd = [word |-> ProgInfo, place |-> 2]
  BY ByteFacts DEF InfoEnd
<1>2. InfoEnd.place = 2 /\ Noise.place = 0
  BY <1>1 DEF Noise
<1> QED
  BY <1>1, <1>2

-----------------------------------------------------------------------------
(* What happens to a stream: bytes are taken from its front, or get lost,  *)
(* or are damaged.                                                         *)

\* Each byte of s that is not damaged is one of t, with no more behind it.
Fades(s, t) ==
  \A k \in 1 .. Len(s) :
    s[k] # Noise =>
      \E j \in 1 .. Len(t) : s[k] = t[j] /\ Len(s) - k <= Len(t) - j

\* And where as much is behind it, what is behind it is the same.
Misses(s, t) ==
  \A k \in 1 .. Len(s) :
    \E j \in 1 .. Len(t) :
      /\ s[k] = t[j] /\ Len(s) - k <= Len(t) - j
      /\ Len(s) - k = Len(t) - j => \A i \in 1 .. Len(s) - k : s[k + i] = t[j + i]

LEMMA MissesFades ==
  ASSUME NEW s, NEW t, Misses(s, t)
  PROVE  Fades(s, t)
BY DEF Misses, Fades

\* What is left of t after d bytes.
LEMMA SuffixMisses ==
  ASSUME NEW S, NEW t \in Seq(S), NEW s \in Seq(S), NEW d \in 0 .. Len(t),
         Len(s) = Len(t) - d, \A k \in 1 .. Len(s) : s[k] = t[k + d]
  PROVE  Misses(s, t) /\ Len(s) <= Len(t)
<1>1. Len(t) \in Nat /\ Len(s) \in Nat
  OBVIOUS
<1>2. ASSUME NEW k \in 1 .. Len(s)
      PROVE  \E j \in 1 .. Len(t) :
               /\ s[k] = t[j] /\ Len(s) - k <= Len(t) - j
               /\ Len(s) - k = Len(t) - j => \A i \in 1 .. Len(s) - k : s[k + i] = t[j + i]
  <2>1. k + d \in 1 .. Len(t) /\ s[k] = t[k + d] /\ Len(s) - k = Len(t) - (k + d)
    BY <1>1
  <2>2. \A i \in 1 .. Len(s) - k : s[k + i] = t[(k + d) + i]
    <3> SUFFICES ASSUME NEW i \in 1 .. Len(s) - k
                 PROVE  s[k + i] = t[(k + d) + i]
      OBVIOUS
    <3>1. k + i \in 1 .. Len(s) /\ (k + i) + d = (k + d) + i
      BY <1>1
    <3> QED
      BY <3>1
  <2> QED
    BY <2>1, <2>2
<1>3. Misses(s, t)
  BY <1>2 DEF Misses
<1> QED
  BY <1>1, <1>3

LEMMA TailSuffix ==
  ASSUME NEW S, NEW t \in Seq(S), t # <<>>
  PROVE  /\ Tail(t) \in Seq(S) /\ Misses(Tail(t), t) /\ Len(Tail(t)) = Len(t) - 1
         /\ \A k \in 1 .. Len(t) - 1 : Tail(t)[k] = t[k + 1]
<1>1. /\ Tail(t) \in Seq(S) /\ Len(t) \in Nat \ {0} /\ Len(Tail(t)) = Len(t) - 1
      /\ \A k \in 1 .. Len(t) - 1 : Tail(t)[k] = t[k + 1]
  OBVIOUS
<1> DEFINE s == Tail(t)
<1> HIDE DEF s
<1>2. Misses(s, t)
  <2>1. s \in Seq(S) /\ 1 \in 0 .. Len(t) /\ Len(s) = Len(t) - 1
        /\ \A k \in 1 .. Len(s) : s[k] = t[k + 1]
    BY <1>1 DEF s
  <2> QED
    BY <2>1, SuffixMisses
<1> QED
  BY <1>1, <1>2 DEF s

LEMMA DropSuffix ==
  ASSUME NEW S, NEW t \in Seq(S), NEW d \in 0 .. Len(t)
  PROVE  /\ Drop(t, d) \in Seq(S) /\ Misses(Drop(t, d), t) /\ Len(Drop(t, d)) = Len(t) - d
<1> DEFINE s == Drop(t, d)
<1>1. Len(t) \in Nat /\ d \in Nat /\ d <= Len(t)
  OBVIOUS
<1>2. s \in Seq(S) /\ Len(s) = Len(t) - d /\ \A k \in 1 .. Len(t) - d : s[k] = t[k + d]
  BY <1>1 DEF Drop
<1> HIDE DEF s
<1>3. Misses(s, t)
  BY <1>1, <1>2, SuffixMisses
<1> QED
  BY <1>2, <1>3 DEF s

LEMMA SuffixesSuffix ==
  ASSUME NEW S, NEW t \in Seq(S), NEW s \in Suffixes(t)
  PROVE  s \in Seq(S) /\ Misses(s, t) /\ Len(s) <= Len(t)
<1>1. PICK d \in 0 .. Len(t) : s = Drop(t, d)
  <2>1. PICK k \in 1 .. Len(t) + 1 : s = SubSeq(t, k, Len(t))
    BY DEF Suffixes
  <2>2. k - 1 \in 0 .. Len(t) /\ (k - 1) + 1 = k
    OBVIOUS
  <2> QED
    BY <2>1, <2>2 DEF Drop
<1>2. Len(t) - d <= Len(t)
  OBVIOUS
<1> QED
  BY <1>1, <1>2, DropSuffix

LEMMA WithoutMisses ==
  ASSUME NEW S, NEW t \in Seq(S), NEW k \in 1 .. Len(t)
  PROVE  /\ Without(t, k) \in Seq(S) /\ Misses(Without(t, k), t)
         /\ Len(Without(t, k)) <= Len(t) /\ Len(Without(t, k)) < Len(t)
<1> DEFINE s == Without(t, k)
<1>1. Len(t) \in Nat /\ k \in Nat /\ 1 <= k /\ k <= Len(t)
  OBVIOUS
<1>2. /\ Take(t, k - 1) \in Seq(S) /\ Len(Take(t, k - 1)) = k - 1
      /\ \A j \in 1 .. k - 1 : Take(t, k - 1)[j] = t[j]
  BY <1>1 DEF Take
<1>3. /\ Drop(t, k) \in Seq(S) /\ Len(Drop(t, k)) = Len(t) - k
      /\ \A j \in 1 .. Len(t) - k : Drop(t, k)[j] = t[j + k]
  BY <1>1 DEF Drop
<1>4. /\ s \in Seq(S) /\ Len(s) = Len(t) - 1
      /\ \A j \in 1 .. Len(t) - 1 : s[j] = IF j < k THEN t[j] ELSE t[j + 1]
  <2> DEFINE a == Take(t, k - 1)
             b == Drop(t, k)
  <2>1. a \in Seq(S) /\ Len(a) = k - 1 /\ \A j \in 1 .. k - 1 : a[j] = t[j]
    BY <1>2
  <2>2. b \in Seq(S) /\ Len(b) = Len(t) - k /\ \A j \in 1 .. Len(t) - k : b[j] = t[j + k]
    BY <1>3
  <2>3. s = a \o b
    BY DEF Without
  <2> HIDE DEF a, b, s
  <2>4. s \in Seq(S) /\ Len(s) = (k - 1) + (Len(t) - k)
        /\ \A j \in 1 .. (k - 1) + (Len(t) - k) :
             s[j] = IF j <= k - 1 THEN a[j] ELSE b[j - (k - 1)]
    <3>1. a \in Seq(S) /\ b \in Seq(S)
      BY <2>1, <2>2
    <3>2. /\ a \o b \in Seq(S) /\ Len(a \o b) = Len(a) + Len(b)
          /\ \A j \in 1 .. Len(a) + Len(b) :
               (a \o b)[j] = IF j <= Len(a) THEN a[j] ELSE b[j - Len(a)]
      BY <3>1, ConcatProperties
    <3> QED
      BY <2>1, <2>2, <2>3, <3>2
  <2>5. (k - 1) + (Len(t) - k) = Len(t) - 1
    BY <1>1
  <2>6. ASSUME NEW j \in 1 .. Len(t) - 1
        PROVE  s[j] = IF j < k THEN t[j] ELSE t[j + 1]
    <3>1. CASE j < k
      BY <1>1, <2>1, <2>4, <2>5, <3>1
    <3>2. CASE j >= k
      <4>1. j - (k - 1) \in 1 .. Len(t) - k /\ j - (k - 1) + k = j + 1 /\ ~(j <= k - 1)
        BY <1>1, <3>2
      <4>2. s[j] = b[j - (k - 1)]
        BY <2>4, <2>5, <4>1
      <4>3. b[j - (k - 1)] = t[j - (k - 1) + k]
        BY <2>2, <4>1
      <4>4. ~(j < k)
        BY <1>1, <3>2
      <4> QED
        BY <4>1, <4>2, <4>3, <4>4
    <3> QED
      BY <1>1, <3>1, <3>2
  <2> QED
    BY <2>4, <2>5, <2>6
<1> HIDE DEF s
<1>5. ASSUME NEW j \in 1 .. Len(s)
      PROVE  \E l \in 1 .. Len(t) :
               /\ s[j] = t[l] /\ Len(s) - j <= Len(t) - l
               /\ Len(s) - j = Len(t) - l => \A i \in 1 .. Len(s) - j : s[j + i] = t[l + i]
  <2>1. CASE j < k
    <3>1. j \in 1 .. Len(t) /\ s[j] = t[j] /\ Len(s) - j <= Len(t) - j
          /\ Len(s) - j # Len(t) - j
      BY <1>1, <1>4, <2>1
    <3> QED
      BY <3>1
  <2>2. CASE j >= k
    <3>1. j + 1 \in 1 .. Len(t) /\ s[j] = t[j + 1] /\ Len(s) - j = Len(t) - (j + 1)
      BY <1>1, <1>4, <2>2
    <3>2. \A i \in 1 .. Len(s) - j : s[j + i] = t[(j + 1) + i]
      <4> SUFFICES ASSUME NEW i \in 1 .. Len(s) - j
                   PROVE  s[j + i] = t[(j + 1) + i]
        OBVIOUS
      <4>1. j + i \in 1 .. Len(t) - 1 /\ ~(j + i < k) /\ (j + i) + 1 = (j + 1) + i
        BY <1>1, <1>4, <2>2
      <4> QED
        BY <1>4, <4>1
    <3>3. Len(s) - j <= Len(t) - (j + 1)
      BY <1>1, <1>4, <3>1
    <3> QED
      BY <3>1, <3>2, <3>3
  <2> QED
    BY <1>1, <2>1, <2>2
<1>6. Misses(s, t)
  BY <1>5 DEF Misses
<1>7. Len(s) <= Len(t) /\ Len(s) < Len(t)
  BY <1>1, <1>4
<1> QED
  BY <1>4, <1>6, <1>7 DEF s

LEMMA DamageFades ==
  ASSUME NEW S, NEW t \in Seq(S), NEW k \in 1 .. Len(t), Noise \in S
  PROVE  /\ [t EXCEPT ![k] = Noise] \in Seq(S) /\ Len([t EXCEPT ![k] = Noise]) = Len(t)
         /\ Fades([t EXCEPT ![k] = Noise], t)
<1> DEFINE s == [t EXCEPT ![k] = Noise]
<1>1. /\ s \in Seq(S) /\ Len(s) = Len(t)
      /\ \A j \in 1 .. Len(t) : s[j] = IF j = k THEN Noise ELSE t[j]
  BY ExceptSeq
<1> HIDE DEF s
<1>2. Fades(s, t)
  BY <1>1 DEF Fades
<1> QED
  BY <1>1, <1>2 DEF s

LEMMA Same ==
  ASSUME NEW S, NEW t \in Seq(S)
  PROVE  Misses(t, t)
BY DEF Misses

\* What is not there does not come by itself.
LEMMA FadesHas ==
  ASSUME NEW s, NEW t, Fades(s, t)
  PROVE  /\ Has(s, InfoEnd) => Has(t, InfoEnd)
         /\ \A tag : tag # "garbage" /\ HasTag(s, tag) => HasTag(t, tag)
<1>1. Noise.word[1] = "garbage"
  BY Tags DEF Noise
<1> QED
  BY <1>1, InfoEndFacts DEF Fades, Has, HasTag

LEMMA FadesRight ==
  ASSUME NEW s, NEW t, Fades(s, t), RightChecksums(t)
  PROVE  RightChecksums(s)
<1>1. RightChecksum(Noise.word)
  BY Tags DEF Noise, RightChecksum
<1> QED
  BY <1>1 DEF Fades, RightChecksums

LEMMA FadesCounted ==
  ASSUME NEW S, NEW s \in Seq(S), NEW t \in Seq(S), Fades(s, t), Counted(t)
  PROVE  Counted(s)
<1> SUFFICES ASSUME NEW k \in 1 .. Len(s), s[k] = InfoEnd
             PROVE  Len(s) - k <= 4
  BY DEF Counted, WordLen
<1>1. PICK j \in 1 .. Len(t) : s[k] = t[j] /\ Len(s) - k <= Len(t) - j
  BY InfoEndFacts DEF Fades
<1>2. Len(t) - j <= 4
  BY <1>1 DEF Counted, WordLen
<1> QED
  BY <1>1, <1>2

LEMMA MissesLength ==
  ASSUME NEW S, NEW s \in Seq(S), NEW t \in Seq(S), Misses(s, t), Counted(t), LengthFollows(t)
  PROVE  LengthFollows(s)
<1> SUFFICES ASSUME NEW k \in 1 .. Len(s), s[k] = InfoEnd, Len(s) - k = 4
             PROVE  s[k + 1] = LengthBytes[1] /\ s[k + 2] = LengthBytes[2]
  BY DEF LengthFollows, WordLen
<1>1. PICK j \in 1 .. Len(t) :
        /\ s[k] = t[j] /\ Len(s) - k <= Len(t) - j
        /\ Len(s) - k = Len(t) - j => \A i \in 1 .. Len(s) - k : s[k + i] = t[j + i]
  BY DEF Misses
<1>2. Len(t) - j <= 4
  BY <1>1 DEF Counted, WordLen
<1>3. Len(t) - j = 4 /\ s[k + 1] = t[j + 1] /\ s[k + 2] = t[j + 2]
  BY <1>1, <1>2
<1> QED
  BY <1>1, <1>3 DEF LengthFollows, WordLen

\* What is sent comes behind.
LEMMA Appended ==
  ASSUME NEW S, NEW s \in Seq(S), NEW t \in Seq(S)
  PROVE  /\ s \o t \in Seq(S) /\ Len(s \o t) = Len(s) + Len(t)
         /\ \A k \in 1 .. Len(s) + Len(t) :
              (s \o t)[k] = IF k <= Len(s) THEN s[k] ELSE t[k - Len(s)]
         /\ \A b : Has(s \o t, b) => Has(s, b) \/ Has(t, b)
         /\ \A tag : HasTag(s \o t, tag) => HasTag(s, tag) \/ HasTag(t, tag)
<1>1. /\ s \o t \in Seq(S) /\ Len(s \o t) = Len(s) + Len(t) /\ Len(s) \in Nat /\ Len(t) \in Nat
      /\ \A k \in 1 .. Len(s) + Len(t) :
           (s \o t)[k] = IF k <= Len(s) THEN s[k] ELSE t[k - Len(s)]
  OBVIOUS
<1> DEFINE u == s \o t
<1> HIDE DEF u
<1>2. ASSUME NEW k \in 1 .. Len(u)
      PROVE  \/ \E j \in 1 .. Len(s) : u[k] = s[j]
             \/ \E j \in 1 .. Len(t) : u[k] = t[j]
  BY <1>1 DEF u
<1>3. \A b : Has(u, b) => Has(s, b) \/ Has(t, b)
  BY <1>2 DEF Has
<1>4. \A tag : HasTag(u, tag) => HasTag(s, tag) \/ HasTag(t, tag)
  BY <1>2 DEF HasTag
<1> QED
  BY <1>1, <1>3, <1>4 DEF u

LEMMA Squeezed ==
  ASSUME NEW m \in Nat, NEW n \in Nat, m <= n, n <= m
  PROVE  m = n
OBVIOUS

LEMMA TwoWords ==
  ASSUME NEW S, NEW s \in Seq(S), NEW t \in Seq(S), Len(s) = 2, Len(t) = 2
  PROVE  /\ s \o t \in Seq(S) /\ Len(s \o t) = 4
         /\ \A k \in 1 .. 4 : (s \o t)[k] = IF k <= 2 THEN s[k] ELSE t[k - 2]
<1> DEFINE u == s \o t
<1>1. /\ u \in Seq(S) /\ Len(u) = Len(s) + Len(t)
      /\ \A k \in 1 .. Len(s) + Len(t) : u[k] = IF k <= Len(s) THEN s[k] ELSE t[k - Len(s)]
  BY Appended
<1> HIDE DEF u
<1>2. Len(u) \in Nat /\ Len(u) <= 4 /\ 4 <= Len(u)
  BY <1>1
<1>3. Len(u) = 4
  BY <1>2, Squeezed
<1>4. \A k \in 1 .. 4 : u[k] = IF k <= 2 THEN s[k] ELSE t[k - 2]
  BY <1>1
<1> QED
  BY <1>1, <1>3, <1>4 DEF u

LEMMA ThreeWords ==
  ASSUME NEW S, NEW s \in Seq(S), NEW t \in Seq(S), Len(s) = 4, Len(t) = 2
  PROVE  /\ s \o t \in Seq(S) /\ Len(s \o t) = 6
         /\ \A k \in 1 .. 6 : (s \o t)[k] = IF k <= 4 THEN s[k] ELSE t[k - 4]
<1> DEFINE u == s \o t
<1>1. /\ u \in Seq(S) /\ Len(u) = Len(s) + Len(t)
      /\ \A k \in 1 .. Len(s) + Len(t) : u[k] = IF k <= Len(s) THEN s[k] ELSE t[k - Len(s)]
  BY Appended
<1> HIDE DEF u
<1>2. Len(u) \in Nat /\ Len(u) <= 6 /\ 6 <= Len(u)
  BY <1>1
<1>3. Len(u) = 6
  BY <1>2, Squeezed
<1>4. \A k \in 1 .. 6 : u[k] = IF k <= 4 THEN s[k] ELSE t[k - 4]
  BY <1>1
<1> QED
  BY <1>1, <1>3, <1>4 DEF u

LEMMA WordTags ==
  ASSUME NEW w, NEW tag, HasTag(Bytes(w), tag)
  PROVE  w[1] = tag
<1>1. PICK k \in 1 .. Len(Bytes(w)) : Bytes(w)[k].word[1] = tag
  BY DEF HasTag
<1>2. Len(Bytes(w)) = 2 /\ Bytes(w)[1].word = w /\ Bytes(w)[2].word = w
  <2>1. w \in {w}
    OBVIOUS
  <2>2. /\ Len(Bytes(w)) = 2 /\ Bytes(w)[1] = [word |-> w, place |-> 1]
        /\ Bytes(w)[2] = [word |-> w, place |-> 2]
    BY <2>1, ByteFacts
  <2> QED
    BY <2>2
<1> QED
  BY <1>1, <1>2
LEMMA Small ==
  ASSUME NEW n \in Nat, n <= 2
  PROVE  n = 0 \/ n = 1 \/ n = 2
OBVIOUS

\* As much of it: all of it.
LEMMA MissesNothing ==
  ASSUME NEW S, NEW s \in Seq(S), NEW t \in Seq(S), Misses(s, t), Len(s) = Len(t)
  PROVE  \A k \in 1 .. Len(s) : s[k] = t[k]
<1> SUFFICES ASSUME NEW k \in 1 .. Len(s)
             PROVE  s[k] = t[k]
  OBVIOUS
<1>0. 1 \in 1 .. Len(s)
  OBVIOUS
<1>1. PICK j \in 1 .. Len(t) :
        /\ s[1] = t[j] /\ Len(s) - 1 <= Len(t) - j
        /\ Len(s) - 1 = Len(t) - j => \A i \in 1 .. Len(s) - 1 : s[1 + i] = t[j + i]
  BY <1>0 DEF Misses
<1>2. j = 1 /\ \A i \in 1 .. Len(s) - 1 : s[1 + i] = t[1 + i]
  BY <1>1
<1>3. k = 1 \/ (k - 1 \in 1 .. Len(s) - 1 /\ 1 + (k - 1) = k)
  OBVIOUS
<1> QED
  BY <1>1, <1>2, <1>3

LEMMA ProgramType ==
  ASSUME TypeInv
  PROVE  program \in Seq(Symbols) /\ Len(program) \in Nat
<1>1. program \in Programs \cup {<<>>}
  BY DEF TypeInv
<1>2. Programs \subseteq Seq(Symbols) /\ <<>> \in Seq(Symbols)
  BY BootAssumption DEF BootAssumption
<1>3. program \in Seq(Symbols)
  BY <1>1, <1>2
<1> QED
  BY <1>3

-----------------------------------------------------------------------------
(* The steps.                                                              *)

LEMMA InitInv ==
  ASSUME Init
  PROVE  Inv
<1>1. TypeInv
  BY DEF Init, TypeInv, PiStates, HostStates, SentWords, WordLen
<1>2. ~HasTag(toHost, "checksum") /\ ~HasTag(toHost, "PI_SUCCESS")
      /\ ~HasTag(toPi, "INSTALLER_SUCCESS")
  BY DEF Init, HasTag
<1>3. ListenInv /\ HeaderInv /\ LoadedInv /\ AckInv /\ JumpInv /\ CodeCount /\ SpaceInv
  BY <1>2 DEF Init, ListenInv, HeaderInv, HeaderRead, LoadedInv, AckInv, JumpInv, CodeCount,
              SpaceInv
<1>4. ChecksumInv /\ HeaderCount /\ LengthInv
  BY DEF Init, ChecksumInv, RightChecksums, HeaderCount, Counted, LengthInv, LengthFollows
<1> QED
  BY <1>1, <1>3, <1>4 DEF Inv

\* The Pi does nothing, and the installer sends nothing.
LEMMA QuietStep ==
  ASSUME Inv,
         UNCHANGED <<piVars, program, committed>>,
         toPi' \in Seq(SentBytes), Fades(toPi', toPi), Len(toPi') <= Len(toPi),
         toHost' \in Seq(ReplyBytes), Fades(toHost', toHost), Len(toHost') <= Len(toHost),
         lost' \in Nat, damaged' \in Nat,
         damaged' = 0 => damaged = 0 /\ Misses(toPi', toPi),
         host' \in HostStates, host = "off" => host' = "off",
         host' = "listen" => host = "listen",
         host' \in {"skip", "header", "checksum"} => host \in {"skip", "header", "checksum"},
         Committed => Committed',
         host = "listen" /\ toHost = <<>> => host' \in {"listen", "error"}
  PROVE  Inv'
<1> USE DEF piVars
<1> DEFINE a == toPi'
           b == toHost'
<1>1. TypeInv /\ a \in Seq(SentBytes) /\ toPi \in Seq(SentBytes) /\ toHost \in Seq(ReplyBytes)
      /\ buf \in Seq(SentBytes) /\ Fades(a, toPi) /\ Fades(b, toHost)
      /\ Len(a) <= Len(toPi) /\ Len(b) <= Len(toHost) /\ b \in Seq(ReplyBytes)
  BY DEF Inv, TypeInv
<1>2. /\ Has(a, InfoEnd) => Has(toPi, InfoEnd)
      /\ HasTag(a, "INSTALLER_SUCCESS") => HasTag(toPi, "INSTALLER_SUCCESS")
      /\ HasTag(b, "checksum") => HasTag(toHost, "checksum")
      /\ HasTag(b, "PI_SUCCESS") => HasTag(toHost, "PI_SUCCESS")
  <2> HIDE DEF a, b
  <2> QED
    BY <1>1, FadesHas
<1>3. (toPi = <<>> => a = <<>>) /\ (toHost = <<>> => b = <<>>)
  <2> HIDE DEF a, b
  <2> QED
    BY <1>1
<1>4. TypeInv'
  BY <1>1 DEF TypeInv
<1>5. ListenInv'
  BY <1>3 DEF Inv, ListenInv
<1>6. HeaderInv'
  BY <1>2 DEF Inv, HeaderInv, HeaderRead
<1>7. ChecksumInv'
  <2>1. RightChecksums(a)
    BY <1>1, FadesRight DEF Inv, ChecksumInv
  <2> QED
    BY <2>1 DEF Inv, ChecksumInv, RightChecksums, RightChecksum
<1>8. LoadedInv'
  BY <1>2 DEF Inv, LoadedInv
<1>9. AckInv'
  BY <1>2 DEF Inv, AckInv
<1>10. JumpInv'
  <2>1. Committed \/ (host = "listen" /\ toHost = <<>>) =>
          (Committed \/ (host = "listen" /\ toHost = <<>>))'
    BY <1>3 DEF Committed
  <2> QED
    BY <2>1 DEF Inv, JumpInv
<1>11. HeaderCount'
  <2> HIDE DEF a
  <2>1. Counted(a)
    BY <1>1, FadesCounted DEF Inv, HeaderCount
  <2>2. Len(a) \in Nat /\ Len(toPi) \in Nat /\ Len(buf) \in Nat
    BY <1>1
  <2> QED
    BY <1>1, <2>1, <2>2 DEF Inv, HeaderCount, WordLen, a
<1>12. CodeCount'
  <2>1. Len(a) \in Nat /\ Len(toPi) \in Nat
    BY <1>1
  <2>2. pi = "code" => Len(mem) \in Nat /\ Len(program) \in Nat
    BY <1>1, LenProperties DEF TypeInv
  <2> QED
    BY <1>1, <1>3, <2>1, <2>2 DEF Inv, CodeCount
<1>13. LengthInv'
  <2> SUFFICES ASSUME damaged' = 0
               PROVE  LengthInv'
    BY DEF LengthInv
  <2>1. damaged = 0 /\ Misses(a, toPi)
    OBVIOUS
  <2>2. LengthBytes' = LengthBytes
    BY DEF LengthBytes
  <2>3. LengthFollows(a)
    BY <1>1, <2>1, MissesLength DEF Inv, LengthInv, HeaderCount
  <2>4. Len(a) = Len(toPi) => \A k \in 1 .. Len(a) : a[k] = toPi[k]
    BY <1>1, <2>1, MissesNothing
  <2> HIDE DEF a
  <2>5. /\ Len(a) \in Nat /\ Len(toPi) \in Nat /\ Len(buf) \in Nat
        /\ Len(buf) <= 2 /\ Len(a) <= Len(toPi)
    <3>1. Len(a) \in Nat /\ Len(toPi) \in Nat /\ Len(buf) \in Nat
      BY <1>1
    <3> QED
      BY <1>1, <3>1 DEF TypeInv, WordLen
  <2>6. ASSUME pi = "info", Len(buf) = WordLen, buf[2] = InfoEnd, Len(a) = 2 * WordLen
        PROVE  a[1] = LengthBytes[1] /\ a[2] = LengthBytes[2]
    <3>1. Len(toPi) <= 4 /\ Len(a) = 4
      BY <2>6 DEF Inv, HeaderCount, WordLen
    <3>2. Len(toPi) = 4
      BY <2>5, <3>1, Squeezed
    <3> QED
      BY <2>1, <2>4, <2>6, <3>1, <3>2 DEF Inv, LengthInv, WordLen
  <2>7. ASSUME pi = "length", Len(buf) + Len(a) = 2 * WordLen
        PROVE  /\ IF Len(buf) >= 1 THEN buf[1] = LengthBytes[1] ELSE a[1] = LengthBytes[1]
               /\ IF Len(buf) = 2 THEN buf[2] = LengthBytes[2]
                  ELSE a[2 - Len(buf)] = LengthBytes[2]
    <3>1. Len(toPi) = Len(a) /\ Len(buf) + Len(toPi) = 2 * WordLen /\ Len(a) >= 2
      BY <2>5, <2>7 DEF Inv, HeaderCount, WordLen
    <3>2. /\ IF Len(buf) >= 1 THEN buf[1] = LengthBytes[1] ELSE toPi[1] = LengthBytes[1]
          /\ IF Len(buf) = 2 THEN buf[2] = LengthBytes[2]
             ELSE toPi[2 - Len(buf)] = LengthBytes[2]
      BY <2>1, <2>7, <3>1 DEF Inv, LengthInv
    <3>3. a[1] = toPi[1] /\ a[2] = toPi[2]
      BY <2>4, <2>5, <3>1
    <3>4. CASE Len(buf) = 0
      BY <3>2, <3>3, <3>4
    <3>5. CASE Len(buf) = 1
      BY <3>2, <3>3, <3>5
    <3>6. CASE Len(buf) = 2
      BY <3>2, <3>3, <3>6
    <3> QED
      BY <2>5, <3>4, <3>5, <3>6, Small
  <2>8. pi = "checksum" /\ Len(buf) + Len(a) = WordLen => length = Len(program)
    BY <1>1, <2>1, <2>5 DEF Inv, LengthInv, HeaderCount, WordLen
  <2>9. pi \in {"code", "ack"} => length = Len(program)
    BY <2>1 DEF Inv, LengthInv
  <2> QED
    BY <2>2, <2>3, <2>6, <2>7, <2>8, <2>9 DEF LengthInv, LengthFollows, a
<1>14. SpaceInv'
  BY DEF Inv, SpaceInv
<1> QED
  BY <1>4, <1>5, <1>6, <1>7, <1>8, <1>9, <1>10, <1>11, <1>12, <1>13, <1>14 DEF Inv
\* The Pi gives up what it was doing, starts over, or waits for an answer.
LEMMA IdleStep ==
  ASSUME Inv,
         UNCHANGED <<hostVars, damaged>>, lost' \in Nat,
         pi' \in {"request", "info", "failed", "rebooting"},
         buf' = <<>> \/ (buf' = buf /\ pi' # "info"),
         length' \in Nat, checksum' \in SentWords, mem' \in Seq(Symbols \cup {"other"}),
         mem' = mem \/ pi = "code",
         toPi' \in Seq(SentBytes), Misses(toPi', toPi), Len(toPi') <= Len(toPi),
         NEW w \in {GetProgInfo, PiError, Done},
         toHost' \in {toHost, toHost \o Bytes(w)}
  PROVE  Inv'
<1> USE DEF hostVars
<1> DEFINE a == toPi'
           b == toHost'
<1>1. /\ TypeInv /\ a \in Seq(SentBytes) /\ toPi \in Seq(SentBytes)
      /\ toHost \in Seq(ReplyBytes) /\ buf \in Seq(SentBytes)
      /\ Len(a) <= Len(toPi) /\ Misses(a, toPi) /\ Fades(a, toPi)
  BY MissesFades DEF Inv, TypeInv
<1>2. w \in ReplyWords /\ w[1] \notin {"checksum", "PI_SUCCESS"}
  BY Tags DEF ReplyWords
<1>3. Bytes(w) \in Seq(ReplyBytes)
  BY <1>2, ByteFacts DEF ReplyBytes
<1>4. /\ b \in Seq(ReplyBytes)
      /\ HasTag(b, "checksum") => HasTag(toHost, "checksum")
      /\ HasTag(b, "PI_SUCCESS") => HasTag(toHost, "PI_SUCCESS")
  <2>1. toHost \o Bytes(w) \in Seq(ReplyBytes)
    BY <1>1, <1>3, Appended
  <2>2. /\ HasTag(toHost \o Bytes(w), "checksum") => HasTag(toHost, "checksum")
        /\ HasTag(toHost \o Bytes(w), "PI_SUCCESS") => HasTag(toHost, "PI_SUCCESS")
    BY <1>1, <1>2, <1>3, Appended, WordTags
  <2> QED
    BY <1>1, <2>1, <2>2
<1>5. /\ Has(a, InfoEnd) => Has(toPi, InfoEnd)
      /\ HasTag(a, "INSTALLER_SUCCESS") => HasTag(toPi, "INSTALLER_SUCCESS")
  <2> HIDE DEF a
  <2> QED
    BY <1>1, FadesHas
<1>6. toPi = <<>> => a = <<>>
  <2> HIDE DEF a
  <2> QED
    BY <1>1
<1>7. buf' \in Seq(SentBytes) /\ Len(buf') <= 2 /\ (Len(buf) < 2 => Len(buf') < 2)
  <2>1. <<>> \in Seq(SentBytes) /\ Len(<<>>) = 0 /\ Len(<<>>) < 2
    OBVIOUS
  <2>2. CASE buf' = <<>>
    BY <2>1, <2>2
  <2>3. CASE buf' = buf
    BY <1>1, <2>3 DEF TypeInv, WordLen
  <2> QED
    BY <2>2, <2>3
<1>8. TypeInv'
  BY <1>1, <1>4, <1>7 DEF TypeInv, PiStates, WordLen
<1>9. ListenInv'
  BY <1>6, <1>7 DEF Inv, ListenInv, WordLen
<1>10. HeaderInv'
  <2>1. ~Has(<<>>, InfoEnd)
    BY DEF Has
  <2> QED
    BY <1>4, <1>5, <2>1 DEF Inv, HeaderInv, HeaderRead
<1>11. ChecksumInv'
  <2>1. RightChecksums(a)
    BY <1>1, FadesRight DEF Inv, ChecksumInv
  <2> QED
    BY <2>1 DEF ChecksumInv, RightChecksums, RightChecksum
<1>12. LoadedInv'
  BY <1>4 DEF Inv, LoadedInv
<1>13. AckInv'
  BY <1>5 DEF Inv, AckInv, Committed
<1>14. JumpInv' /\ CodeCount' /\ SpaceInv'
  BY DEF JumpInv, CodeCount, SpaceInv
<1>15. HeaderCount'
  <2>1. Counted(a)
    BY <1>1, FadesCounted DEF Inv, HeaderCount
  <2>2. pi' = "info" => Len(buf') # 2
    BY DEF WordLen
  <2> QED
    BY <2>1, <2>2 DEF HeaderCount, Counted, WordLen
<1>16. LengthInv'
  <2> SUFFICES ASSUME damaged' = 0
               PROVE  LengthInv'
    BY DEF LengthInv
  <2>1. LengthFollows(a)
    BY <1>1, MissesLength DEF Inv, LengthInv, HeaderCount
  <2>2. LengthBytes' = LengthBytes
    BY DEF LengthBytes
  <2>3. pi' = "info" => Len(buf') # 2
    BY DEF WordLen
  <2> QED
    BY <2>1, <2>2, <2>3 DEF LengthInv, LengthFollows, WordLen
<1> QED
  BY <1>8, <1>9, <1>10, <1>11, <1>12, <1>13, <1>14, <1>15, <1>16 DEF Inv
\* What the Pi writes is read, or nobody is there.
LEMMA Written ==
  ASSUME NEW s, PiWrite(s)
  PROVE  toHost' \in {toHost, toHost \o s}
BY DEF PiWrite

LEMMA GivesUp ==
  ASSUME Inv, PiRequest \/ PiRepeat \/ PiTimeout \/ PiFail \/ PiProgramEnds \/ PiReboot
  PROVE  Inv'
<1>1. /\ length \in Nat /\ checksum \in SentWords /\ mem \in Seq(Symbols \cup {"other"})
      /\ toPi \in Seq(SentBytes) /\ Len(toPi) \in Nat /\ lost \in Nat
      /\ buf \in Seq(SentBytes)
  BY DEF Inv, TypeInv
<1>2. Misses(toPi, toPi)
  BY <1>1, Same
<1> USE DEF piVars, hostVars, faults
<1>3. CASE PiRequest
  <2>1. toHost' \in {toHost, toHost \o Bytes(GetProgInfo)}
    BY <1>3, Written DEF PiRequest
  <2> QED
    BY <1>1, <1>2, <1>3, <2>1, IdleStep DEF PiRequest
<1>4. CASE PiRepeat
  <2>1. toHost' \in {toHost, toHost \o Bytes(PiError)}
    BY <1>4 DEF PiRepeat
  <2> QED
    BY <1>1, <1>2, <1>4, <2>1, IdleStep DEF PiRepeat
<1>5. CASE PiTimeout
  <2>1. toHost' \in {toHost, toHost \o Bytes(PiError)}
    BY <1>5 DEF PiTimeout
  <2> QED
    BY <1>1, <1>2, <1>5, <2>1, IdleStep DEF PiTimeout
<1>6. CASE PiFail
  <2>1. toHost' \in {toHost, toHost \o Bytes(PiError)}
    BY <1>6, Written DEF PiFail
  <2> QED
    BY <1>1, <1>2, <1>6, <2>1, IdleStep DEF PiFail
<1>7. CASE PiProgramEnds
  <2>1. toHost' \in {toHost, toHost \o Bytes(Done)}
    BY <1>7, Written DEF PiProgramEnds
  <2> QED
    BY <1>1, <1>2, <1>7, <2>1, IdleStep DEF PiProgramEnds
<1>8. CASE PiReboot
  <2>1. toHost' \in {toHost, toHost \o Bytes(PiError)}
    BY <1>8 DEF PiReboot
  <2>2. toPi' \in Seq(SentBytes) /\ Misses(toPi', toPi) /\ Len(toPi') <= Len(toPi)
    <3>1. <<>> \in Seq(SentBytes) /\ Misses(<<>>, toPi) /\ Len(<<>>) <= Len(toPi)
      BY <1>1 DEF Misses
    <3>2. toPi' = <<>> \/ toPi' \in Suffixes(toPi)
      BY <1>8 DEF PiReboot
    <3> QED
      BY <1>1, <3>1, <3>2, SuffixesSuffix
  <2>3. Garbage \in SentWords
    BY DEF SentWords
  <2> QED
    BY <1>1, <1>8, <2>1, <2>2, <2>3, IdleStep DEF PiReboot
<1> QED
  BY <1>3, <1>4, <1>5, <1>6, <1>7, <1>8

LEMMA ReadsByte ==
  ASSUME Inv, PiByte
  PROVE  Inv'
<1> USE DEF piVars, hostVars, faults
<1> DEFINE a == toPi'
           c == buf'
           n == Len(buf)
<1>1. /\ TypeInv /\ toPi \in Seq(SentBytes) /\ buf \in Seq(SentBytes) /\ toPi # <<>>
      /\ pi \in Reading /\ a = Tail(toPi) /\ c = Append(buf, Head(toPi)) /\ n < 2
  BY DEF Inv, TypeInv, PiByte, WordLen
<1>2. Len(toPi) \in Nat \ {0} /\ n \in Nat /\ Head(toPi) = toPi[1] /\ toPi[1] \in SentBytes
  BY <1>1
<1>3. /\ a \in Seq(SentBytes) /\ Misses(a, toPi) /\ Fades(a, toPi)
      /\ Len(a) = Len(toPi) - 1 /\ \A k \in 1 .. Len(toPi) - 1 : a[k] = toPi[k + 1]
  BY <1>1, TailSuffix, MissesFades
<1>4. /\ c \in Seq(SentBytes) /\ Len(c) = n + 1 /\ c[n + 1] = toPi[1]
      /\ \A k \in 1 .. n : c[k] = buf[k]
  BY <1>1, <1>2
<1>5. n = 0 \/ n = 1
  <2> HIDE DEF n
  <2> QED
    BY <1>1, <1>2
<1>6. TypeInv'
  <2>1. Len(c) <= 2
    BY <1>4, <1>5
  <2> QED
    BY <1>1, <1>3, <1>4, <2>1 DEF TypeInv, PiByte, WordLen
<1>7. /\ Has(a, InfoEnd) => Has(toPi, InfoEnd)
      /\ HasTag(a, "INSTALLER_SUCCESS") => HasTag(toPi, "INSTALLER_SUCCESS")
  <2> HIDE DEF a
  <2> QED
    BY <1>3, FadesHas
<1>8. \A k \in 1 .. Len(c) : c[k] = toPi[1] \/ \E j \in 1 .. Len(buf) : c[k] = buf[j]
  <2> HIDE DEF c
  <2> QED
    BY <1>2, <1>4, <1>5
<1>9. ListenInv' /\ JumpInv' /\ CodeCount' /\ SpaceInv' /\ LoadedInv'
  BY <1>1 DEF Inv, ListenInv, JumpInv, CodeCount, SpaceInv, LoadedInv, Reading, PiByte
<1>10. HeaderInv'
  <2>1. Has(c, InfoEnd) => Has(buf, InfoEnd) \/ Has(toPi, InfoEnd)
    <3> HIDE DEF c
    <3> QED
      BY <1>2, <1>8 DEF Has
  <2> QED
    BY <1>7, <2>1 DEF Inv, HeaderInv, HeaderRead, PiByte
<1>11. ChecksumInv'
  <2>1. RightChecksums(a)
    BY <1>3, FadesRight DEF Inv, ChecksumInv
  <2>2. RightChecksums(buf) => RightChecksums(c)
    <3>1. RightChecksum(toPi[1].word)
      BY <1>2 DEF Inv, ChecksumInv, RightChecksums
    <3> HIDE DEF c
    <3> QED
      BY <1>8, <3>1 DEF RightChecksums
  <2> QED
    BY <2>1, <2>2 DEF Inv, ChecksumInv, RightChecksums, RightChecksum, PiByte
<1>12. AckInv'
  <2>1. HasTag(c, "INSTALLER_SUCCESS") =>
          HasTag(buf, "INSTALLER_SUCCESS") \/ HasTag(toPi, "INSTALLER_SUCCESS")
    <3> HIDE DEF c
    <3> QED
      BY <1>2, <1>8 DEF HasTag
  <2> QED
    BY <1>7, <2>1 DEF Inv, AckInv, Committed, PiByte
<1>13. HeaderCount'
  <2>1. Counted(a)
    BY <1>3, FadesCounted, <1>1 DEF Inv, HeaderCount
  <2>2. Len(c) + Len(a) = Len(buf) + Len(toPi)
    BY <1>2, <1>3, <1>4
  <2>3. ASSUME pi = "info", Len(c) = 2, c[2] = InfoEnd
        PROVE  Len(a) <= 4
    <3>1. toPi[1] = InfoEnd
      BY <1>4, <1>5, <2>3
    <3>2. Len(toPi) - 1 <= 4
      BY <1>2, <3>1 DEF Inv, HeaderCount, Counted, WordLen
    <3> QED
      BY <1>3, <3>2
  <2> QED
    BY <2>1, <2>2, <2>3 DEF Inv, HeaderCount, Counted, PiByte, WordLen
<1>14. LengthInv'
  <2> SUFFICES ASSUME damaged = 0
               PROVE  LengthInv'
    BY DEF LengthInv, PiByte
  <2>1. LengthFollows(a)
    BY <1>1, <1>3, MissesLength DEF Inv, LengthInv, HeaderCount
  <2>2. LengthBytes' = LengthBytes
    BY DEF LengthBytes, PiByte
  <2>3. Len(c) + Len(a) = Len(buf) + Len(toPi)
    BY <1>2, <1>3, <1>4
  <2>4. ASSUME pi = "info", Len(c) = WordLen, c[2] = InfoEnd, Len(a) = 2 * WordLen
        PROVE  a[1] = LengthBytes[1] /\ a[2] = LengthBytes[2]
    <3>1. toPi[1] = InfoEnd /\ Len(toPi) - 1 = 2 * WordLen
      BY <1>2, <1>3, <1>4, <1>5, <2>4 DEF WordLen
    <3>2. toPi[1 + 1] = LengthBytes[1] /\ toPi[1 + 2] = LengthBytes[2]
      BY <1>2, <3>1 DEF Inv, LengthInv, LengthFollows
    <3>3. a[1] = toPi[1 + 1] /\ a[2] = toPi[2 + 1]
      <4>1. 1 \in 1 .. Len(toPi) - 1 /\ 2 \in 1 .. Len(toPi) - 1
        BY <3>1 DEF WordLen
      <4> QED
        BY <1>3, <4>1
    <3> QED
      BY <3>2, <3>3
  <2>5. ASSUME pi = "length", Len(c) + Len(a) = 2 * WordLen
        PROVE  /\ IF Len(c) >= 1 THEN c[1] = LengthBytes[1] ELSE a[1] = LengthBytes[1]
               /\ IF Len(c) = 2 THEN c[2] = LengthBytes[2]
                  ELSE a[2 - Len(c)] = LengthBytes[2]
    <3>1. /\ IF n >= 1 THEN buf[1] = LengthBytes[1] ELSE toPi[1] = LengthBytes[1]
          /\ toPi[2 - n] = LengthBytes[2]
      BY <1>1, <2>3, <2>5 DEF Inv, LengthInv
    <3>2. CASE n = 0
      <4>1. Len(c) = 1 /\ c[1] = toPi[1]
        BY <1>4, <3>2
      <4>2. Len(toPi) = 4
        BY <1>2, <2>3, <2>5, <3>2 DEF WordLen
      <4>3. 1 \in 1 .. Len(toPi) - 1
        BY <4>2
      <4>4. a[1] = toPi[1 + 1]
        BY <1>3, <4>3
      <4> QED
        BY <3>1, <3>2, <4>1, <4>4
    <3>3. CASE n = 1
      <4>1. Len(c) = 2 /\ c[2] = toPi[1] /\ c[1] = buf[1]
        BY <1>4, <3>3
      <4> QED
        BY <3>1, <3>3, <4>1
    <3> QED
      BY <1>5, <3>2, <3>3
  <2>6. pi = "checksum" /\ Len(c) + Len(a) = WordLen => length = Len(program)
    BY <2>3 DEF Inv, LengthInv
  <2>7. pi \in {"code", "ack"} => length = Len(program)
    BY DEF Inv, LengthInv
  <2>8. pi' = pi /\ length' = length /\ program' = program
    BY DEF PiByte
  <2> HIDE DEF a, c
  <2> QED
    BY <2>1, <2>2, <2>4, <2>5, <2>6, <2>7, <2>8 DEF LengthInv, LengthFollows, a, c
<1> QED
  BY <1>6, <1>9, <1>10, <1>11, <1>12, <1>13, <1>14 DEF Inv
LEMMA ReadsInfo ==
  ASSUME Inv, PiInfo
  PROVE  Inv'
<1> USE DEF piVars, hostVars, faults
<1>1. /\ TypeInv /\ length \in Nat /\ checksum \in SentWords
      /\ mem \in Seq(Symbols \cup {"other"}) /\ toPi \in Seq(SentBytes) /\ Len(toPi) \in Nat
      /\ lost \in Nat /\ buf \in Seq(SentBytes) /\ Misses(toPi, toPi)
      /\ pi = "info" /\ Len(buf) = 2 /\ buf' = <<>>
  BY Same DEF Inv, TypeInv, PiInfo, ReadWord, WordLen
<1>2. CASE FromBytes(buf) # ProgInfo
  <2>1. pi' = "failed" /\ toHost' \in {toHost, toHost \o Bytes(PiError)}
    BY <1>2 DEF PiInfo
  <2> QED
    BY <1>1, <2>1, IdleStep DEF PiInfo
<1>3. CASE FromBytes(buf) = ProgInfo
  <2>1. pi' = "length"
    BY <1>3 DEF PiInfo
  <2>2. buf[2] = InfoEnd
    <3>1. ProgInfo # Garbage
      BY Tags
    <3>2. buf \in Seq([word : SentWords, place : Nat])
      BY <1>1 DEF SentBytes
    <3> QED
      BY <1>1, <1>3, <3>1, <3>2, WordRead, InfoEndFacts
  <2>3. ~HeaderRead /\ host # "listen"
    <3>1. Has(buf, InfoEnd)
      BY <1>1, <2>2 DEF Has
    <3> QED
      BY <1>1, <3>1 DEF Inv, HeaderInv, ListenInv, WordLen
  <2>4. Len(toPi) <= 4
    BY <1>1, <2>2 DEF Inv, HeaderCount, WordLen
  <2>5. buf' \in Seq(SentBytes) /\ Len(buf') = 0
    BY <1>1
  <2>6. TypeInv'
    BY <1>1, <2>1, <2>5 DEF TypeInv, PiStates, PiInfo, WordLen
  <2>7. ListenInv' /\ HeaderInv' /\ LoadedInv' /\ AckInv' /\ JumpInv' /\ CodeCount' /\ SpaceInv'
    BY <1>1, <2>1, <2>3 DEF Inv, ListenInv, HeaderInv, HeaderRead, LoadedInv, AckInv, Committed,
       JumpInv, CodeCount, SpaceInv, PiInfo
  <2>8. ChecksumInv'
    BY <1>1, <2>1, <2>5 DEF Inv, ChecksumInv, RightChecksums, RightChecksum, PiInfo
  <2>9. HeaderCount'
    BY <1>1, <2>1, <2>4, <2>5 DEF Inv, HeaderCount, Counted, WordLen, PiInfo
  <2>10. LengthInv'
    <3> SUFFICES ASSUME damaged = 0
                 PROVE  LengthInv'
      BY DEF LengthInv, PiInfo
    <3>1. LengthBytes' = LengthBytes /\ toPi' = toPi
      BY DEF LengthBytes, PiInfo
    <3>2. LengthFollows(toPi)
      BY DEF Inv, LengthInv
    <3>3. Len(toPi) = 4 => toPi[1] = LengthBytes[1] /\ toPi[2] = LengthBytes[2]
      BY <1>1, <2>2 DEF Inv, LengthInv, WordLen
    <3> QED
      BY <2>1, <2>5, <3>1, <3>2, <3>3 DEF LengthInv, LengthFollows, WordLen
  <2> QED
    BY <2>6, <2>7, <2>8, <2>9, <2>10 DEF Inv
<1> QED
  BY <1>2, <1>3

LEMMA ReadsLength ==
  ASSUME Inv, PiLength
  PROVE  Inv'
<1> USE DEF piVars, hostVars, faults
<1>1. /\ TypeInv /\ length \in Nat /\ checksum \in SentWords
      /\ mem \in Seq(Symbols \cup {"other"}) /\ toPi \in Seq(SentBytes) /\ Len(toPi) \in Nat
      /\ lost \in Nat /\ buf \in Seq(SentBytes) /\ Misses(toPi, toPi)
      /\ pi = "length" /\ Len(buf) = 2 /\ buf' = <<>>
  BY Same DEF Inv, TypeInv, PiLength, ReadWord, WordLen
<1>2. PICK n \in AsLength(FromBytes(buf)) :
        length' = n /\ pi' = IF (Base + n) % U32 >= Base + Space THEN "failed" ELSE "checksum"
  BY DEF PiLength
<1>3. length' \in Nat
  <2>1. U32 \in Int => 0 .. U32 - 1 \subseteq Nat
    OBVIOUS
  <2>2. FromBytes(buf) \in SentWords
    BY <1>1, WordType
  <2>3. CASE FromBytes(buf)[1] = "length"
    <3>1. PICK m \in Nat : FromBytes(buf) = Length(m)
      BY <2>2, <2>3, Tags DEF SentWords
    <3> QED
      BY <1>2, <2>3, <3>1 DEF AsLength, Length
  <2>4. CASE FromBytes(buf)[1] # "length"
    BY <1>2, <2>4 DEF AsLength
  <2> QED
    BY <2>3, <2>4
<1>4. CASE pi' = "failed"
  <2>1. toHost' \in {toHost, toHost \o Bytes(PiError)}
    BY DEF PiLength
  <2> QED
    BY <1>1, <1>3, <1>4, <2>1, IdleStep DEF PiLength
<1>5. CASE pi' # "failed"
  <2>1. pi' = "checksum" /\ ~((Base + length') % U32 >= Base + Space)
    BY <1>2, <1>5
  <2>2. (Base + length') % U32 < Base + Space
    BY <1>3, <2>1, BootAssumption DEF BootAssumption
  <2>3. ~HeaderRead /\ host # "listen"
    BY <1>1 DEF Inv, HeaderInv, ListenInv
  <2>4. Len(toPi) <= 2
    <3>1. Len(buf) + Len(toPi) <= 4
      BY <1>1 DEF Inv, HeaderCount, WordLen
    <3> QED
      BY <1>1, <3>1
  <2>5. buf' \in Seq(SentBytes) /\ Len(buf') = 0
    BY <1>1
  <2>6. TypeInv'
    BY <1>1, <1>3, <2>1, <2>5 DEF TypeInv, PiStates, PiLength, WordLen
  <2>7. ListenInv' /\ HeaderInv' /\ LoadedInv' /\ AckInv' /\ JumpInv' /\ CodeCount' /\ SpaceInv'
    BY <1>1, <2>1, <2>2, <2>3 DEF Inv, ListenInv, HeaderInv, HeaderRead, LoadedInv, AckInv,
       Committed, JumpInv, CodeCount, SpaceInv, PiLength
  <2>8. ChecksumInv'
    BY <1>1, <2>1, <2>5 DEF Inv, ChecksumInv, RightChecksums, RightChecksum, PiLength
  <2>9. HeaderCount'
    BY <1>1, <2>1, <2>4, <2>5 DEF Inv, HeaderCount, Counted, WordLen, PiLength
  <2>10. LengthInv'
    <3> SUFFICES ASSUME damaged = 0
                 PROVE  LengthInv'
      BY DEF LengthInv, PiLength
    <3>1. LengthBytes' = LengthBytes /\ toPi' = toPi /\ program' = program
      BY DEF LengthBytes, PiLength
    <3>2. LengthFollows(toPi)
      BY DEF Inv, LengthInv
    <3>3. ASSUME Len(toPi) = 2
          PROVE  length' = Len(program)
      <4>1. Len(buf) + Len(toPi) = 4
        BY <1>1, <3>3
      <4>2. buf[1] = LengthBytes[1] /\ buf[2] = LengthBytes[2]
        BY <1>1, <4>1 DEF Inv, LengthInv, WordLen
      <4> DEFINE w == Length(Len(program))
      <4>3. w[1] = "length" /\ w[2] = Len(program) /\ w \in {w}
        BY DEF Length
      <4> HIDE DEF w
      <4>4. /\ Bytes(w) \in Seq([word : {w}, place : Nat]) /\ Len(Bytes(w)) = 2
            /\ Bytes(w)[1].word = w /\ LengthBytes = Bytes(w)
        <5>1. /\ Bytes(w) \in Seq([word : {w}, place : Nat]) /\ Len(Bytes(w)) = 2
              /\ Bytes(w)[1] = [word |-> w, place |-> 1]
          BY <4>3, ByteFacts
        <5> QED
          BY <5>1 DEF LengthBytes, w
      <4>5. buf = Bytes(w)
        <5> DEFINE c == Bytes(w)
        <5>1. /\ buf \in Seq(SentBytes) /\ c \in Seq([word : {w}, place : Nat])
              /\ Len(buf) = 2 /\ Len(c) = 2 /\ buf[1] = c[1] /\ buf[2] = c[2]
          BY <1>1, <4>2, <4>4
        <5> HIDE DEF c
        <5>2. \A k \in 1 .. 2 : buf[k] = c[k]
          BY <5>1
        <5>3. buf = c
          BY <5>1, <5>2, SeqEqual
        <5> QED
          BY <5>3 DEF c
      <4>6. FromBytes(buf) = w
        BY <4>2, <4>4, <4>5 DEF FromBytes
      <4> QED
        BY <1>2, <4>3, <4>6 DEF AsLength
    <3> QED
      BY <2>1, <2>5, <3>1, <3>2, <3>3 DEF LengthInv, LengthFollows, WordLen
  <2> QED
    BY <2>6, <2>7, <2>8, <2>9, <2>10 DEF Inv
<1> QED
  BY <1>4, <1>5
\* The first byte of a word is the word, or the word is garbage.
LEMMA RightWord ==
  ASSUME NEW s \in Seq(SentBytes), Len(s) = 2, RightChecksums(s)
  PROVE  RightChecksum(FromBytes(s))
<1>1. RightChecksum(s[1].word) /\ RightChecksum(Garbage)
  BY Tags DEF RightChecksums, RightChecksum
<1> QED
  BY <1>1 DEF FromBytes

LEMMA ReadsChecksum ==
  ASSUME Inv, PiChecksum
  PROVE  Inv'
<1> USE DEF piVars, hostVars, faults
<1> DEFINE w == FromBytes(buf)
           b == toHost'
<1>1. /\ TypeInv /\ buf \in Seq(SentBytes) /\ toPi \in Seq(SentBytes)
      /\ toHost \in Seq(ReplyBytes) /\ Len(toPi) \in Nat /\ pi = "checksum" /\ Len(buf) = 2
      /\ pi' = "code" /\ buf' = <<>> /\ mem' = <<>> /\ checksum' = w
  BY DEF Inv, TypeInv, PiChecksum, ReadWord, WordLen
<1>2. toPi = <<>>
  <2>1. Len(buf) + Len(toPi) <= 2
    BY <1>1 DEF Inv, HeaderCount, WordLen
  <2> QED
    BY <1>1, <2>1
<1>3. ~HeaderRead /\ host # "listen"
  BY <1>1 DEF Inv, HeaderInv, ListenInv
<1>4. w \in SentWords /\ w[1] # "PI_SUCCESS" /\ w \in ReplyWords /\ GetCode \in ReplyWords
  BY <1>1, WordType, SentTags DEF ReplyWords
<1>5. /\ b \in Seq(ReplyBytes)
      /\ HasTag(b, "PI_SUCCESS") => HasTag(toHost, "PI_SUCCESS")
  <2> DEFINE s == Bytes(GetCode) \o Bytes(w)
  <2>1. Bytes(GetCode) \in Seq(ReplyBytes) /\ Bytes(w) \in Seq(ReplyBytes)
    BY <1>4, ByteFacts DEF ReplyBytes
  <2>2. s \in Seq(ReplyBytes) /\ ~HasTag(s, "PI_SUCCESS")
    <3>1. GetCode[1] # "PI_SUCCESS"
      BY Tags
    <3> HIDE DEF w
    <3> QED
      BY <1>4, <2>1, <3>1, Appended, WordTags
  <2>3. b \in {toHost, toHost \o s}
    BY Written DEF PiChecksum
  <2>4. /\ toHost \o s \in Seq(ReplyBytes)
        /\ HasTag(toHost \o s, "PI_SUCCESS") => HasTag(toHost, "PI_SUCCESS")
    <3> HIDE DEF s
    <3> QED
      BY <1>1, <2>2, Appended
  <2> HIDE DEF s, b
  <2> QED
    BY <1>1, <2>3, <2>4
<1>6. <<>> \in Seq(SentBytes) /\ <<>> \in Seq(Symbols \cup {"other"}) /\ Len(<<>>) = 0
  OBVIOUS
<1>7. TypeInv'
  BY <1>1, <1>4, <1>5, <1>6 DEF TypeInv, PiStates, PiChecksum, WordLen
<1>8. ~Has(toPi, InfoEnd) /\ ~HasTag(toPi, "INSTALLER_SUCCESS")
  BY <1>2 DEF Has, HasTag
<1>9. ListenInv' /\ HeaderInv' /\ AckInv' /\ JumpInv'
  BY <1>1, <1>3, <1>8 DEF ListenInv, HeaderInv, AckInv, JumpInv, PiChecksum
<1>10. ChecksumInv'
  <2>1. RightChecksums(toPi) /\ RightChecksum(w)
    BY <1>1, RightWord DEF Inv, ChecksumInv
  <2> QED
    BY <1>1, <2>1 DEF ChecksumInv, RightChecksums, RightChecksum, PiChecksum
<1>11. LoadedInv'
  BY <1>1, <1>3, <1>5 DEF HeaderRead, LoadedInv
<1>12. HeaderCount'
  BY <1>1 DEF Inv, HeaderCount, Counted, PiChecksum
<1>13. CodeCount'
  <2>1. Len(program) \in Nat /\ Len(<<>>) + Len(<<>>) = 0
    BY <1>1, ProgramType
  <2>2. Len(<<>>) + Len(<<>>) <= Len(program)
    BY <2>1
  <2> QED
    BY <1>1, <1>2, <2>2 DEF CodeCount, PiChecksum
<1>14. LengthInv'
  <2> SUFFICES ASSUME damaged = 0
               PROVE  LengthInv'
    BY DEF LengthInv, PiChecksum
  <2>1. LengthBytes' = LengthBytes /\ toPi' = toPi /\ program' = program /\ length' = length
    BY DEF LengthBytes, PiChecksum
  <2>2. LengthFollows(toPi)
    BY DEF Inv, LengthInv
  <2>3. length = Len(program)
    <3>1. Len(toPi) = 0
      BY <1>2
    <3>2. Len(buf) + Len(toPi) = 2
      BY <1>1, <3>1
    <3> QED
      BY <1>1, <3>2 DEF Inv, LengthInv, WordLen
  <2> QED
    BY <1>1, <2>1, <2>2, <2>3 DEF LengthInv, LengthFollows
<1>15. SpaceInv'
  BY <1>1 DEF Inv, SpaceInv, PiChecksum
<1> QED
  BY <1>7, <1>9, <1>10, <1>11, <1>12, <1>13, <1>14, <1>15 DEF Inv

LEMMA ReceivedType ==
  ASSUME NEW b \in SentBytes
  PROVE  Data(b) \in Symbols \cup {"other"}
<1>1. b.word \in SentWords
  BY DEF SentBytes
<1>2. b.word[1] = "code" => \E c \in Symbols : b.word = <<"code", c>>
  BY <1>1, Tags DEF SentWords
<1> QED
  BY <1>2 DEF Data

LEMMA Receives ==
  ASSUME Inv, PiReceive
  PROVE  Inv'
<1> USE DEF piVars, hostVars, faults
<1> DEFINE a == toPi'
           b == toHost'
           m == mem'
<1>1. /\ TypeInv /\ buf \in Seq(SentBytes) /\ toPi \in Seq(SentBytes)
      /\ toHost \in Seq(ReplyBytes) /\ mem \in Seq(Symbols \cup {"other"})
      /\ Len(toPi) \in Nat /\ Len(mem) \in Nat /\ pi = "code"
      /\ length \in Nat /\ checksum \in SentWords /\ lost \in Nat
      /\ buf' = buf /\ length' = length /\ checksum' = checksum /\ program' = program
  BY DEF Inv, TypeInv, PiReceive
<1>2. PICK n \in 0 .. Lesser(Chunk, Len(toPi)) :
        /\ m = mem \o [k \in 1 .. n |-> Data(toPi[k])]
        /\ a = Drop(toPi, n)
        /\ IF Len(mem) + n # length
           THEN UNCHANGED <<pi, toHost>>
           ELSE IF checksum = Checksum(Crc(m))
           THEN pi' = "ack" /\ PiWrite(Bytes(PiSuccess))
           ELSE pi' = "failed" /\ UNCHANGED toHost
  BY DEF PiReceive
<1>3. n \in Nat /\ n <= Len(toPi) /\ n \in 0 .. Len(toPi)
  <2>1. Lesser(Chunk, Len(toPi)) \in Nat /\ Lesser(Chunk, Len(toPi)) <= Len(toPi)
    BY <1>1, BootAssumption DEF Lesser, BootAssumption
  <2> QED
    BY <1>1, <2>1
<1>4. a \in Seq(SentBytes) /\ Misses(a, toPi) /\ Len(a) = Len(toPi) - n /\ Len(a) <= Len(toPi)
      /\ Fades(a, toPi)
  <2>1. a \in Seq(SentBytes) /\ Misses(a, toPi) /\ Len(a) = Len(toPi) - n
    BY <1>1, <1>2, <1>3, DropSuffix
  <2> QED
    BY <1>1, <1>3, <2>1, MissesFades
<1>5. m \in Seq(Symbols \cup {"other"}) /\ Len(m) = Len(mem) + n
  <2> DEFINE S == Symbols \cup {"other"}
             d == [k \in 1 .. n |-> Data(toPi[k])]
  <2>1. \A k \in 1 .. n : Data(toPi[k]) \in S
    <3> SUFFICES ASSUME NEW k \in 1 .. n
                 PROVE  Data(toPi[k]) \in S
      OBVIOUS
    <3>1. k \in 1 .. Len(toPi)
      BY <1>1, <1>3
    <3>2. toPi[k] \in SentBytes
      BY <1>1, <3>1, ElementOfSeq
    <3> QED
      BY <3>2, ReceivedType
  <2>2. mem \in Seq(S)
    BY <1>1
  <2> HIDE DEF S
  <2>3. d \in Seq(S) /\ Len(d) = n
    BY <1>3, <2>1
  <2> HIDE DEF d
  <2>4. mem \o d \in Seq(S) /\ Len(mem \o d) = Len(mem) + n
    BY <2>2, <2>3, ConcatProperties
  <2> QED
    BY <1>2, <2>4 DEF S, d
<1>6. /\ HeaderRead /\ host # "listen" /\ ~Has(toPi, InfoEnd) /\ ~HasTag(toHost, "PI_SUCCESS")
      /\ buf = <<>> /\ Len(mem) + Len(toPi) <= Len(program)
      /\ host \in {"skip", "header", "checksum"} => mem = <<>> /\ toPi = <<>>
  BY <1>1 DEF Inv, HeaderRead, HeaderInv, LoadedInv, CodeCount
<1>7. CASE pi' = "failed"
  <2>1. toHost' \in {toHost, toHost \o Bytes(PiError)}
    BY <1>1, <1>2, <1>7
  <2> QED
    BY <1>1, <1>4, <1>5, <1>7, <2>1, IdleStep DEF PiReceive
<1>8. CASE pi' # "failed"
  <2>1. /\ pi' = "code" /\ toHost' = toHost
        \/ /\ pi' = "ack" /\ checksum = Checksum(Crc(m)) /\ PiWrite(Bytes(PiSuccess))
    BY <1>1, <1>2, <1>8
  <2>2. b \in Seq(ReplyBytes) /\ (pi' = "code" => b = toHost)
    <3>1. PiSuccess \in ReplyWords
      BY DEF ReplyWords
    <3>2. Bytes(PiSuccess) \in Seq(ReplyBytes)
      BY <3>1, ByteFacts DEF ReplyBytes
    <3>3. toHost \o Bytes(PiSuccess) \in Seq(ReplyBytes)
      BY <1>1, <3>2, Appended
    <3> QED
      BY <1>1, <2>1, <3>3, Written
  <2>3. /\ Has(a, InfoEnd) => Has(toPi, InfoEnd)
        /\ HasTag(a, "INSTALLER_SUCCESS") => HasTag(toPi, "INSTALLER_SUCCESS")
    <3> HIDE DEF a
    <3> QED
      BY <1>4, FadesHas
  <2>4. TypeInv'
    BY <1>1, <1>4, <1>5, <2>1, <2>2 DEF TypeInv, PiStates, PiReceive, WordLen
  <2>5. ListenInv' /\ HeaderInv'
    BY <1>6, <2>1, <2>3 DEF ListenInv, HeaderInv, PiReceive
  <2>6. ChecksumInv'
    <3>1. RightChecksums(a) /\ RightChecksum(checksum)
      BY <1>1, <1>4, FadesRight DEF Inv, ChecksumInv
    <3> QED
      BY <1>1, <2>1, <3>1 DEF ChecksumInv, RightChecksums, RightChecksum
  <2>7. LoadedInv'
    <3>1. CASE pi' = "code"
      BY <1>6, <2>2, <3>1 DEF LoadedInv
    <3>2. CASE pi' = "ack"
      <4>1. Checksum(Crc(m)) = Checksum(Crc(program))
        <5>1. RightChecksum(checksum) /\ checksum[1] = "checksum" /\ checksum = Checksum(Crc(m))
          BY <1>1, <2>1, <3>2, Tags DEF Inv, ChecksumInv
        <5> QED
          BY <5>1 DEF RightChecksum
      <4>2. Crc(m) = Crc(program)
        BY <4>1 DEF Checksum
      <4> QED
        BY <1>1, <3>2, <4>2 DEF LoadedInv
    <3> QED
      BY <2>1, <3>1, <3>2
  <2>8. AckInv'
    <3>1. ~HasTag(<<>>, "INSTALLER_SUCCESS")
      BY DEF HasTag
    <3> QED
      BY <1>1, <1>6, <2>3, <3>1 DEF Inv, AckInv, Committed, PiReceive
  <2>9. JumpInv'
    BY <2>1 DEF JumpInv
  <2>10. HeaderCount'
    <3>1. Counted(a)
      BY <1>1, <1>4, FadesCounted DEF Inv, HeaderCount
    <3> QED
      BY <2>1, <3>1 DEF HeaderCount, Counted
  <2>11. Len(program) \in Nat /\ Len(m) + Len(a) <= Len(program) /\ Len(m) <= Len(program)
    <3>1. Len(program) \in Nat
      BY <1>1, ProgramType
    <3> HIDE DEF m, a
    <3> QED
      BY <1>1, <1>3, <1>4, <1>5, <1>6, <3>1
  <2>12. CodeCount'
    <3>1. host \in {"skip", "header", "checksum"} => m = <<>> /\ a = <<>>
      <4> SUFFICES ASSUME host \in {"skip", "header", "checksum"}
                   PROVE  m = <<>> /\ a = <<>>
        OBVIOUS
      <4>1. mem = <<>> /\ toPi = <<>> /\ Len(mem) = 0 /\ Len(toPi) = 0
        BY <1>6
      <4>2. n = 0
        BY <1>3, <4>1
      <4> HIDE DEF m, a
      <4>3. Len(m) = 0 /\ Len(a) = 0
        BY <1>4, <1>5, <4>1, <4>2
      <4> QED
        BY <1>4, <1>5, <4>3, EmptySeq
    <3> QED
      BY <1>1, <1>6, <2>11, <3>1 DEF CodeCount, PiReceive
  <2>13. LengthInv'
    <3> SUFFICES ASSUME damaged = 0
                 PROVE  LengthInv'
      BY DEF LengthInv, PiReceive
    <3>1. LengthFollows(a)
      BY <1>1, <1>4, MissesLength DEF Inv, LengthInv, HeaderCount
    <3>2. LengthBytes' = LengthBytes
      BY <1>1 DEF LengthBytes
    <3>3. length = Len(program)
      BY <1>1 DEF Inv, LengthInv
    <3> QED
      BY <1>1, <2>1, <3>1, <3>2, <3>3 DEF LengthInv, LengthFollows
  <2>14. SpaceInv'
    BY <1>1, <2>1, <2>11 DEF Inv, SpaceInv
  <2> QED
    BY <2>4, <2>5, <2>6, <2>7, <2>8, <2>9, <2>10, <2>12, <2>13, <2>14 DEF Inv
<1> QED
  BY <1>7, <1>8

\* The Pi jumps when it has read that the installer has committed.
LEMMA AckRead ==
  ASSUME Inv, PiAck, FromBytes(buf) = InstallerSuccess
  PROVE  pi' = "jumped" /\ Committed /\ committed = program /\ Crc(mem) = Crc(committed)
<1>1. buf \in Seq(SentBytes) /\ pi = "ack" /\ Len(buf) = 2
  BY DEF Inv, TypeInv, PiAck, ReadWord, WordLen
<1>2. HasTag(buf, "INSTALLER_SUCCESS")
  <2>1. InstallerSuccess # Garbage
    BY Tags
  <2>2. buf \in Seq([word : SentWords, place : Nat])
    BY <1>1 DEF SentBytes
  <2>3. buf[1] = [word |-> InstallerSuccess, place |-> 1]
    BY <1>1, <2>1, <2>2, WordRead
  <2> QED
    BY <1>1, <2>3, Tags DEF HasTag
<1> QED
  BY <1>1, <1>2 DEF Inv, AckInv, LoadedInv, PiAck

LEMMA Jumps ==
  ASSUME Inv, PiAck
  PROVE  Inv'
<1> USE DEF piVars, hostVars, faults
<1>1. /\ TypeInv /\ length \in Nat /\ checksum \in SentWords
      /\ mem \in Seq(Symbols \cup {"other"}) /\ toPi \in Seq(SentBytes) /\ Len(toPi) \in Nat
      /\ lost \in Nat /\ buf \in Seq(SentBytes) /\ Misses(toPi, toPi)
      /\ pi = "ack" /\ Len(buf) = 2 /\ buf' = <<>>
  BY Same DEF Inv, TypeInv, PiAck, ReadWord, WordLen
<1>2. CASE FromBytes(buf) # InstallerSuccess
  <2>1. pi' = "failed" /\ toHost' \in {toHost, toHost \o Bytes(PiError)}
    BY <1>2 DEF PiAck
  <2> QED
    BY <1>1, <2>1, IdleStep DEF PiAck
<1>3. CASE FromBytes(buf) = InstallerSuccess
  <2>1. pi' = "jumped"
    BY <1>3 DEF PiAck
  <2>2. Committed /\ committed = program /\ Crc(mem) = Crc(committed)
    BY <1>3, AckRead
  <2>3. HeaderRead /\ committed \in Programs
    BY <1>1, <2>2 DEF HeaderRead, TypeInv, Committed
  <2>4. buf' \in Seq(SentBytes) /\ Len(buf') = 0
    BY <1>1
  <2>5. TypeInv'
    BY <1>1, <2>1, <2>4 DEF TypeInv, PiStates, PiAck, WordLen
  <2>6. ListenInv' /\ HeaderInv' /\ LoadedInv' /\ AckInv' /\ JumpInv' /\ CodeCount' /\ SpaceInv'
    BY <1>1, <2>1, <2>2, <2>3 DEF Inv, ListenInv, HeaderInv, LoadedInv, AckInv, Committed,
       JumpInv, CodeCount, SpaceInv, PiAck
  <2>7. ChecksumInv' /\ HeaderCount'
    BY <2>1 DEF Inv, ChecksumInv, RightChecksums, RightChecksum, HeaderCount, Counted, PiAck
  <2>8. LengthInv'
    <3>1. LengthBytes' = LengthBytes
      BY DEF LengthBytes, PiAck
    <3> QED
      BY <2>1, <3>1 DEF Inv, LengthInv, LengthFollows, PiAck
  <2> QED
    BY <2>5, <2>6, <2>7, <2>8 DEF Inv
<1> QED
  BY <1>2, <1>3

LEMMA PiInv ==
  ASSUME Inv, PiNext
  PROVE  Inv'
BY GivesUp, ReadsByte, ReadsInfo, ReadsLength, ReadsChecksum, Receives, Jumps DEF PiNext

LEMMA Starts ==
  ASSUME Inv, HostStart
  PROVE  Inv'
<1> USE DEF piVars, hostVars, faults
<1> DEFINE b == toHost'
<1>1. /\ TypeInv /\ toPi = <<>> /\ toPi' = <<>> /\ Len(buf) < 2 /\ buf' = buf /\ pi' = pi
      /\ pi \notin {"length", "checksum", "code", "ack"}
      /\ host' = "listen" /\ program' \in Programs
  BY DEF Inv, HostStart, Settled, WordLen
<1>2. /\ b \in Seq(ReplyBytes) /\ ~HasTag(b, "checksum") /\ ~HasTag(b, "PI_SUCCESS")
      /\ pi # "info" => b = <<>>
  <2> DEFINE s == Bytes(GetProgInfo)
  <2>1. s \in Seq(ReplyBytes)
    <3>1. GetProgInfo \in ReplyWords
      BY DEF ReplyWords
    <3> QED
      BY <3>1, ByteFacts DEF ReplyBytes
  <2>2. ~HasTag(s, "checksum") /\ ~HasTag(s, "PI_SUCCESS")
    BY WordTags, Tags
  <2>3. <<>> \in Seq(ReplyBytes) /\ ~HasTag(<<>>, "checksum") /\ ~HasTag(<<>>, "PI_SUCCESS")
    BY DEF HasTag
  <2>4. b = <<>> \/ b \in Suffixes(s)
    BY DEF HostStart
  <2>5. pi # "info" => b = <<>>
    BY DEF HostStart
  <2> HIDE DEF s, b
  <2>6. CASE b \in Suffixes(s)
    <3>1. b \in Seq(ReplyBytes) /\ Fades(b, s)
      BY <2>1, <2>6, SuffixesSuffix, MissesFades
    <3> QED
      BY <2>2, <2>5, <3>1, FadesHas
  <2> QED
    BY <2>3, <2>4, <2>5, <2>6
<1>3. TypeInv'
  BY <1>1, <1>2 DEF TypeInv, HostStates, HostStart
<1>4. ~HeaderRead'
  BY <1>1, <1>2 DEF HeaderRead
<1>5. ListenInv' /\ HeaderInv' /\ LoadedInv' /\ CodeCount' /\ SpaceInv'
  BY <1>1, <1>2, <1>4 DEF ListenInv, HeaderInv, LoadedInv, CodeCount, SpaceInv, WordLen
<1>6. ChecksumInv' /\ HeaderCount' /\ AckInv'
  <2>1. Len(toPi') = 0
    BY <1>1
  <2> QED
    BY <1>1, <2>1 DEF ChecksumInv, RightChecksums, RightChecksum, HeaderCount, Counted, AckInv,
       HasTag, WordLen
<1>7. JumpInv'
  BY <1>1, <1>2 DEF Inv, JumpInv, HostStart
<1>8. LengthInv'
  <2>1. Len(toPi') = 0
    BY <1>1
  <2> QED
    BY <1>1, <2>1 DEF LengthInv, LengthFollows, WordLen
<1> QED
  BY <1>3, <1>5, <1>6, <1>7, <1>8 DEF Inv

\* A read by the installer, of one byte or a word.
LEMMA HostReads ==
  ASSUME TypeInv, NEW state, HostByte(state) \/ HostWord(state)
  PROVE  /\ toHost' \in Seq(ReplyBytes) /\ Fades(toHost', toHost)
         /\ Len(toHost') <= Len(toHost) /\ host = state
<1>1. toHost \in Seq(ReplyBytes) /\ Len(toHost) \in Nat
  BY DEF TypeInv
<1>2. CASE HostByte(state)
  <2>1. toHost # <<>> /\ toHost' = Tail(toHost) /\ host = state
    BY <1>2 DEF HostByte
  <2>2. /\ toHost' \in Seq(ReplyBytes) /\ Misses(toHost', toHost)
        /\ Len(toHost') = Len(toHost) - 1
    BY <1>1, <2>1, TailSuffix
  <2> QED
    BY <1>1, <2>1, <2>2, MissesFades
<1>3. CASE HostWord(state)
  <2>1. Len(toHost) >= 2 /\ toHost' = Drop(toHost, 2) /\ host = state
    BY <1>3 DEF HostWord, WordLen
  <2>2. 2 \in 0 .. Len(toHost)
    BY <1>1, <2>1
  <2>3. /\ toHost' \in Seq(ReplyBytes) /\ Misses(toHost', toHost)
        /\ Len(toHost') = Len(toHost) - 2
    BY <1>1, <2>1, <2>2, DropSuffix
  <2> QED
    BY <1>1, <2>1, <2>3, MissesFades
<1> QED
  BY <1>2, <1>3

\* A word that is not garbage was sent.
LEMMA HostWordRead ==
  ASSUME TypeInv, NEW state, HostWord(state), NEW w, w # Garbage,
         FromBytes(Take(toHost, WordLen)) = w
  PROVE  HasTag(toHost, w[1])
<1>1. toHost \in Seq(ReplyBytes) /\ Len(toHost) \in Nat /\ Len(toHost) >= 2
  BY DEF TypeInv, HostWord, WordLen
<1> DEFINE s == Take(toHost, 2)
<1>2. s \in Seq(ReplyBytes) /\ Len(s) = 2 /\ s[1] = toHost[1] /\ FromBytes(s) = w
  BY <1>1 DEF Take, WordLen
<1> HIDE DEF s
<1>3. s[1] = [word |-> w, place |-> 1]
  <2>1. s \in Seq([word : ReplyWords, place : Nat])
    BY <1>2 DEF ReplyBytes
  <2> QED
    BY <1>2, <2>1, WordRead
<1>4. 1 \in 1 .. Len(toHost) /\ toHost[1].word = w
  BY <1>1, <1>2, <1>3
<1> QED
  BY <1>4 DEF HasTag
LEMMA HostQuiet ==
  ASSUME Inv, HostSkip \/ HostHeader \/ HostMonitor \/ HostGivesUp
  PROVE  Inv'
<1> USE DEF piVars, faults
<1>1. /\ TypeInv /\ toPi \in Seq(SentBytes) /\ Len(toPi) \in Nat
      /\ toHost \in Seq(ReplyBytes) /\ Len(toHost) \in Nat
      /\ Misses(toPi, toPi) /\ Misses(toHost, toHost)
      /\ Fades(toPi, toPi) /\ Fades(toHost, toHost) /\ lost \in Nat /\ damaged \in Nat
  BY Same, MissesFades DEF Inv, TypeInv
<1>2. CASE HostSkip
  <2>1. /\ toHost' \in Seq(ReplyBytes) /\ Fades(toHost', toHost)
        /\ Len(toHost') <= Len(toHost) /\ host = "skip"
    BY <1>1, <1>2, HostReads DEF HostSkip
  <2>2. host' \in {"skip", "header"}
    BY <1>2, <2>1 DEF HostSkip
  <2> QED
    BY <1>1, <1>2, <2>1, <2>2, QuietStep DEF HostSkip, HostStates, Committed
<1>3. CASE HostHeader
  <2>1. /\ toHost' \in Seq(ReplyBytes) /\ Fades(toHost', toHost)
        /\ Len(toHost') <= Len(toHost) /\ host = "header"
    BY <1>1, <1>3, HostReads DEF HostHeader
  <2>2. host' \in {"header", "checksum", "error"}
    BY <1>3 DEF HostHeader
  <2> QED
    BY <1>1, <1>3, <2>1, <2>2, QuietStep DEF HostHeader, HostStates, Committed
<1>4. CASE HostMonitor
  <2>1. /\ toHost' \in Seq(ReplyBytes) /\ Fades(toHost', toHost)
        /\ Len(toHost') <= Len(toHost) /\ host = "monitor"
    BY <1>1, <1>4, HostReads DEF HostMonitor
  <2>2. host' \in {"done", "monitor"}
    BY <1>4 DEF HostMonitor
  <2> QED
    BY <1>1, <1>4, <2>1, <2>2, QuietStep DEF HostMonitor, HostStates, Committed
<1>5. CASE HostGivesUp
  BY <1>1, <1>5, QuietStep DEF HostGivesUp, HostOpen, HostStates, Committed
<1> QED
  BY <1>2, <1>3, <1>4, <1>5

LEMMA Listens ==
  ASSUME Inv, HostListen
  PROVE  Inv'
<1> USE DEF piVars, faults
<1> DEFINE w == Length(Len(program))
           x == Checksum(Crc(program))
           s == Bytes(ProgInfo) \o Bytes(w) \o Bytes(x)
<1>1. /\ TypeInv /\ toPi \in Seq(SentBytes) /\ Len(toPi) \in Nat
      /\ Misses(toPi, toPi) /\ Fades(toPi, toPi) /\ lost \in Nat /\ damaged \in Nat
      /\ buf \in Seq(SentBytes)
  BY Same, MissesFades DEF Inv, TypeInv
<1>2. /\ toHost' \in Seq(ReplyBytes) /\ Fades(toHost', toHost)
      /\ Len(toHost') <= Len(toHost) /\ host = "listen" /\ toHost # <<>>
  BY <1>1, HostReads DEF HostListen, HostByte
<1>3. CASE ~Matches(Slide, GetProgInfo)
  <2>1. host' \in {"listen", "error"} /\ toPi' = toPi
    BY <1>3 DEF HostListen
  <2> QED
    BY <1>1, <1>2, <2>1, QuietStep DEF HostListen, HostStates, Committed
<1>4. CASE Matches(Slide, GetProgInfo)
  <2>1. /\ toPi = <<>> /\ Len(buf) < 2 /\ pi \notin {"length", "checksum", "code", "ack"}
        /\ program \in Programs /\ ~HeaderRead /\ pi # "jumped"
    BY <1>1, <1>2 DEF Inv, ListenInv, TypeInv, HeaderInv, JumpInv, Committed, WordLen
  <2>2. host' = "skip" /\ toPi' = toPi \o s
    BY <1>4 DEF HostListen, HostWrite
  <2>3. /\ ProgInfo \in SentWords /\ w \in SentWords /\ x \in SentWords
    BY <1>1, <2>1, ProgramType DEF SentWords
  <2>4. /\ Bytes(ProgInfo) \in Seq(SentBytes) /\ Bytes(w) \in Seq(SentBytes)
        /\ Bytes(x) \in Seq(SentBytes)
        /\ Len(Bytes(ProgInfo)) = 2 /\ Len(Bytes(w)) = 2 /\ Len(Bytes(x)) = 2
        /\ Bytes(ProgInfo)[1].place = 1 /\ Bytes(ProgInfo)[1].word = ProgInfo
        /\ Bytes(ProgInfo)[2].word = ProgInfo
        /\ Bytes(w)[1].word = w /\ Bytes(w)[2].word = w
        /\ Bytes(x)[1].word = x /\ Bytes(x)[2].word = x
    <3>1. ASSUME NEW v \in SentWords
          PROVE  /\ Bytes(v) \in Seq(SentBytes) /\ Len(Bytes(v)) = 2
                 /\ Bytes(v)[1].word = v /\ Bytes(v)[2].word = v /\ Bytes(v)[1].place = 1
      <4>1. /\ Bytes(v) \in Seq(SentBytes) /\ Len(Bytes(v)) = 2
            /\ Bytes(v)[1] = [word |-> v, place |-> 1]
            /\ Bytes(v)[2] = [word |-> v, place |-> 2]
        BY ByteFacts DEF SentBytes
      <4> QED
        BY <4>1
    <3> HIDE DEF w, x
    <3> QED
      BY <2>3, <3>1
  <2>5. /\ s \in Seq(SentBytes) /\ Len(s) = 6
        /\ s[1] = Bytes(ProgInfo)[1] /\ s[2] = Bytes(ProgInfo)[2]
        /\ s[3] = Bytes(w)[1] /\ s[4] = Bytes(w)[2] /\ s[5] = Bytes(x)[1] /\ s[6] = Bytes(x)[2]
    <3> DEFINE p == Bytes(ProgInfo)
               q == Bytes(w)
               r == Bytes(x)
    <3>1. /\ p \in Seq(SentBytes) /\ q \in Seq(SentBytes) /\ r \in Seq(SentBytes)
          /\ Len(p) = 2 /\ Len(q) = 2 /\ Len(r) = 2
      BY <2>4
    <3> HIDE DEF p, q, r
    <3>2. /\ p \o q \in Seq(SentBytes) /\ Len(p \o q) = 4
          /\ (p \o q)[1] = p[1] /\ (p \o q)[2] = p[2] /\ (p \o q)[3] = q[1] /\ (p \o q)[4] = q[2]
      <4>1. /\ p \o q \in Seq(SentBytes) /\ Len(p \o q) = 4
            /\ \A k \in 1 .. 4 : (p \o q)[k] = IF k <= 2 THEN p[k] ELSE q[k - 2]
        BY <3>1, TwoWords
      <4> QED
        BY <4>1
    <3> DEFINE t == p \o q
    <3>3. t \in Seq(SentBytes) /\ Len(t) = 4
      BY <3>2
    <3> HIDE DEF t
    <3>4. /\ t \o r \in Seq(SentBytes) /\ Len(t \o r) = 6
          /\ (t \o r)[1] = t[1] /\ (t \o r)[2] = t[2] /\ (t \o r)[3] = t[3]
          /\ (t \o r)[4] = t[4] /\ (t \o r)[5] = r[1] /\ (t \o r)[6] = r[2]
      <4>1. /\ t \o r \in Seq(SentBytes) /\ Len(t \o r) = 6
            /\ \A k \in 1 .. 6 : (t \o r)[k] = IF k <= 4 THEN t[k] ELSE r[k - 4]
        BY <3>1, <3>3, ThreeWords
      <4> QED
        BY <4>1
    <3> QED
      BY <3>2, <3>4 DEF p, q, r, t
  <2>6. toPi' = s
    <3> HIDE DEF s
    <3> QED
      BY <2>1, <2>2, <2>5
  <2> HIDE DEF s
  <2>7. ~HeaderRead'
    <3>1. ~HasTag(toHost', "checksum") /\ ~HasTag(toHost', "PI_SUCCESS")
      BY <1>2, <2>1, FadesHas DEF HeaderRead
    <3> QED
      BY <2>1, <3>1 DEF HeaderRead, HostListen
  <2>8. \A k \in 1 .. Len(s) : k = 1 \/ k = 2 \/ k = 3 \/ k = 4 \/ k = 5 \/ k = 6
    BY <2>5
  <2>9. \A k \in 1 .. Len(s) : s[k] = InfoEnd => k = 2
    <3> HIDE DEF w, x
    <3>1. w # ProgInfo /\ x # ProgInfo
      BY Tags DEF w, x
    <3>2. InfoEnd.word = ProgInfo /\ InfoEnd.place = 2
      BY InfoEndFacts
    <3>3. s[1] # InfoEnd /\ s[3] # InfoEnd /\ s[4] # InfoEnd /\ s[5] # InfoEnd /\ s[6] # InfoEnd
      BY <2>4, <2>5, <3>1, <3>2
    <3> QED
      BY <2>8, <3>3
  <2>10. TypeInv'
    BY <1>1, <1>2, <2>1, <2>2, <2>5, <2>6 DEF TypeInv, HostStates, HostListen
  <2>11. /\ ListenInv' /\ HeaderInv' /\ LoadedInv' /\ JumpInv' /\ CodeCount' /\ SpaceInv'
    BY <2>1, <2>2, <2>7 DEF ListenInv, HeaderInv, HeaderRead, LoadedInv, JumpInv, CodeCount,
       SpaceInv, HostListen
  <2>12. ChecksumInv'
    <3> HIDE DEF w, x
    <3>1. RightChecksum(ProgInfo) /\ RightChecksum(w) /\ RightChecksum(x)
      BY Tags DEF RightChecksum, w, x
    <3>2. RightChecksums(s)
      BY <2>4, <2>5, <2>8, <3>1 DEF RightChecksums
    <3> QED
      BY <2>1, <2>6, <3>2 DEF ChecksumInv, RightChecksums, RightChecksum, HostListen
  <2>13. AckInv'
    <3>1. ~HasTag(s, "INSTALLER_SUCCESS")
      <4> HIDE DEF w, x
      <4>1. /\ ProgInfo[1] # "INSTALLER_SUCCESS" /\ w[1] # "INSTALLER_SUCCESS"
            /\ x[1] # "INSTALLER_SUCCESS"
        BY Tags DEF w, x
      <4> QED
        BY <2>4, <2>5, <2>8, <4>1 DEF HasTag
    <3> QED
      BY <2>1, <2>6, <3>1 DEF AckInv, HostListen
  <2>14. HeaderCount'
    <3>1. Counted(s)
      BY <2>5, <2>9 DEF Counted, WordLen
    <3> QED
      BY <2>1, <2>6, <3>1 DEF HeaderCount, HostListen, WordLen
  <2>15. LengthInv'
    <3>1. LengthBytes' = LengthBytes /\ LengthBytes = Bytes(w)
      BY DEF LengthBytes, HostListen
    <3>2. LengthFollows(s)
      <4> HIDE DEF w, x
      <4>1. s[2 + 1] = LengthBytes[1] /\ s[2 + 2] = LengthBytes[2]
        BY <2>5, <3>1
      <4> QED
        BY <2>9, <4>1 DEF LengthFollows
    <3> QED
      BY <2>1, <2>6, <3>1, <3>2 DEF LengthInv, LengthFollows, HostListen, WordLen
  <2> QED
    BY <2>10, <2>11, <2>12, <2>13, <2>14, <2>15 DEF Inv
<1> QED
  BY <1>3, <1>4
LEMMA CodeFacts ==
  ASSUME NEW p \in Seq(Symbols)
  PROVE  /\ CodeBytes(p) \in Seq(SentBytes) /\ Len(CodeBytes(p)) = Len(p)
         /\ RightChecksums(CodeBytes(p)) /\ ~Has(CodeBytes(p), InfoEnd)
         /\ ~HasTag(CodeBytes(p), "INSTALLER_SUCCESS")
<1> DEFINE s == CodeBytes(p)
           T == SentBytes
<1>1. s = [k \in 1 .. Len(p) |-> [word |-> <<"code", p[k]>>, place |-> 0]] /\ Len(p) \in Nat
  BY DEF CodeBytes
<1>2. \A k \in 1 .. Len(p) : [word |-> <<"code", p[k]>>, place |-> 0] \in T
  <2> SUFFICES ASSUME NEW k \in 1 .. Len(p)
               PROVE  [word |-> <<"code", p[k]>>, place |-> 0] \in T
    OBVIOUS
  <2>1. p[k] \in Symbols
    BY ElementOfSeq
  <2> QED
    BY <2>1 DEF SentBytes, SentWords
<1> HIDE DEF T, s
<1>3. /\ s \in Seq(T) /\ Len(s) = Len(p)
      /\ \A k \in 1 .. Len(s) : s[k].word[1] = "code" /\ s[k].place = 0
  BY <1>1, <1>2
<1>4. InfoEnd.place = 2
  BY InfoEndFacts
<1>5. RightChecksums(s) /\ ~Has(s, InfoEnd) /\ ~HasTag(s, "INSTALLER_SUCCESS")
  BY <1>3, <1>4 DEF RightChecksums, RightChecksum, Has, HasTag
<1> QED
  BY <1>3, <1>5 DEF s, T

LEMMA SendsCode ==
  ASSUME Inv, HostChecksum
  PROVE  Inv'
<1> USE DEF piVars, faults
<1> DEFINE s == CodeBytes(program)
           x == Checksum(Crc(program))
<1>1. /\ TypeInv /\ toPi \in Seq(SentBytes) /\ Len(toPi) \in Nat
      /\ Misses(toPi, toPi) /\ Fades(toPi, toPi) /\ lost \in Nat /\ damaged \in Nat
      /\ buf \in Seq(SentBytes)
  BY Same, MissesFades DEF Inv, TypeInv
<1>2. /\ toHost' \in Seq(ReplyBytes) /\ Fades(toHost', toHost)
      /\ Len(toHost') <= Len(toHost) /\ host = "checksum"
  BY <1>1, HostReads DEF HostChecksum
<1>3. CASE FromBytes(Take(toHost, WordLen)) # x
  <2>1. host' = "error" /\ toPi' = toPi
    BY <1>3 DEF HostChecksum
  <2> QED
    BY <1>1, <1>2, <2>1, QuietStep DEF HostChecksum, HostStates, Committed
<1>4. CASE FromBytes(Take(toHost, WordLen)) = x
  <2>1. host' = "success" /\ toPi' = toPi \o s
    BY <1>4 DEF HostChecksum, HostWrite
  <2>2. HasTag(toHost, "checksum")
    <3>1. x # Garbage /\ x[1] = "checksum"
      BY Tags
    <3> HIDE DEF x
    <3> QED
      BY <1>1, <1>4, <3>1, HostWordRead DEF HostChecksum
  <2>3. /\ pi \notin {"length", "checksum"} /\ ~Has(toPi, InfoEnd)
        /\ pi = "info" => ~Has(buf, InfoEnd)
    BY <2>2 DEF Inv, HeaderInv, HeaderRead
  <2>4. pi = "info" /\ Len(buf) = 2 => buf[2] # InfoEnd
    BY <2>3 DEF Has
  <2>5. /\ s \in Seq(SentBytes) /\ Len(s) = Len(program) /\ RightChecksums(s)
        /\ ~Has(s, InfoEnd) /\ ~HasTag(s, "INSTALLER_SUCCESS") /\ Len(program) \in Nat
    BY <1>1, ProgramType, CodeFacts
  <2>6. /\ toPi' \in Seq(SentBytes) /\ Len(toPi') = Len(toPi) + Len(program)
        /\ \A k \in 1 .. Len(toPi') : \/ \E j \in 1 .. Len(toPi) : toPi'[k] = toPi[j]
                                      \/ \E j \in 1 .. Len(s) : toPi'[k] = s[j]
        /\ ~Has(toPi', InfoEnd)
        /\ HasTag(toPi', "INSTALLER_SUCCESS") => HasTag(toPi, "INSTALLER_SUCCESS")
    <3> HIDE DEF s
    <3> DEFINE a == toPi \o s
    <3>1. /\ a \in Seq(SentBytes) /\ Len(a) = Len(toPi) + Len(s)
          /\ \A k \in 1 .. Len(toPi) + Len(s) :
               a[k] = IF k <= Len(toPi) THEN toPi[k] ELSE s[k - Len(toPi)]
          /\ ~Has(a, InfoEnd)
          /\ HasTag(a, "INSTALLER_SUCCESS") => HasTag(toPi, "INSTALLER_SUCCESS")
      BY <1>1, <2>3, <2>5, Appended
    <3>2. Len(toPi) \in Nat /\ Len(s) \in Nat
      BY <1>1, <2>5
    <3> HIDE DEF a
    <3>3. \A k \in 1 .. Len(a) : \/ \E j \in 1 .. Len(toPi) : a[k] = toPi[j]
                                 \/ \E j \in 1 .. Len(s) : a[k] = s[j]
      <4> SUFFICES ASSUME NEW k \in 1 .. Len(a)
                   PROVE  \/ \E j \in 1 .. Len(toPi) : a[k] = toPi[j]
                          \/ \E j \in 1 .. Len(s) : a[k] = s[j]
        OBVIOUS
      <4>1. CASE k <= Len(toPi)
        <5>1. k \in 1 .. Len(toPi) /\ a[k] = toPi[k]
          BY <3>1, <3>2, <4>1
        <5> QED
          BY <5>1
      <4>2. CASE ~(k <= Len(toPi))
        <5>1. k - Len(toPi) \in 1 .. Len(s) /\ a[k] = s[k - Len(toPi)]
          BY <3>1, <3>2, <4>2
        <5> QED
          BY <5>1
      <4> QED
        BY <4>1, <4>2
    <3> QED
      BY <2>1, <2>5, <3>1, <3>3 DEF a
  <2> HIDE DEF s
  <2>7. TypeInv'
    BY <1>1, <1>2, <2>1, <2>6 DEF TypeInv, HostStates, HostChecksum
  <2>8. /\ HasTag(toHost', "checksum") => HasTag(toHost, "checksum")
        /\ HasTag(toHost', "PI_SUCCESS") => HasTag(toHost, "PI_SUCCESS")
    BY <1>2, FadesHas
  <2>9. ListenInv' /\ HeaderInv' /\ LoadedInv' /\ JumpInv' /\ SpaceInv'
    BY <1>2, <2>1, <2>3, <2>6, <2>8 DEF Inv, ListenInv, HeaderInv, LoadedInv, JumpInv, Committed,
       SpaceInv, HostChecksum
  <2>10. ChecksumInv'
    <3>1. RightChecksums(toPi')
      <4>1. RightChecksums(toPi)
        BY DEF Inv, ChecksumInv
      <4> QED
        BY <2>5, <2>6, <4>1 DEF RightChecksums
    <3> QED
      BY <3>1 DEF Inv, ChecksumInv, RightChecksums, RightChecksum, HostChecksum
  <2>11. AckInv'
    BY <1>2, <2>1, <2>6 DEF Inv, AckInv, Committed, HostChecksum
  <2>12. HeaderCount'
    <3>1. Counted(toPi')
      BY <2>6 DEF Counted, Has
    <3> QED
      BY <2>3, <2>4, <3>1 DEF HeaderCount, Counted, HostChecksum, WordLen
  <2>13. CodeCount'
    <3> SUFFICES ASSUME pi = "code"
                 PROVE  CodeCount'
      BY DEF CodeCount, HostChecksum
    <3>1. buf = <<>> /\ mem = <<>> /\ toPi = <<>>
      BY <1>2 DEF Inv, CodeCount
    <3>2. Len(toPi) = 0 /\ Len(mem) = 0
      BY <3>1
    <3>3. Len(mem) + Len(toPi') <= Len(program)
      BY <2>5, <2>6, <3>2
    <3> QED
      BY <2>1, <3>1, <3>3 DEF CodeCount, HostChecksum
  <2>14. LengthInv'
    <3> SUFFICES ASSUME damaged = 0
                 PROVE  LengthInv'
      BY DEF LengthInv, HostChecksum
    <3>1. pi \in {"code", "ack"} => length = Len(program)
      BY DEF Inv, LengthInv
    <3> QED
      BY <2>3, <2>4, <2>6, <3>1 DEF LengthInv, LengthFollows, Has, HostChecksum, WordLen
  <2> QED
    BY <2>7, <2>9, <2>10, <2>11, <2>12, <2>13, <2>14 DEF Inv
<1> QED
  BY <1>3, <1>4
LEMMA Commits ==
  ASSUME Inv, HostSuccess
  PROVE  Inv'
<1> USE DEF piVars, faults
<1> DEFINE s == Bytes(InstallerSuccess)
<1>1. /\ TypeInv /\ toPi \in Seq(SentBytes) /\ Len(toPi) \in Nat
      /\ Misses(toPi, toPi) /\ Fades(toPi, toPi) /\ lost \in Nat /\ damaged \in Nat
      /\ buf \in Seq(SentBytes)
  BY Same, MissesFades DEF Inv, TypeInv
<1>2. /\ toHost' \in Seq(ReplyBytes) /\ Fades(toHost', toHost)
      /\ Len(toHost') <= Len(toHost) /\ host = "success"
  BY <1>1, HostReads DEF HostSuccess
<1>3. CASE FromBytes(Take(toHost, WordLen)) # PiSuccess
  <2>1. host' = "error" /\ toPi' = toPi /\ committed' = committed
    BY <1>3 DEF HostSuccess
  <2> QED
    BY <1>1, <1>2, <2>1, QuietStep DEF HostSuccess, HostStates, Committed
<1>4. CASE FromBytes(Take(toHost, WordLen)) = PiSuccess
  <2>1. host' = "monitor" /\ toPi' = toPi \o s /\ committed' = program
    BY <1>4 DEF HostSuccess, HostWrite
  <2>2. HasTag(toHost, "PI_SUCCESS")
    <3>1. PiSuccess # Garbage /\ PiSuccess[1] = "PI_SUCCESS"
      BY Tags
    <3> QED
      BY <1>1, <1>4, <3>1, HostWordRead DEF HostSuccess
  <2>3. /\ pi \notin {"length", "checksum", "code", "jumped"} /\ ~Has(toPi, InfoEnd)
        /\ pi = "info" => ~Has(buf, InfoEnd)
        /\ Crc(mem) = Crc(program) /\ program \in Programs
    BY <1>1, <1>2, <2>2 DEF Inv, HeaderInv, HeaderRead, LoadedInv, TypeInv, JumpInv, Committed
  <2>4. pi = "info" /\ Len(buf) = 2 => buf[2] # InfoEnd
    BY <2>3 DEF Has
  <2>5. /\ s \in Seq(SentBytes) /\ Len(s) = 2
        /\ s[1].word = InstallerSuccess /\ s[2].word = InstallerSuccess
    <3>1. InstallerSuccess \in SentWords
      BY DEF SentWords
    <3>2. /\ s \in Seq(SentBytes) /\ Len(s) = 2
          /\ s[1] = [word |-> InstallerSuccess, place |-> 1]
          /\ s[2] = [word |-> InstallerSuccess, place |-> 2]
      BY <3>1, ByteFacts DEF SentBytes
    <3> QED
      BY <3>2
  <2>6. RightChecksums(s) /\ ~Has(s, InfoEnd)
    <3>1. InstallerSuccess # ProgInfo /\ RightChecksum(InstallerSuccess)
      BY Tags DEF RightChecksum
    <3>2. InfoEnd.word = ProgInfo
      BY InfoEndFacts
    <3>3. \A k \in 1 .. Len(s) : s[k].word = InstallerSuccess
      <4> HIDE DEF s
      <4>1. \A k \in 1 .. Len(s) : k = 1 \/ k = 2
        BY <2>5
      <4> QED
        BY <2>5, <4>1
    <3> HIDE DEF s
    <3> QED
      BY <3>1, <3>2, <3>3 DEF RightChecksums, Has
  <2>7. /\ toPi' \in Seq(SentBytes) /\ ~Has(toPi', InfoEnd)
        /\ \A k \in 1 .. Len(toPi') : \/ \E j \in 1 .. Len(toPi) : toPi'[k] = toPi[j]
                                      \/ \E j \in 1 .. Len(s) : toPi'[k] = s[j]
    <3> HIDE DEF s
    <3> DEFINE a == toPi \o s
    <3>1. /\ a \in Seq(SentBytes) /\ Len(a) = Len(toPi) + Len(s)
          /\ \A k \in 1 .. Len(toPi) + Len(s) :
               a[k] = IF k <= Len(toPi) THEN toPi[k] ELSE s[k - Len(toPi)]
          /\ ~Has(a, InfoEnd)
      BY <1>1, <2>3, <2>5, <2>6, Appended
    <3>2. Len(toPi) \in Nat /\ Len(s) \in Nat
      BY <1>1, <2>5
    <3> HIDE DEF a
    <3>3. \A k \in 1 .. Len(a) : \/ \E j \in 1 .. Len(toPi) : a[k] = toPi[j]
                                 \/ \E j \in 1 .. Len(s) : a[k] = s[j]
      <4> SUFFICES ASSUME NEW k \in 1 .. Len(a)
                   PROVE  \/ \E j \in 1 .. Len(toPi) : a[k] = toPi[j]
                          \/ \E j \in 1 .. Len(s) : a[k] = s[j]
        OBVIOUS
      <4>1. CASE k <= Len(toPi)
        <5>1. k \in 1 .. Len(toPi) /\ a[k] = toPi[k]
          BY <3>1, <3>2, <4>1
        <5> QED
          BY <5>1
      <4>2. CASE ~(k <= Len(toPi))
        <5>1. k - Len(toPi) \in 1 .. Len(s) /\ a[k] = s[k - Len(toPi)]
          BY <3>1, <3>2, <4>2
        <5> QED
          BY <5>1
      <4> QED
        BY <4>1, <4>2
    <3> QED
      BY <2>1, <3>1, <3>3 DEF a
  <2> HIDE DEF s
  <2>8. TypeInv'
    BY <1>1, <1>2, <2>1, <2>7 DEF TypeInv, HostStates, HostSuccess
  <2>9. /\ HasTag(toHost', "checksum") => HasTag(toHost, "checksum")
        /\ HasTag(toHost', "PI_SUCCESS") => HasTag(toHost, "PI_SUCCESS")
    BY <1>2, FadesHas
  <2>10. ListenInv' /\ HeaderInv' /\ LoadedInv' /\ AckInv' /\ JumpInv' /\ CodeCount' /\ SpaceInv'
    BY <2>1, <2>3, <2>7, <2>9 DEF Inv, ListenInv, HeaderInv, LoadedInv, AckInv, JumpInv, Committed,
       CodeCount, SpaceInv, HostSuccess
  <2>11. ChecksumInv'
    <3>1. RightChecksums(toPi')
      <4>1. RightChecksums(toPi)
        BY DEF Inv, ChecksumInv
      <4> QED
        BY <2>6, <2>7, <4>1 DEF RightChecksums
    <3> QED
      BY <3>1 DEF Inv, ChecksumInv, RightChecksums, RightChecksum, HostSuccess
  <2>12. HeaderCount'
    <3>1. Counted(toPi')
      BY <2>7 DEF Counted, Has
    <3> QED
      BY <2>3, <2>4, <3>1 DEF HeaderCount, Counted, HostSuccess, WordLen
  <2>13. LengthInv'
    <3> SUFFICES ASSUME damaged = 0
                 PROVE  LengthInv'
      BY DEF LengthInv, HostSuccess
    <3>1. pi \in {"code", "ack"} => length = Len(program)
      BY DEF Inv, LengthInv
    <3> QED
      BY <2>3, <2>4, <2>7, <3>1 DEF LengthInv, LengthFollows, Has, HostSuccess, WordLen
  <2> QED
    BY <2>3, <2>8, <2>10, <2>11, <2>12, <2>13 DEF Inv
<1> QED
  BY <1>3, <1>4

LEMMA HostInv ==
  ASSUME Inv, HostNext
  PROVE  Inv'
BY HostQuiet, Starts, Listens, SendsCode, Commits DEF HostNext

LEMMA WireInv ==
  ASSUME Inv, Lose \/ Damage
  PROVE  Inv'
<1> USE DEF piVars, hostVars
<1>1. /\ TypeInv /\ toPi \in Seq(SentBytes) /\ Len(toPi) \in Nat
      /\ toHost \in Seq(ReplyBytes) /\ Len(toHost) \in Nat
      /\ Misses(toPi, toPi) /\ Misses(toHost, toHost)
      /\ Fades(toPi, toPi) /\ Fades(toHost, toHost) /\ lost \in Nat /\ damaged \in Nat
      /\ host \in HostStates
  BY Same, MissesFades DEF Inv, TypeInv
<1>2. UNCHANGED <<piVars, program, committed, host>>
  BY DEF Lose, Damage
<1>3. CASE Lose
  <2>1. /\ toPi' \in Seq(SentBytes) /\ Misses(toPi', toPi) /\ Fades(toPi', toPi)
        /\ Len(toPi') <= Len(toPi)
    <3>1. toPi' = toPi \/ \E k \in 1 .. Len(toPi) : toPi' = Without(toPi, k)
      BY <1>3 DEF Lose
    <3> QED
      BY <1>1, <3>1, WithoutMisses, MissesFades
  <2>2. /\ toHost' \in Seq(ReplyBytes) /\ Fades(toHost', toHost) /\ Len(toHost') <= Len(toHost)
    <3>1. toHost' = toHost \/ \E k \in 1 .. Len(toHost) : toHost' = Without(toHost, k)
      BY <1>3 DEF Lose
    <3> QED
      BY <1>1, <3>1, WithoutMisses, MissesFades
  <2>3. lost' \in Nat /\ damaged' = damaged
    BY <1>1, <1>3 DEF Lose
  <2> QED
    BY <1>1, <1>2, <2>1, <2>2, <2>3, QuietStep DEF Committed
<1>4. CASE Damage
  <2>1. Noise \in SentBytes /\ Noise \in ReplyBytes
    BY ReplyTypes DEF SentBytes, SentWords, Noise
  <2>2. /\ toPi' \in Seq(SentBytes) /\ Fades(toPi', toPi) /\ Len(toPi') <= Len(toPi)
    <3>1. toPi' = toPi \/ \E k \in 1 .. Len(toPi) : toPi' = [toPi EXCEPT ![k] = Noise]
      BY <1>4 DEF Damage
    <3> QED
      BY <1>1, <2>1, <3>1, DamageFades
  <2>3. /\ toHost' \in Seq(ReplyBytes) /\ Fades(toHost', toHost) /\ Len(toHost') <= Len(toHost)
    <3>1. toHost' = toHost \/ \E k \in 1 .. Len(toHost) : toHost' = [toHost EXCEPT ![k] = Noise]
      BY <1>4 DEF Damage
    <3> QED
      BY <1>1, <2>1, <3>1, DamageFades
  <2>4. lost' \in Nat /\ damaged' \in Nat /\ damaged' # 0
    BY <1>1, <1>4 DEF Damage
  <2> QED
    BY <1>1, <1>2, <2>2, <2>3, <2>4, QuietStep DEF Committed
<1> QED
  BY <1>3, <1>4

LEMMA StutterInv ==
  ASSUME Inv, UNCHANGED vars
  PROVE  Inv'
BY DEF vars, piVars, hostVars, faults, Inv, TypeInv, ListenInv, HeaderInv, HeaderRead, ChecksumInv,
       RightChecksums, RightChecksum, LoadedInv, AckInv, Committed, JumpInv, HeaderCount, Counted,
       CodeCount, LengthInv, LengthFollows, LengthBytes, SpaceInv

-----------------------------------------------------------------------------
(* What arrives.  The code is sent once, to a Pi that has nothing of it,   *)
(* and received in order: if as many bytes come as were sent, they are the *)
(* ones that were sent, but for the damaged ones.                          *)

Datas(t) == [k \in 1 .. Len(t) |-> Data(t[k])]

\* The code that the Pi has and what is on its way behind it.
Stream == mem \o Datas(toPi)

\* s is p, after damage to d bytes.
Right(s, p, d) ==
  /\ d = 0 => s = p
  /\ d = 1 /\ Len(s) = Len(p) => OneOff(s, p)

\* The Pi has counted all of the code and is, or was, content with it.
Answered == pi = "ack" \/ HasTag(toHost, "PI_SUCCESS")

\* The stream is the program as long as no byte of it is missing; then so is what has
\* been received, and what is jumped to.
MatchInv ==
  /\ pi = "code" /\ Len(mem) + Len(toPi) = Len(program) => Right(Stream, program, damaged)
  /\ Answered => Right(mem, program, damaged)
  /\ pi = "jumped" => Right(mem, committed, damaged)

LEMMA RightKept ==
  ASSUME NEW s, NEW p, NEW d \in Nat, NEW e \in {d, d + 1}, Right(s, p, d)
  PROVE  Right(s, p, e)
BY DEF Right, OneOff

LEMMA DatasFacts ==
  ASSUME NEW t \in Seq(SentBytes)
  PROVE  /\ Datas(t) \in Seq(Symbols \cup {"other"}) /\ Len(Datas(t)) = Len(t)
         /\ \A k \in 1 .. Len(t) : Datas(t)[k] = Data(t[k])
<1> DEFINE S == Symbols \cup {"other"}
<1>1. \A k \in 1 .. Len(t) : Data(t[k]) \in S
  <2> SUFFICES ASSUME NEW k \in 1 .. Len(t)
               PROVE  Data(t[k]) \in S
    OBVIOUS
  <2>1. t[k] \in SentBytes
    BY ElementOfSeq
  <2> QED
    BY <2>1, ReceivedType
<1> HIDE DEF S
<1> QED
  BY <1>1 DEF Datas, S

\* Copying some bytes to memory leaves the stream as it is.
LEMMA Copied ==
  ASSUME NEW t \in Seq(SentBytes), NEW m \in Seq(Symbols \cup {"other"}), NEW n \in 0 .. Len(t)
  PROVE  /\ (m \o [k \in 1 .. n |-> Data(t[k])]) \o Datas(Drop(t, n)) = m \o Datas(t)
         /\ n = Len(t) => m \o [k \in 1 .. n |-> Data(t[k])] = m \o Datas(t)
<1> DEFINE S == Symbols \cup {"other"}
           a == [k \in 1 .. n |-> Data(t[k])]
           b == Datas(Drop(t, n))
<1>1. /\ Datas(t) \in Seq(S) /\ Len(Datas(t)) = Len(t) /\ Len(t) \in Nat /\ n \in Nat /\ n <= Len(t)
      /\ \A k \in 1 .. Len(t) : Datas(t)[k] = Data(t[k])
  BY DatasFacts
<1>2. /\ Drop(t, n) \in Seq(SentBytes) /\ Len(Drop(t, n)) = Len(t) - n
      /\ \A k \in 1 .. Len(t) - n : Drop(t, n)[k] = t[k + n]
  BY <1>1 DEF Drop
<1>3. /\ b \in Seq(S) /\ Len(b) = Len(t) - n
      /\ \A k \in 1 .. Len(t) - n : b[k] = Datas(t)[k + n]
  <2>1. /\ b \in Seq(S) /\ Len(b) = Len(t) - n
        /\ \A k \in 1 .. Len(t) - n : b[k] = Data(Drop(t, n)[k])
    BY <1>2, DatasFacts
  <2> HIDE DEF b
  <2>2. \A k \in 1 .. Len(t) - n : k + n \in 1 .. Len(t)
    BY <1>1
  <2> QED
    BY <1>1, <1>2, <2>1, <2>2
<1>4. a \in Seq(S) /\ Len(a) = n /\ \A k \in 1 .. n : a[k] = Datas(t)[k]
  <2>1. \A k \in 1 .. n : k \in 1 .. Len(t) /\ Data(t[k]) = Datas(t)[k]
    BY <1>1
  <2>2. \A k \in 1 .. n : Data(t[k]) \in S
    <3> SUFFICES ASSUME NEW k \in 1 .. n
                 PROVE  Data(t[k]) \in S
      OBVIOUS
    <3>1. Datas(t)[k] \in S
      BY <1>1, <2>1, ElementOfSeq
    <3> QED
      BY <2>1, <3>1
  <2> HIDE DEF S
  <2> QED
    BY <1>1, <2>1, <2>2
<1> DEFINE d == Datas(t)
<1> HIDE DEF a, b, d
<1>5. a \o b = d
  <2>1. /\ a \o b \in Seq(S) /\ Len(a \o b) = n + (Len(t) - n)
        /\ \A k \in 1 .. n + (Len(t) - n) : (a \o b)[k] = IF k <= n THEN a[k] ELSE b[k - n]
    BY <1>3, <1>4, ConcatProperties
  <2>2. n + (Len(t) - n) = Len(t)
    BY <1>1
  <2>3. ASSUME NEW k \in 1 .. Len(t)
        PROVE  (a \o b)[k] = d[k]
    <3>1. CASE k <= n
      BY <1>1, <1>4, <2>1, <2>2, <3>1 DEF d
    <3>2. CASE ~(k <= n)
      <4>1. k - n \in 1 .. Len(t) - n /\ (k - n) + n = k
        BY <1>1, <3>2
      <4> QED
        BY <1>3, <2>1, <2>2, <3>2, <4>1 DEF d
    <3> QED
      BY <3>1, <3>2
  <2>4. d \in Seq(S) /\ Len(d) = Len(t)
    BY <1>1 DEF d
  <2> HIDE DEF S
  <2> QED
    BY <2>1, <2>2, <2>3, <2>4, SeqEqual
<1>6. (m \o a) \o b = m \o d
  <2>1. m \in Seq(S)
    OBVIOUS
  <2> HIDE DEF S
  <2>2. (m \o a) \o b = m \o (a \o b)
    BY <1>3, <1>4, <2>1, ConcatAssociative
  <2> QED
    BY <1>5, <2>2
<1>7. n = Len(t) => a = d
  <2> SUFFICES ASSUME n = Len(t)
               PROVE  a = d
    OBVIOUS
  <2>1. d \in Seq(S) /\ Len(d) = Len(a) /\ \A k \in 1 .. Len(a) : a[k] = d[k]
    BY <1>1, <1>4 DEF d
  <2> HIDE DEF S
  <2> QED
    BY <1>4, <2>1, SeqEqual
<1> QED
  BY <1>6, <1>7 DEF a, b, d

\* What is sent as code is received as code.
LEMMA CodeReceived ==
  ASSUME NEW p \in Seq(Symbols)
  PROVE  Datas(CodeBytes(p)) = p
<1> DEFINE s == CodeBytes(p)
<1>1. s \in Seq(SentBytes) /\ Len(s) = Len(p) /\ Len(p) \in Nat
  BY CodeFacts
<1>2. ASSUME NEW k \in 1 .. Len(p)
      PROVE  Data(s[k]) = p[k]
  <2>1. s[k].word = <<"code", p[k]>>
    BY DEF CodeBytes
  <2> QED
    BY <2>1 DEF Data
<1> HIDE DEF s
<1>3. /\ Datas(s) \in Seq(Symbols \cup {"other"}) /\ Len(Datas(s)) = Len(p)
      /\ \A k \in 1 .. Len(p) : Datas(s)[k] = p[k]
  BY <1>1, <1>2, DatasFacts
<1>4. p \in Seq(Symbols \cup {"other"})
  OBVIOUS
<1>5. Datas(s) = p
  <2> DEFINE S == Symbols \cup {"other"}
  <2>1. Datas(s) \in Seq(S) /\ p \in Seq(S)
    BY <1>3, <1>4
  <2> HIDE DEF S
  <2> QED
    BY <1>3, <2>1, SeqEqual
<1> QED
  BY <1>5 DEF s

\* One byte of the stream is damaged.
LEMMA Damaged ==
  ASSUME NEW t \in Seq(SentBytes), NEW m \in Seq(Symbols \cup {"other"}), NEW i \in 1 .. Len(t)
  PROVE  OneOff(m \o Datas([t EXCEPT ![i] = Noise]), m \o Datas(t))
<1> DEFINE S == Symbols \cup {"other"}
           u == [t EXCEPT ![i] = Noise]
           a == m \o Datas(u)
           b == m \o Datas(t)
<1>1. /\ u \in Seq(SentBytes) /\ Len(u) = Len(t) /\ Len(t) \in Nat /\ Len(m) \in Nat
      /\ \A k \in 1 .. Len(t) : u[k] = IF k = i THEN Noise ELSE t[k]
  <2>1. Noise \in SentBytes
    BY DEF SentBytes, SentWords, Noise
  <2> QED
    BY <2>1, ExceptSeq
<1> HIDE DEF u
<1>2. /\ Datas(u) \in Seq(S) /\ Len(Datas(u)) = Len(t)
      /\ Datas(t) \in Seq(S) /\ Len(Datas(t)) = Len(t)
      /\ \A k \in 1 .. Len(t) : k # i => Datas(u)[k] = Datas(t)[k]
  BY <1>1, DatasFacts
<1>3. /\ Len(b) = Len(m) + Len(t)
      /\ \A k \in 1 .. Len(m) + Len(t) :
           /\ a[k] = IF k <= Len(m) THEN m[k] ELSE Datas(u)[k - Len(m)]
           /\ b[k] = IF k <= Len(m) THEN m[k] ELSE Datas(t)[k - Len(m)]
  <2> DEFINE x == Datas(u)
             y == Datas(t)
  <2>1. x \in Seq(S) /\ y \in Seq(S) /\ m \in Seq(S) /\ Len(x) = Len(t) /\ Len(y) = Len(t)
    BY <1>2
  <2> HIDE DEF x, y, S
  <2>2. /\ Len(m \o y) = Len(m) + Len(y)
        /\ \A k \in 1 .. Len(m) + Len(x) :
             (m \o x)[k] = IF k <= Len(m) THEN m[k] ELSE x[k - Len(m)]
        /\ \A k \in 1 .. Len(m) + Len(y) :
             (m \o y)[k] = IF k <= Len(m) THEN m[k] ELSE y[k - Len(m)]
    BY <2>1, ConcatProperties
  <2> QED
    BY <2>1, <2>2 DEF x, y
<1>4. ASSUME NEW k \in 1 .. Len(b), a[k] # b[k]
      PROVE  k = Len(m) + i
  <2> HIDE DEF a, b
  <2>1. ~(k <= Len(m))
    BY <1>1, <1>3, <1>4
  <2>2. k - Len(m) \in 1 .. Len(t)
    BY <1>1, <1>3, <2>1
  <2>3. Datas(u)[k - Len(m)] # Datas(t)[k - Len(m)]
    BY <1>3, <1>4, <2>1
  <2>4. k - Len(m) = i
    BY <1>2, <2>2, <2>3
  <2> QED
    BY <1>1, <1>3, <2>4
<1> HIDE DEF a, b
<1>5. OneOff(a, b)
  BY <1>4 DEF OneOff
<1> QED
  BY <1>5 DEF a, b, u

\* Only the receive loop answers so, when it is done.
LEMMA SuccessSent ==
  ASSUME Inv, [Next]_vars, HasTag(toHost', "PI_SUCCESS")
  PROVE  HasTag(toHost, "PI_SUCCESS") \/ (PiReceive /\ pi' = "ack")
<1>1. /\ TypeInv /\ toHost \in Seq(ReplyBytes) /\ Fades(toHost, toHost)
      /\ buf \in Seq(SentBytes)
  BY Same, MissesFades DEF Inv, TypeInv
<1>2. ASSUME Fades(toHost', toHost)
      PROVE  HasTag(toHost, "PI_SUCCESS")
  BY <1>2, FadesHas
<1>3. ASSUME NEW s \in Seq(ReplyBytes), PiWrite(s), ~HasTag(s, "PI_SUCCESS")
      PROVE  HasTag(toHost, "PI_SUCCESS")
  <2>1. toHost' \in {toHost, toHost \o s}
    BY <1>3, Written
  <2>2. HasTag(toHost \o s, "PI_SUCCESS") => HasTag(toHost, "PI_SUCCESS")
    BY <1>1, <1>3, Appended
  <2> QED
    BY <2>1, <2>2
<1>4. ASSUME NEW w \in ReplyWords, w[1] # "PI_SUCCESS"
      PROVE  Bytes(w) \in Seq(ReplyBytes) /\ ~HasTag(Bytes(w), "PI_SUCCESS")
  BY <1>4, ByteFacts, WordTags DEF ReplyBytes
<1>5. CASE PiRequest \/ PiFail \/ PiProgramEnds
  <2>1. PICK w \in {GetProgInfo, PiError, Done} : PiWrite(Bytes(w))
    BY <1>5 DEF PiRequest, PiFail, PiProgramEnds
  <2>2. w \in ReplyWords /\ w[1] # "PI_SUCCESS"
    BY Tags DEF ReplyWords
  <2> QED
    BY <1>3, <1>4, <2>1, <2>2
<1>6. CASE PiChecksum
  <2> DEFINE w == FromBytes(buf)
             s == Bytes(GetCode) \o Bytes(w)
  <2>1. PiWrite(s) /\ Len(buf) = 2
    BY <1>6 DEF PiChecksum, ReadWord, WordLen
  <2>2. w \in ReplyWords /\ w[1] # "PI_SUCCESS" /\ GetCode \in ReplyWords
        /\ GetCode[1] # "PI_SUCCESS"
    BY <1>1, <2>1, WordType, SentTags, Tags DEF ReplyWords
  <2> HIDE DEF w
  <2>3. /\ Bytes(GetCode) \in Seq(ReplyBytes) /\ ~HasTag(Bytes(GetCode), "PI_SUCCESS")
        /\ Bytes(w) \in Seq(ReplyBytes) /\ ~HasTag(Bytes(w), "PI_SUCCESS")
    BY <1>4, <2>2
  <2>4. s \in Seq(ReplyBytes) /\ ~HasTag(s, "PI_SUCCESS")
    BY <2>3, Appended
  <2> HIDE DEF s
  <2> QED
    BY <1>3, <2>1, <2>4
<1>7. CASE PiReceive
  <2>1. (PiReceive /\ pi' = "ack") \/ toHost' = toHost
    BY <1>7 DEF PiReceive
  <2> QED
    BY <1>1, <1>2, <2>1
<1>8. CASE \/ PiByte \/ PiRepeat \/ PiTimeout \/ PiInfo \/ PiLength \/ PiAck \/ PiReboot
           \/ HostGivesUp \/ UNCHANGED vars
  <2>1. toHost' = toHost
    BY <1>8 DEF PiByte, PiRepeat, PiTimeout, PiInfo, PiLength, PiAck, PiReboot, HostGivesUp, vars
  <2> QED
    BY <1>1, <1>2, <2>1
<1>9. CASE HostStart
  <2>1. toHost' \in Suffixes(Bytes(GetProgInfo)) \cup {<<>>}
    BY <1>9 DEF HostStart
  <2>2. ~HasTag(<<>>, "PI_SUCCESS")
    BY DEF HasTag
  <2>3. /\ Bytes(GetProgInfo) \in Seq(ReplyBytes) /\ ~HasTag(Bytes(GetProgInfo), "PI_SUCCESS")
    BY <1>4, Tags DEF ReplyWords
  <2>4. ASSUME NEW s \in Suffixes(Bytes(GetProgInfo))
        PROVE  ~HasTag(s, "PI_SUCCESS")
    BY <2>3, SuffixesSuffix, MissesFades, FadesHas
  <2> QED
    BY <2>1, <2>2, <2>4
<1>10. CASE HostListen \/ HostSkip \/ HostHeader \/ HostChecksum \/ HostSuccess \/ HostMonitor
  <2>1. PICK state \in HostStates : HostByte(state) \/ HostWord(state)
    BY <1>10 DEF HostListen, HostSkip, HostHeader, HostChecksum, HostSuccess, HostMonitor,
                 HostStates
  <2>2. Fades(toHost', toHost)
    BY <1>1, <2>1, HostReads
  <2> QED
    BY <1>2, <2>2
<1>11. CASE Lose \/ Damage
  <2>1. \/ toHost' = toHost
        \/ \E k \in 1 .. Len(toHost) : toHost' = Without(toHost, k)
        \/ \E k \in 1 .. Len(toHost) : toHost' = [toHost EXCEPT ![k] = Noise]
    BY <1>11 DEF Lose, Damage
  <2>2. Noise \in ReplyBytes
    BY ReplyTypes DEF SentBytes, SentWords, Noise
  <2>3. Fades(toHost', toHost)
    BY <1>1, <2>1, <2>2, WithoutMisses, MissesFades, DamageFades
  <2> QED
    BY <1>2, <2>3
<1> QED
  BY <1>5, <1>6, <1>7, <1>8, <1>9, <1>10, <1>11 DEF Next, PiNext, HostNext

\* The Pi's memory is left alone while the answer is on its way.
LEMMA AnsweredStep ==
  ASSUME Inv, [Next]_vars, Answered'
  PROVE  \/ Answered /\ mem' = mem /\ program' = program
         \/ PiReceive /\ pi' = "ack"
<1> SUFFICES ASSUME ~(PiReceive /\ pi' = "ack")
             PROVE  Answered /\ mem' = mem /\ program' = program
  OBVIOUS
<1> USE DEF vars, piVars, hostVars
<1>1. HasTag(toHost', "PI_SUCCESS") => HasTag(toHost, "PI_SUCCESS")
  BY SuccessSent
<1>2. pi' = "ack" => pi = "ack"
  BY DEF Next, PiNext, HostNext, Lose, Damage, PiRequest, PiByte, PiRepeat, PiTimeout,
         PiInfo, PiLength, PiChecksum, PiReceive, PiAck, PiFail, PiProgramEnds, PiReboot,
         HostStart, HostListen, HostSkip, HostHeader, HostChecksum, HostSuccess, HostMonitor,
         HostGivesUp
<1>3. Answered
  BY <1>1, <1>2 DEF Answered
<1>4. mem' = mem \/ PiChecksum \/ PiReceive
  BY DEF Next, PiNext, HostNext, Lose, Damage, PiRequest, PiByte, PiRepeat, PiTimeout,
         PiInfo, PiLength, PiAck, PiFail, PiProgramEnds, PiReboot,
         HostStart, HostListen, HostSkip, HostHeader, HostChecksum, HostSuccess, HostMonitor,
         HostGivesUp
<1>5. ~PiChecksum
  BY <1>3 DEF PiChecksum, ReadWord, Answered, Inv, HeaderInv, HeaderRead
<1>6. ~PiReceive
  BY <1>3 DEF PiReceive, Answered, Inv, LoadedInv
<1>7. program' = program \/ HostStart
  BY DEF Next, PiNext, HostNext, Lose, Damage, PiRequest, PiByte, PiRepeat, PiTimeout,
         PiInfo, PiLength, PiChecksum, PiReceive, PiAck, PiFail, PiProgramEnds, PiReboot,
         HostListen, HostSkip, HostHeader, HostChecksum, HostSuccess, HostMonitor,
         HostGivesUp
<1>8. ~HostStart
  <2> SUFFICES ASSUME HostStart
               PROVE  FALSE
    OBVIOUS
  <2>1. Inv' /\ host' = "listen"
    BY Starts DEF HostStart
  <2>2. Answered'
    OBVIOUS
  <2> QED
    BY <2>1, <2>2 DEF Inv, ListenInv, HeaderInv, HeaderRead, Answered
<1> QED
  BY <1>3, <1>4, <1>5, <1>6, <1>7, <1>8

\* A Pi that has jumped stays with what the installer committed to last.
LEMMA JumpStep ==
  ASSUME Inv, [Next]_vars, pi' = "jumped"
  PROVE  /\ mem' = mem
         /\ \/ pi = "jumped" /\ committed' = committed
            \/ pi = "ack" /\ committed' = program
<1> USE DEF vars, piVars, hostVars
<1>1. CASE PiAck
  <2>1. FromBytes(buf) = InstallerSuccess /\ pi = "ack" /\ mem' = mem /\ committed' = committed
    BY <1>1 DEF PiAck, ReadWord
  <2> QED
    BY <1>1, <2>1, AckRead
<1>2. CASE ~PiAck
  <2>1. pi = "jumped" /\ mem' = mem
    BY <1>2 DEF Next, PiNext, HostNext, Lose, Damage, PiRequest, PiByte, PiRepeat, PiTimeout,
           PiInfo, PiLength, PiChecksum, PiReceive, PiFail, PiProgramEnds, PiReboot,
           HostStart, HostListen, HostSkip, HostHeader, HostChecksum, HostSuccess, HostMonitor,
           HostGivesUp
  <2>2. committed' = committed \/ HostSuccess
    BY <2>1 DEF Next, PiNext, HostNext, Lose, Damage, PiRequest, PiByte, PiRepeat, PiTimeout,
           PiInfo, PiLength, PiChecksum, PiReceive, PiAck, PiFail, PiProgramEnds, PiReboot,
           HostStart, HostListen, HostSkip, HostHeader, HostChecksum, HostMonitor,
           HostGivesUp
  <2>3. ~HostSuccess
    BY <2>1 DEF HostSuccess, HostWord, Inv, JumpInv, Committed
  <2> QED
    BY <2>1, <2>2, <2>3
<1> QED
  BY <1>1, <1>2

LEMMA DamageGrows ==
  ASSUME Inv, [Next]_vars
  PROVE  damaged \in Nat /\ damaged' \in {damaged, damaged + 1}
BY DEF Inv, TypeInv, vars, faults, Next, PiNext, HostNext, Lose, Damage, PiRequest, PiByte,
       PiRepeat, PiTimeout, PiInfo, PiLength, PiChecksum, PiReceive, PiAck, PiFail,
       PiProgramEnds, PiReboot,
       HostStart, HostListen, HostSkip, HostHeader, HostChecksum, HostSuccess, HostMonitor,
       HostGivesUp

\* A turn of the receive loop leaves the stream as it is, and ends it when all
\* that was sent has been copied.
LEMMA StreamCopied ==
  ASSUME Inv, PiReceive
  PROVE  /\ Stream' = Stream /\ Len(mem') + Len(toPi') = Len(mem) + Len(toPi)
         /\ Len(mem') = Len(program) => mem' = Stream /\ Len(mem) + Len(toPi) = Len(program)
<1>1. /\ TypeInv /\ toPi \in Seq(SentBytes) /\ mem \in Seq(Symbols \cup {"other"})
      /\ Len(toPi) \in Nat /\ Len(mem) \in Nat /\ Len(program) \in Nat /\ pi = "code"
      /\ Len(mem) + Len(toPi) <= Len(program)
  BY ProgramType DEF Inv, TypeInv, PiReceive, CodeCount
<1>2. PICK n \in 0 .. Lesser(Chunk, Len(toPi)) :
        mem' = mem \o [k \in 1 .. n |-> Data(toPi[k])] /\ toPi' = Drop(toPi, n)
  BY DEF PiReceive
<1>3. n \in Nat /\ n <= Len(toPi) /\ n \in 0 .. Len(toPi)
  <2>1. Lesser(Chunk, Len(toPi)) \in Nat /\ Lesser(Chunk, Len(toPi)) <= Len(toPi)
    BY <1>1, BootAssumption DEF Lesser, BootAssumption
  <2> QED
    BY <1>1, <2>1
<1>4. Stream' = Stream /\ (n = Len(toPi) => mem' = Stream)
  BY <1>1, <1>2, <1>3, Copied DEF Stream
<1>5. Len(toPi') = Len(toPi) - n
  BY <1>1, <1>2, <1>3, DropSuffix
<1>6. Len(mem') = Len(mem) + n
  BY <1>1, <1>2, <1>3
<1>7. Len(mem') + Len(toPi') = Len(mem) + Len(toPi)
  BY <1>1, <1>3, <1>5, <1>6
<1>8. Len(mem') = Len(program) => n = Len(toPi) /\ Len(mem) + Len(toPi) = Len(program)
  BY <1>1, <1>3, <1>6
<1> QED
  BY <1>4, <1>7, <1>8

\* The loop ends when as many bytes as announced have been copied.
LEMMA AnsweredWhole ==
  ASSUME Inv, PiReceive, pi' = "ack"
  PROVE  Len(mem') = length
<1>1. /\ toPi \in Seq(SentBytes) /\ mem \in Seq(Symbols \cup {"other"})
      /\ Len(toPi) \in Nat /\ Len(mem) \in Nat /\ length \in Nat /\ pi = "code"
  BY DEF Inv, TypeInv, PiReceive
<1>2. PICK n \in 0 .. Lesser(Chunk, Len(toPi)) :
        mem' = mem \o [k \in 1 .. n |-> Data(toPi[k])] /\ Len(mem) + n = length
  BY <1>1 DEF PiReceive
<1> QED
  BY <1>1, <1>2

LEMMA CodeStep ==
  ASSUME Inv, Inv', MatchInv, [Next]_vars,
         pi' = "code", Len(mem') + Len(toPi') = Len(program')
  PROVE  Right(Stream', program', damaged')
<1> USE DEF vars, piVars, hostVars, faults
<1>1. /\ TypeInv /\ toPi \in Seq(SentBytes) /\ mem \in Seq(Symbols \cup {"other"})
      /\ Len(toPi) \in Nat /\ Len(program) \in Nat
      /\ damaged \in Nat /\ damaged' \in {damaged, damaged + 1}
  BY ProgramType, DamageGrows DEF Inv, TypeInv
<1>2. pi = "code" => Len(mem) \in Nat /\ Len(mem) + Len(toPi) <= Len(program)
  BY <1>1 DEF Inv, CodeCount
<1>3. ASSUME pi = "code", UNCHANGED <<Stream, program>>,
             Len(mem) + Len(toPi) = Len(mem') + Len(toPi')
      PROVE  Right(Stream', program', damaged')
  BY <1>1, <1>3, RightKept DEF MatchInv
<1>4. ASSUME mem' = <<>>, toPi' = CodeBytes(program), program' = program
      PROVE  Right(Stream', program', damaged')
  <2>1. program \in Seq(Symbols) /\ Datas(toPi') = program
    BY <1>1, <1>4, ProgramType, CodeReceived
  <2>2. Stream' = program
    BY <1>4, <2>1, ConcatEmptySeq DEF Stream
  <2> QED
    BY <1>4, <2>2 DEF Right, OneOff
<1>5. CASE PiChecksum
  <2>1. /\ pi = "checksum" /\ Len(buf) = 2 /\ Len(buf) + Len(toPi) <= 2
        /\ mem' = <<>> /\ toPi' = toPi /\ program' = program
    BY <1>5 DEF PiChecksum, ReadWord, Inv, HeaderCount, WordLen
  <2>2. Len(toPi) = 0 /\ Len(mem') = 0 /\ Len(program) = 0
    BY <1>1, <2>1
  <2>3. toPi = CodeBytes(program)
    <3>1. CodeBytes(program) \in Seq(SentBytes) /\ Len(CodeBytes(program)) = 0
      BY <1>1, <2>2, ProgramType, CodeFacts
    <3> HIDE DEF CodeBytes
    <3>2. toPi = <<>> /\ CodeBytes(program) = <<>>
      BY <1>1, <2>2, <3>1, EmptySeq
    <3> QED
      BY <3>2
  <2> QED
    BY <1>4, <2>1, <2>3
<1>6. CASE PiReceive
  <2>1. pi = "code" /\ program' = program
    BY <1>6 DEF PiReceive
  <2> QED
    BY <1>3, <1>6, <2>1, StreamCopied
<1>7. CASE HostChecksum
  <2>1. pi = "code" /\ mem = <<>> /\ toPi = <<>> /\ mem' = mem /\ program' = program
    BY <1>7 DEF HostChecksum, HostWord, Inv, CodeCount
  <2>2. CASE toPi' = toPi
    BY <1>3, <2>1, <2>2 DEF Stream
  <2>3. CASE toPi' = toPi \o CodeBytes(program)
    <3>1. CodeBytes(program) \in Seq(SentBytes)
      BY <1>1, ProgramType, CodeFacts
    <3>2. toPi' = CodeBytes(program)
      BY <2>1, <2>3, <3>1, ConcatEmptySeq
    <3> QED
      BY <1>4, <2>1, <3>2
  <2> QED
    BY <1>7, <2>2, <2>3 DEF HostChecksum, HostWrite
<1>8. CASE HostSuccess
  <2>1. pi = "code" /\ mem' = mem /\ program' = program
    BY <1>8 DEF HostSuccess
  <2>2. ~HasTag(toHost, "PI_SUCCESS")
    BY <2>1 DEF Inv, LoadedInv
  <2>3. FromBytes(Take(toHost, WordLen)) # PiSuccess
    BY <1>1, <1>8, <2>2, HostWordRead, Tags DEF HostSuccess
  <2>4. toPi' = toPi
    BY <1>8, <2>3 DEF HostSuccess
  <2> QED
    BY <1>3, <2>1, <2>4 DEF Stream
<1>9. CASE Lose \/ Damage
  <2>1. pi = "code" /\ mem' = mem /\ program' = program
    BY <1>9 DEF Lose, Damage
  <2>2. CASE toPi' = toPi
    BY <1>3, <2>1, <2>2 DEF Stream
  <2>3. CASE \E k \in 1 .. Len(toPi) : toPi' = Without(toPi, k)
    <3>1. Len(toPi') < Len(toPi) /\ Len(toPi') \in Nat
      BY <1>1, <2>3, WithoutMisses
    <3> QED
      BY <1>1, <1>2, <2>1, <3>1
  <2>4. CASE Damage /\ \E k \in 1 .. Len(toPi) : toPi' = [toPi EXCEPT ![k] = Noise]
    <3>1. PICK k \in 1 .. Len(toPi) : toPi' = [toPi EXCEPT ![k] = Noise]
      BY <2>4
    <3>2. Noise \in SentBytes
      BY DEF SentBytes, SentWords, Noise
    <3>3. Len(toPi') = Len(toPi)
      BY <1>1, <3>1, <3>2, DamageFades
    <3>4. OneOff(Stream', Stream)
      BY <1>1, <2>1, <3>1, Damaged DEF Stream
    <3>5. damaged' = damaged + 1
      BY <2>4 DEF Damage
    <3>6. Right(Stream, program, damaged)
      BY <2>1, <3>3 DEF MatchInv
    <3> QED
      BY <1>1, <2>1, <3>4, <3>5, <3>6 DEF Right
  <2> QED
    BY <1>9, <2>2, <2>3, <2>4 DEF Lose, Damage
<1>10. CASE ~(PiChecksum \/ PiReceive \/ HostChecksum \/ HostSuccess \/ Lose \/ Damage)
  <2>1. pi = "code"
    BY <1>10 DEF Next, PiNext, HostNext, PiRequest, PiByte, PiRepeat, PiTimeout,
           PiInfo, PiLength, PiAck, PiFail, PiProgramEnds, PiReboot,
           HostStart, HostListen, HostSkip, HostHeader, HostMonitor, HostGivesUp
  <2>2. host # "listen"
    BY <2>1 DEF Inv, ListenInv
  <2>3. mem' = mem /\ toPi' = toPi /\ program' = program
    BY <1>10, <2>1, <2>2 DEF Next, PiNext, HostNext, PiRequest, PiByte, PiRepeat, PiTimeout,
           PiInfo, PiLength, PiAck, PiFail, PiProgramEnds, PiReboot, ReadWord, Reading,
           HostStart, Settled, HostListen, HostByte, HostSkip, HostHeader, HostMonitor, HostGivesUp
  <2> QED
    BY <1>3, <2>1, <2>3 DEF Stream
<1> QED
  BY <1>5, <1>6, <1>7, <1>8, <1>9, <1>10

LEMMA MatchStep ==
  ASSUME Inv, Inv', MatchInv, [Next]_vars
  PROVE  MatchInv'
<1>1. damaged \in Nat /\ damaged' \in {damaged, damaged + 1}
  BY DamageGrows
<1>2. pi' = "code" /\ Len(mem') + Len(toPi') = Len(program') =>
        Right(Stream', program', damaged')
  BY CodeStep
<1>3. ASSUME Answered'
      PROVE  Right(mem', program', damaged')
  <2>1. CASE Answered /\ mem' = mem /\ program' = program
    BY <1>1, <2>1, RightKept DEF MatchInv
  <2>2. CASE PiReceive /\ pi' = "ack"
    <3>1. /\ pi = "code" /\ program' = program /\ damaged' = damaged /\ length' = length
          /\ Len(mem) + Len(toPi) = Len(program) => Right(Stream, program, damaged)
      BY <2>2 DEF PiReceive, MatchInv, hostVars, faults
    <3>2. Len(mem') = Len(program) => Right(mem', program', damaged')
      BY <2>2, <3>1, StreamCopied
    <3>3. damaged = 0 => Len(mem') = Len(program)
      <4>1. damaged = 0 => length = Len(program)
        BY <3>1 DEF Inv, LengthInv
      <4>2. Len(mem') = length
        BY <2>2, AnsweredWhole
      <4> QED
        BY <4>1, <4>2
    <3> QED
      BY <3>1, <3>2, <3>3 DEF Right
  <2> QED
    BY <1>3, <2>1, <2>2, AnsweredStep
<1>4. pi' = "jumped" => Right(mem', committed', damaged')
  <2> SUFFICES ASSUME pi' = "jumped"
               PROVE  Right(mem', committed', damaged')
    OBVIOUS
  <2>1. /\ mem' = mem
        /\ \/ pi = "jumped" /\ committed' = committed
           \/ pi = "ack" /\ committed' = program
    BY JumpStep
  <2> QED
    BY <1>1, <2>1, RightKept DEF MatchInv, Answered
<1> QED
  BY <1>2, <1>3, <1>4 DEF MatchInv

\* The installer commits when it has read PI_SUCCESS.
LEMMA CommitStep ==
  ASSUME Inv, Next, committed' # committed \/ (host # "monitor" /\ host' = "monitor")
  PROVE  Answered /\ Crc(mem) = Crc(program) /\ program \in Programs
<1>1. HostSuccess
  BY DEF Next, PiNext, HostNext, Lose, Damage, hostVars, PiRequest, PiByte, PiRepeat, PiTimeout,
         PiInfo, PiLength, PiChecksum, PiReceive, PiAck, PiFail, PiProgramEnds, PiReboot,
         HostStart, HostListen, HostSkip, HostHeader, HostChecksum, HostMonitor, HostGivesUp,
         HostByte, HostWord
<1>2. FromBytes(Take(toHost, WordLen)) = PiSuccess /\ HostWord("success") /\ host = "success"
  BY <1>1 DEF HostSuccess, HostWord
<1>3. HasTag(toHost, "PI_SUCCESS")
  <2>1. PiSuccess # Garbage /\ PiSuccess[1] = "PI_SUCCESS"
    BY Tags
  <2> QED
    BY <1>2, <2>1, HostWordRead DEF Inv
<1> QED
  BY <1>2, <1>3 DEF Answered, Inv, LoadedInv, TypeInv

-----------------------------------------------------------------------------
(* The theorems.                                                           *)

\* What the two sides and the wire can be: the invariant of everything below.
THEOREM Invariant == Spec => []Inv
<1>1. Init => Inv
  BY InitInv
<1>2. Inv /\ [Next]_vars => Inv'
  BY PiInv, HostInv, WireInv, StutterInv DEF Next
<1> QED
  BY <1>1, <1>2, PTL DEF Spec

\* Whatever the checksum is worth: the Pi jumps only to bytes with the checksum
\* of the program the installer has committed to.
THEOREM JumpChecked == Spec => [](pi = "jumped" => Crc(mem) = Crc(committed))
<1>1. Inv => (pi = "jumped" => Crc(mem) = Crc(committed))
  BY DEF Inv, JumpInv
<1> QED
  BY <1>1, Invariant, PTL

\* What is received is what was sent, but for the damaged bytes.
THEOREM Matched == Spec => []MatchInv
<1>1. Init => MatchInv
  <2> SUFFICES ASSUME Init
               PROVE  MatchInv
    OBVIOUS
  <2>1. ~Answered
    BY DEF Init, Answered, HasTag
  <2> QED
    BY <2>1 DEF Init, MatchInv
<1>2. Inv /\ Inv' /\ MatchInv /\ [Next]_vars => MatchInv'
  BY MatchStep
<1> QED
  BY <1>1, <1>2, Invariant, PTL DEF Spec

\* No checksum is needed against lost bytes, late ones and those left over from an
\* earlier run: as long as none is damaged, the Pi jumps only to the program that
\* the installer has committed to, whatever Crc computes.
THEOREM JumpsUndamaged == Spec => [](damaged = 0 => JumpVerified)
<1>1. MatchInv => (damaged = 0 => JumpVerified)
  BY DEF MatchInv, Right, JumpVerified
<1> QED
  BY <1>1, Matched, PTL

\* And the installer commits only to a program that the Pi has in memory.
THEOREM CommitsUndamaged == Spec /\ [](damaged = 0) => CommitVerified
<1> DEFINE A == committed' # committed \/ (host # "monitor" /\ host' = "monitor") => mem = program
<1>1. Inv /\ MatchInv /\ damaged = 0 /\ [Next]_vars => [A]_vars
  BY CommitStep DEF MatchInv, Right
<1> QED
  BY <1>1, Invariant, Matched, PTL DEF Spec, CommitVerified

\* If so, what the Pi is content with, and jumps to, has the length of the program.
WholeInv ==
  /\ Answered => Len(mem) = Len(program)
  /\ pi = "jumped" => Len(mem) = Len(committed)

LEMMA Whole == Spec /\ []LengthArrived => []WholeInv
<1>1. Init => WholeInv
  BY DEF Init, WholeInv, Answered, HasTag
<1>2. Inv /\ WholeInv /\ LengthArrived' /\ [Next]_vars => WholeInv'
  <2> SUFFICES ASSUME Inv, WholeInv, LengthArrived', [Next]_vars
               PROVE  WholeInv'
    OBVIOUS
  <2>1. ASSUME Answered'
        PROVE  Len(mem') = Len(program')
    <3>1. CASE PiReceive /\ pi' = "ack"
      <4>1. Len(mem') = length /\ length' = length
        BY <3>1, AnsweredWhole DEF PiReceive
      <4> QED
        BY <3>1, <4>1 DEF LengthArrived
    <3> QED
      BY <2>1, <3>1, AnsweredStep DEF WholeInv
  <2>2. pi' = "jumped" => Len(mem') = Len(committed')
    BY JumpStep DEF WholeInv, Answered
  <2> QED
    BY <2>1, <2>2 DEF WholeInv
<1> QED
  BY <1>1, <1>2, Invariant, PTL DEF Spec

\* With such a checksum, one damaged byte does not mislead the Pi either, unless
\* it has changed the length: it jumps only to the program committed to.
THEOREM JumpsVerified ==
  ASSUME DamageDetected
  PROVE  Spec /\ [](damaged <= 1 /\ LengthArrived) => []JumpVerified
<1>1. Inv /\ MatchInv /\ WholeInv /\ damaged <= 1 => JumpVerified
  <2> SUFFICES ASSUME Inv, MatchInv, WholeInv, damaged <= 1, pi = "jumped"
               PROVE  mem = committed
    BY DEF JumpVerified
  <2>1. damaged = 0 \/ damaged = 1
    BY DEF Inv, TypeInv
  <2>2. /\ Right(mem, committed, damaged) /\ Len(mem) = Len(committed)
        /\ Crc(mem) = Crc(committed) /\ committed \in Programs
        /\ mem \in Seq(Symbols \cup {"other"})
    BY DEF MatchInv, WholeInv, Inv, JumpInv, TypeInv
  <2> QED
    BY <2>1, <2>2, DamageDetected DEF DamageDetected, Right
<1> QED
  BY <1>1, Invariant, Matched, Whole, PTL

\* Nor the installer, which then commits only to what the Pi has in memory.
THEOREM CommitsVerified ==
  ASSUME DamageDetected
  PROVE  Spec /\ [](damaged <= 1 /\ LengthArrived) => CommitVerified
<1> DEFINE A == committed' # committed \/ (host # "monitor" /\ host' = "monitor") => mem = program
<1>1. Inv /\ MatchInv /\ WholeInv /\ damaged <= 1 /\ [Next]_vars => [A]_vars
  <2> SUFFICES ASSUME Inv, MatchInv, WholeInv, damaged <= 1, Next,
                      committed' # committed \/ (host # "monitor" /\ host' = "monitor")
               PROVE  mem = program
    OBVIOUS
  <2>1. damaged = 0 \/ damaged = 1
    BY DEF Inv, TypeInv
  <2>2. Answered /\ Crc(mem) = Crc(program) /\ program \in Programs
    BY CommitStep
  <2>3. /\ Right(mem, program, damaged) /\ Len(mem) = Len(program)
        /\ mem \in Seq(Symbols \cup {"other"})
    BY <2>2 DEF MatchInv, WholeInv, Inv, TypeInv
  <2> QED
    BY <2>1, <2>2, <2>3, DamageDetected DEF DamageDetected, Right
<1> QED
  BY <1>1, Invariant, Matched, Whole, PTL DEF Spec, CommitVerified

\* If the space check wraps for no program, the receive loop stays below the
\* bootloader unless a damaged byte has hidden the length of one that does not fit.
THEOREM BootloaderSafe ==
  ASSUME Addressable
  PROVE  Spec => []BootloaderIntact
<1>1. Inv => BootloaderIntact
  <2> SUFFICES ASSUME Inv, pi \in {"code", "ack"}, Len(mem) >= Space
               PROVE  damaged > 0 /\ Len(program) >= Space
    BY DEF BootloaderIntact
  <2>1. /\ TypeInv /\ Len(program) \in Nat /\ damaged \in Nat /\ Len(mem) \in Nat
        /\ Len(toPi) \in Nat
    BY ProgramType DEF Inv, TypeInv
  <2>2. Len(mem) <= Len(program)
    BY <2>1 DEF Inv, CodeCount, SpaceInv
  <2>3. Len(program) >= Space
    BY <2>1, <2>2, BootAssumption DEF BootAssumption
  <2>4. ASSUME damaged = 0
        PROVE  FALSE
    <3>1. (Base + Len(program)) % U32 < Base + Space
      BY <2>4 DEF Inv, LengthInv, SpaceInv
    <3>2. Base + Len(program) < U32
      <4>1. program # <<>>
        <5>1. Len(<<>>) = 0
          OBVIOUS
        <5> QED
          BY <2>3, <5>1, BootAssumption DEF BootAssumption
      <4> QED
        BY <2>1, <4>1, Addressable DEF Addressable, TypeInv
    <3>3. (Base + Len(program)) % U32 = Base + Len(program)
      BY <2>1, <3>2, BootAssumption DEF BootAssumption
    <3> QED
      BY <2>1, <2>3, <3>1, <3>3, BootAssumption DEF BootAssumption
  <2> QED
    BY <2>1, <2>3, <2>4
<1> QED
  BY <1>1, Invariant, PTL

=============================================================================
