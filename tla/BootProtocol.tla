---------------------------- MODULE BootProtocol ----------------------------
(***************************************************************************)
(* Loading a program over the UART: the bootloader on the Pi               *)
(* (bootloader/src/main.rs), the installer on the host                     *)
(* (installer/src/main.rs) and the two byte streams between them.          *)
(*                                                                         *)
(* A u32 of the protocol is WordLen bytes on the wire, each remembering    *)
(* its word and its place in it; a reader that is out of step with the     *)
(* writer assembles Garbage.  Four bytes per word are scaled down to two.  *)
(* The Pi's UART has no flow control, so bytes may be lost or damaged.     *)
(***************************************************************************)
EXTENDS Integers, Sequences

CONSTANTS
  Programs,     \* byte sequences an installer may be run with
  Crc(_),       \* the CRC-32 of a byte sequence
  Base,         \* BASE
  Space,        \* BOOTLOADER_LOCATION - BASE
  U32,          \* the number of values of a u32
  Chunk,        \* read_uart's buffer in the receive loop (8 bytes in the code)
  MaxInFlight,  \* bound: bytes on their way to the host
  MaxRuns,      \* bound: runs of the installer
  MaxLost,      \* bound: bytes lost
  MaxDamaged    \* bound: bytes damaged

\* What programs are made of.
Symbols == UNION {{p[k] : k \in DOMAIN p} : p \in Programs}

ASSUME BootAssumption ==
  /\ Programs \subseteq Seq(Symbols)
  /\ Base \in Nat /\ Space \in Nat \ {0} /\ U32 \in Nat /\ Base + Space < U32
  /\ Chunk \in Nat \ {0}
  /\ MaxInFlight \in Nat /\ MaxRuns \in Nat
  /\ MaxLost \in Nat /\ MaxDamaged \in Nat

VARIABLES
  pi,         \* what the bootloader is doing
  buf,        \* bytes of the word it is reading
  length,     \* program_length
  checksum,   \* the checksum word it was sent
  mem,        \* the bytes written from BASE on
  toPi,       \* bytes on their way to the Pi
  host,       \* what the installer is doing
  window,     \* the last bytes it read
  program,    \* the program it was run with
  toHost,     \* bytes on their way to the installer
  committed,  \* history: the program of the last INSTALLER_SUCCESS sent
  runs, lost, damaged,
  prompt      \* neither side is so late that the other one times out, no faults

piVars == <<pi, buf, length, checksum, mem>>
hostVars == <<host, window, program, committed, runs>>
faults == <<lost, damaged, prompt>>
vars == <<piVars, hostVars, toPi, toHost, faults>>

-----------------------------------------------------------------------------
(* Words and bytes.                                                        *)

WordLen == 2

Word(tag) == <<tag, 0>>
GetProgInfo == Word("PI_GET_PROG_INFO")
GetCode == Word("PI_GET_CODE")
PiSuccess == Word("PI_SUCCESS")
PiError == Word("PI_ERROR")
ProgInfo == Word("INSTALLER_PROG_INFO")
InstallerSuccess == Word("INSTALLER_SUCCESS")
Done == Word("DONE!!!")
Garbage == Word("garbage")
Length(n) == <<"length", n>>
Checksum(c) == <<"checksum", c>>

\* The bytes of a word, and the word read back from bytes.
Bytes(w) == [k \in 1 .. WordLen |-> [word |-> w, place |-> k]]
FromBytes(s) == IF s = Bytes(s[1].word) THEN s[1].word ELSE Garbage

\* is_pi_get_prog_info_byte
IsRequestByte(b) == b.word = GetProgInfo

CodeBytes(p) == [k \in 1 .. Len(p) |-> [word |-> <<"code", p[k]>>, place |-> 0]]
Data(b) == IF b.word[1] = "code" THEN b.word[2] ELSE "other"
Noise == [word |-> Garbage, place |-> 0]

Suffixes(s) == {SubSeq(s, k, Len(s)) : k \in 1 .. Len(s) + 1}
Lesser(a, b) == IF a < b THEN a ELSE b
Take(s, n) == SubSeq(s, 1, n)
Drop(s, n) == SubSeq(s, n + 1, Len(s))

HostOpen == host \notin {"off", "done", "error"}

\* write_uart_u32: what nobody reads is gone.
PiWrite(s) == toHost' = IF HostOpen THEN toHost \o s ELSE toHost

Init ==
  /\ pi = "request" /\ buf = <<>> /\ length = 0 /\ checksum = Garbage /\ mem = <<>>
  /\ host = "off" /\ window = <<>> /\ program = <<>> /\ committed = <<"none">>
  /\ runs = 0 /\ lost = 0 /\ damaged = 0
  /\ toPi = <<>> /\ toHost = <<>>
  /\ prompt \in BOOLEAN

-----------------------------------------------------------------------------
(* The Pi.                                                                 *)

Reading == {"info", "length", "checksum", "ack"}

\* Nothing more is on its way to the Pi, and the installer waits too.
HostSilent == toPi = <<>> /\ (toHost = <<>> \/ ~HostOpen)

PiRequest ==
  /\ pi = "request"
  /\ HostOpen => Len(toHost) + WordLen <= MaxInFlight
  /\ PiWrite(Bytes(GetProgInfo))
  /\ pi' = "info"
  /\ buf' = <<>>
  /\ UNCHANGED <<length, checksum, mem, hostVars, toPi, faults>>

\* read_uart_u32_timeout: one byte of the word.
PiByte ==
  /\ pi \in Reading
  /\ Len(buf) < WordLen
  /\ toPi # <<>>
  /\ buf' = Append(buf, Head(toPi))
  /\ toPi' = Tail(toPi)
  /\ UNCHANGED <<pi, length, checksum, mem, hostVars, toHost, faults>>

\* After 300 ms the request is repeated; bytes already read are forgotten.
PiRepeat ==
  /\ pi = "info"
  /\ Len(buf) < WordLen
  /\ prompt => toPi = <<>> /\ (buf = <<>> \/ HostSilent)
  /\ pi' = "request"
  /\ buf' = <<>>
  /\ UNCHANGED <<length, checksum, mem, hostVars, toPi, toHost, faults>>

\* Anywhere else 10 ms without the rest of the word, or without a byte of the
\* program, make load fail.
PiTimeout ==
  /\ \/ pi \in Reading \ {"info"} /\ Len(buf) < WordLen
     \/ pi = "code" /\ Len(mem) # length
  /\ prompt => HostSilent
  /\ pi' = "failed"
  /\ UNCHANGED <<buf, length, checksum, mem, hostVars, toPi, toHost, faults>>

ReadWord(state) == pi = state /\ Len(buf) = WordLen

PiInfo ==
  /\ ReadWord("info")
  /\ pi' = IF FromBytes(buf) = ProgInfo THEN "length" ELSE "failed"
  /\ buf' = <<>>
  /\ UNCHANGED <<length, checksum, mem, hostVars, toPi, toHost, faults>>

\* The values a word can have as a length: garbage may look like any.
AsLength(w) == IF w[1] = "length" THEN {w[2]} ELSE 0 .. U32 - 1

\* Mutant: the space check lets a program end where the bootloader starts.
PiLengthUnchecked ==
  /\ ReadWord("length")
  /\ \E n \in AsLength(FromBytes(buf)) :
       /\ length' = n
       /\ pi' = IF (Base + n) % U32 > Base + Space THEN "failed" ELSE "checksum"
  /\ buf' = <<>>
  /\ UNCHANGED <<checksum, mem, hostVars, toPi, toHost, faults>>

\* BASE + program_length >= BOOTLOADER_LOCATION is an error.  The build that is
\* installed is the release one, where the sum wraps.
PiLength ==
  /\ ReadWord("length")
  /\ \E n \in AsLength(FromBytes(buf)) :
       /\ length' = n
       /\ pi' = IF (Base + n) % U32 >= Base + Space THEN "failed" ELSE "checksum"
  /\ buf' = <<>>
  /\ UNCHANGED <<checksum, mem, hostVars, toPi, toHost, faults>>

\* The checksum is echoed after PI_GET_CODE.
PiChecksum ==
  /\ ReadWord("checksum")
  /\ checksum' = FromBytes(buf)
  /\ PiWrite(Bytes(GetCode) \o Bytes(FromBytes(buf)))
  /\ mem' = <<>>
  /\ pi' = "code"
  /\ buf' = <<>>
  /\ UNCHANGED <<length, hostVars, toPi, faults>>

\* Mutant: the CRC of what arrived is not compared.
PiReceiveUnchecked ==
  /\ pi = "code"
  /\ \E n \in 0 .. Lesser(Chunk, Len(toPi)) :
       /\ mem' = mem \o [k \in 1 .. n |-> Data(toPi[k])]
       /\ toPi' = Drop(toPi, n)
       /\ IF Len(mem) + n # length
          THEN UNCHANGED <<pi, toHost>>
          ELSE pi' = "ack" /\ PiWrite(Bytes(PiSuccess))
  /\ UNCHANGED <<buf, length, checksum, hostVars, faults>>

\* One turn of the receive loop: some bytes, perhaps none, are copied, and only
\* if exactly program_length have been is the CRC compared.
PiReceive ==
  /\ pi = "code"
  /\ \E n \in 0 .. Lesser(Chunk, Len(toPi)) :
       /\ mem' = mem \o [k \in 1 .. n |-> Data(toPi[k])]
       /\ toPi' = Drop(toPi, n)
       /\ IF Len(mem) + n # length
          THEN UNCHANGED <<pi, toHost>>
          ELSE IF checksum = Checksum(Crc(mem'))
          THEN pi' = "ack" /\ PiWrite(Bytes(PiSuccess))
          ELSE pi' = "failed" /\ UNCHANGED toHost
  /\ UNCHANGED <<buf, length, checksum, hostVars, faults>>

\* INSTALLER_SUCCESS lets main jump to BASE.
PiAck ==
  /\ ReadWord("ack")
  /\ pi' = IF FromBytes(buf) = InstallerSuccess THEN "jumped" ELSE "failed"
  /\ buf' = <<>>
  /\ UNCHANGED <<length, checksum, mem, hostVars, toPi, toHost, faults>>

\* main reports the error, blinks for a second and reboots; a loaded program
\* prints its last line and reboots too.
PiFail ==
  /\ pi = "failed"
  /\ PiWrite(Bytes(PiError))
  /\ pi' = "rebooting"
  /\ UNCHANGED <<buf, length, checksum, mem, hostVars, toPi, faults>>

PiProgramEnds ==
  /\ pi = "jumped"
  /\ PiWrite(Bytes(Done))
  /\ pi' = "rebooting"
  /\ UNCHANGED <<buf, length, checksum, mem, hostVars, toPi, faults>>

\* setup_uart clears the receive FIFO: what arrived until then, a second after the
\* load failed, is lost; load starts over.
PiReboot ==
  /\ pi = "rebooting"
  /\ pi' = "request"
  /\ buf' = <<>> /\ length' = 0 /\ checksum' = Garbage
  /\ toPi' \in IF prompt THEN {<<>>} ELSE Suffixes(toPi)
  /\ UNCHANGED <<mem, hostVars, toHost, faults>>

PiNext ==
  \/ PiRequest \/ PiByte \/ PiRepeat \/ PiTimeout
  \/ PiInfo \/ PiLength \/ PiChecksum \/ PiReceive \/ PiAck
  \/ PiFail \/ PiProgramEnds \/ PiReboot

-----------------------------------------------------------------------------
(* The installer.                                                          *)

HostWrite(s) == toPi' = toPi \o s

\* Nobody starts the installer again before what the last run sent has arrived, the
\* Pi has looked at each whole word of it, and the 10 ms waits for more are over.
Settled == toPi = <<>> /\ Len(buf) < WordLen /\ pi \notin {"length", "checksum", "code", "ack"}

\* The device is opened at any byte of the request going by.
HostStart ==
  /\ ~HostOpen
  /\ Settled
  /\ runs < MaxRuns
  /\ runs' = runs + 1
  /\ program' \in Programs
  /\ host' = "listen"
  /\ window' = <<>>
  /\ toHost' \in IF pi = "info" THEN Suffixes(Bytes(GetProgInfo)) ELSE {<<>>}
  /\ UNCHANGED <<piVars, committed, toPi, faults>>

HostByte(state) ==
  /\ host = state
  /\ toHost # <<>>
  /\ toHost' = Tail(toHost)

\* The sliding window v = (v >> 8) + (byte << 24).
Slide == IF Len(window) < WordLen THEN Append(window, Head(toHost))
         ELSE Append(Tail(window), Head(toHost))

Matches(s, w) == Len(s) = WordLen /\ FromBytes(s) = w

\* A matched request is answered with the program's length and checksum; a byte
\* that does not complete one may come after the limit of 3 seconds.
HostListen ==
  /\ HostByte("listen")
  /\ IF Matches(Slide, GetProgInfo)
     THEN /\ host' = "skip"
          /\ window' = <<>>
          /\ HostWrite(Bytes(ProgInfo) \o Bytes(Length(Len(program)))
                         \o Bytes(Checksum(Crc(program))))
     ELSE /\ host' \in {"listen"} \cup IF prompt THEN {} ELSE {"error"}
          /\ window' = Slide
          /\ UNCHANGED toPi
  /\ UNCHANGED <<piVars, program, committed, runs, faults>>

\* Mutant: the requests that were already on their way are not skipped.
HostNoSkip ==
  /\ HostByte("skip")
  /\ host' = "header"
  /\ window' = <<Head(toHost)>>
  /\ UNCHANGED <<piVars, program, committed, runs, toPi, faults>>

\* Bytes of requests sent before the answer arrived are skipped.
HostSkip ==
  /\ HostByte("skip")
  /\ IF IsRequestByte(Head(toHost))
     THEN UNCHANGED <<host, window>>
     ELSE host' = "header" /\ window' = <<Head(toHost)>>
  /\ UNCHANGED <<piVars, program, committed, runs, toPi, faults>>

\* The rest of the first word that is not a request: it must be PI_GET_CODE.
HostHeader ==
  /\ HostByte("header")
  /\ window' = Slide
  /\ host' = IF Len(Slide) < WordLen THEN "header"
             ELSE IF Matches(Slide, GetCode) THEN "checksum" ELSE "error"
  /\ UNCHANGED <<piVars, program, committed, runs, toPi, faults>>

\* get32
HostWord(state) ==
  /\ host = state
  /\ Len(toHost) >= WordLen
  /\ toHost' = Drop(toHost, WordLen)

HostChecksum ==
  /\ HostWord("checksum")
  /\ IF FromBytes(Take(toHost, WordLen)) = Checksum(Crc(program))
     THEN host' = "success" /\ HostWrite(CodeBytes(program))
     ELSE host' = "error" /\ UNCHANGED toPi
  /\ UNCHANGED <<piVars, window, program, committed, runs, faults>>

\* Mutant: the program is committed without waiting for PI_SUCCESS to match.
HostSuccessUnchecked ==
  /\ HostWord("success")
  /\ host' = "monitor"
  /\ committed' = program
  /\ window' = <<>>
  /\ HostWrite(Bytes(InstallerSuccess))
  /\ UNCHANGED <<piVars, program, runs, faults>>

\* "successfully loaded, waiting for DONE!!!"
HostSuccess ==
  /\ HostWord("success")
  /\ IF FromBytes(Take(toHost, WordLen)) = PiSuccess
     THEN /\ host' = "monitor"
          /\ committed' = program
          /\ window' = <<>>
          /\ HostWrite(Bytes(InstallerSuccess))
     ELSE /\ host' = "error"
          /\ UNCHANGED <<committed, window, toPi>>
  /\ UNCHANGED <<piVars, program, runs, faults>>

HostMonitor ==
  /\ HostByte("monitor")
  /\ window' = Slide
  /\ host' = IF Matches(Slide, Done) THEN "done" ELSE "monitor"
  /\ UNCHANGED <<piVars, program, committed, runs, toPi, faults>>

\* getu8 or get32 gives up after its timeout, or somebody interrupts the installer.
HostGivesUp ==
  /\ HostOpen
  /\ ~prompt
  /\ host' = "error"
  /\ UNCHANGED <<piVars, window, program, committed, runs, toPi, toHost, faults>>

HostNext ==
  \/ HostStart \/ HostListen \/ HostSkip \/ HostHeader \/ HostChecksum
  \/ HostSuccess \/ HostMonitor \/ HostGivesUp

-----------------------------------------------------------------------------
(* The wire.                                                               *)

Without(s, k) == Take(s, k - 1) \o Drop(s, k)

Lose ==
  /\ ~prompt /\ lost < MaxLost
  /\ lost' = lost + 1
  /\ \/ /\ \E k \in 1 .. Len(toPi) : toPi' = Without(toPi, k)
        /\ UNCHANGED toHost
     \/ /\ \E k \in 1 .. Len(toHost) : toHost' = Without(toHost, k)
        /\ UNCHANGED toPi
  /\ UNCHANGED <<piVars, hostVars, damaged, prompt>>

Damage ==
  /\ ~prompt /\ damaged < MaxDamaged
  /\ damaged' = damaged + 1
  /\ \/ /\ \E k \in 1 .. Len(toPi) : toPi' = [toPi EXCEPT ![k] = Noise]
        /\ UNCHANGED toHost
     \/ /\ \E k \in 1 .. Len(toHost) : toHost' = [toHost EXCEPT ![k] = Noise]
        /\ UNCHANGED toPi
  /\ UNCHANGED <<piVars, hostVars, lost, prompt>>

Next == PiNext \/ HostNext \/ Lose \/ Damage

Spec == Init /\ [][Next]_vars

(***************************************************************************)
(* Fairness: each program keeps executing when it can.  A timeout happens  *)
(* if nothing else does; starting the installer, and faults, need not.     *)
(***************************************************************************)
Fairness ==
  /\ WF_vars(PiNext)
  /\ WF_vars(HostNext /\ HostOpen)

FairSpec == Spec /\ Fairness

-----------------------------------------------------------------------------
(* Properties.                                                             *)

\* The Pi jumps to BASE only when what is there is the program the installer was
\* run with and has committed to, whatever was lost, damaged, late or left over
\* from an earlier run.
JumpVerified == pi = "jumped" => mem = committed

\* The installer commits only to a program that the Pi has completely in memory.
CommitVerified ==
  [][committed' # committed \/ (host # "monitor" /\ host' = "monitor") => mem = program]_vars

\* The receive loop has no bound of its own and the space check wraps, yet the
\* bootloader is never reached unless the program does not fit and a damaged byte
\* has hidden its length.
BootloaderIntact ==
  pi \in {"code", "ack"} /\ Len(mem) >= Space => damaged > 0 /\ Len(program) >= Space

\* A prompt installer and a prompt Pi, on a quiet wire, load every program that
\* fits, however many requests were on their way when the answer was sent.
Loads == prompt /\ host = "listen" /\ Len(program) < Space ~> host = "done"

\* And they refuse one that does not fit: the Pi never jumps to it, and the
\* installer ends with an error.
Refuses == prompt /\ host = "listen" /\ Len(program) >= Space ~> host = "error"

\* "successfully loaded" (installer/src/main.rs:119): once the installer has said
\* so, the load does not fail.
LoadedMeansLoaded == [][host = "monitor" /\ pi = "ack" => pi' # "failed"]_vars

=============================================================================
