-------------------------- MODULE SerialLinkProofs --------------------------
(* What the coordinator makes of the bytes that the bridge's threads write,*)
(* for every list of commands, every number of threads and every length of *)
(* the buffer.                                                             *)
EXTENDS SerialLink, SequenceTheorems, TLAPS

CommandWord == {"NODE_SEND:", "GROUP_SEND:", "NODE_SCAN"}

(* The first k tokens of a line could be those of one command.             *)
Clean(tokens, k) ==
  \A m \in 1 .. k : /\ tokens[m].kind # "stump"
                    /\ m > 1 => tokens[m].kind \notin CommandWord

(* As far as they could, they are those of the command c.                  *)
Agrees(tokens, c) ==
  /\ tokens \in Seq(Uart!Token)
  /\ \A k \in 1 .. Len(tokens) :
       Clean(tokens, k) => /\ k <= Len(Uart!FormatCommand(c))
                           /\ tokens[k] = Uart!FormatCommand(c)[k]

(* Another token follows only after the start of a line or a stump.        *)
Starts(tokens) ==
  tokens # <<>> => tokens[1].kind \in CommandWord \cup {"stump"}

LEMMA WordTypes ==
  /\ \A w \in Uart!WordKind : Uart!Word(w) \in Uart!Token
  /\ \A n \in Nat : /\ Uart!Hex(n) \in Uart!Token
                    /\ Uart!Dec(n) \in Uart!Token
                    /\ Uart!Stump(n) \in Uart!Token
BY DEF Uart!Word, Uart!Hex, Uart!Dec, Uart!Stump, Uart!Token

LEMMA FormatTypes ==
  ASSUME NEW c \in Uart!HostCommand
  PROVE  /\ Uart!FormatCommand(c) \in Seq(Uart!Token)
         /\ Len(Uart!FormatCommand(c)) > 0
         /\ Uart!FormatCommand(c)[1].kind \in CommandWord
<1>1. CASE c = Uart!NodeScan
  <2>1. Uart!FormatCommand(c) = <<Uart!Word("NODE_SCAN")>>
    BY <1>1 DEF Uart!FormatCommand, Uart!NodeScan
  <2>2. Uart!Word("NODE_SCAN") \in Uart!Token
    BY WordTypes DEF Uart!WordKind
  <2> QED BY <2>1, <2>2 DEF Uart!Word, CommandWord
<1>2. ASSUME NEW word \in {"NODE_SEND:", "GROUP_SEND:"},
             c.addr \in Nat, c.state \in {0, 1},
             Uart!FormatCommand(c) = Uart!SendLine(word, c)
      PROVE  /\ Uart!FormatCommand(c) \in Seq(Uart!Token)
             /\ Len(Uart!FormatCommand(c)) > 0
             /\ Uart!FormatCommand(c)[1].kind \in CommandWord
  <2>1. /\ Uart!Word(word) \in Uart!Token /\ Uart!Hex(c.addr) \in Uart!Token
        /\ Uart!Word(":STATE:") \in Uart!Token
        /\ Uart!Dec(Uart!Flag(c.state)) \in Uart!Token
    BY <1>2, WordTypes DEF Uart!WordKind, Uart!Flag
  <2>2. Uart!SendLine(word, c) = <<Uart!Word(word), Uart!Hex(c.addr), Uart!Word(":STATE:"),
                                   Uart!Dec(Uart!Flag(c.state))>>
    BY DEF Uart!SendLine
  <2>3. Uart!Word(word).kind \in CommandWord
    BY DEF Uart!Word, CommandWord
  <2> HIDE DEF CommandWord
  <2> QED BY <1>2, <2>1, <2>2, <2>3
<1>3. CASE c \in [type : {"NODE_SEND"}, addr : Nat, state : {0, 1}]
  <2>1. Uart!FormatCommand(c) = Uart!SendLine("NODE_SEND:", c)
    BY <1>3 DEF Uart!FormatCommand
  <2> QED BY <1>2, <1>3, <2>1
<1>4. CASE c \in [type : {"GROUP_SEND"}, addr : Nat, state : {0, 1}]
  <2>1. Uart!FormatCommand(c) = Uart!SendLine("GROUP_SEND:", c)
    BY <1>4 DEF Uart!FormatCommand
  <2> QED BY <1>2, <1>4, <2>1
<1> QED BY <1>1, <1>3, <1>4 DEF Uart!HostCommand

LEMMA BytesType == \A t \in Uart!Token : Uart!Bytes(t) \in Nat
BY DEF Uart!Bytes, Uart!Token

(* Whatever arrives of a command agrees with it.                           *)
LEMMA BegunAgrees ==
  ASSUME NEW c \in Uart!HostCommand,
         NEW begun \in Beginnings(Uart!FormatCommand(c)) \cup {Uart!FormatCommand(c)}
  PROVE  Agrees(begun, c) /\ Starts(begun)
<1> DEFINE text == Uart!FormatCommand(c)
<1>1. text \in Seq(Uart!Token) /\ Len(text) \in Nat /\ Len(text) > 0
      /\ text[1].kind \in CommandWord
  BY FormatTypes
<1> HIDE DEF text
<1>2. ASSUME NEW n \in 0 .. Len(text), begun = SubSeq(text, 1, n)
      PROVE  Agrees(begun, c) /\ Starts(begun)
  <2>1. begun \in Seq(Uart!Token) /\ Len(begun) = n /\ \A k \in 1 .. n : begun[k] = text[k]
    BY <1>1, <1>2
  <2> QED BY <1>1, <2>1 DEF Agrees, Starts, text
<1>3. ASSUME NEW n \in 0 .. Len(text) - 1, NEW s \in Nat,
             begun = Append(SubSeq(text, 1, n), Uart!Stump(s))
      PROVE  Agrees(begun, c) /\ Starts(begun)
  <2>1. Uart!Stump(s) \in Uart!Token /\ Uart!Stump(s).kind = "stump"
    BY WordTypes DEF Uart!Stump
  <2>2. SubSeq(text, 1, n) \in Seq(Uart!Token) /\ Len(SubSeq(text, 1, n)) = n
        /\ \A k \in 1 .. n : SubSeq(text, 1, n)[k] = text[k]
    BY <1>1
  <2>3. /\ begun \in Seq(Uart!Token) /\ Len(begun) = n + 1
        /\ \A k \in 1 .. n : begun[k] = text[k]
        /\ begun[n + 1].kind = "stump"
    BY <1>3, <2>1, <2>2
  <2>4. Starts(begun)
    BY <1>1, <2>3 DEF Starts
  <2>5. ASSUME NEW k \in 1 .. Len(begun), Clean(begun, k)
        PROVE  k <= Len(text) /\ begun[k] = text[k]
    <3>1. k # n + 1
      BY <2>3, <2>5 DEF Clean
    <3> QED BY <1>1, <2>3, <3>1
  <2> QED BY <2>3, <2>4, <2>5 DEF Agrees, text
<1>4. CASE begun = text
  <2>1. begun = SubSeq(text, 1, Len(text))
    BY <1>1, <1>4
  <2> QED BY <1>1, <1>2, <2>1
<1>5. ASSUME NEW n \in 0 .. Len(text) - 1,
             begun = Append(SubSeq(text, 1, n), Uart!Stump(Uart!Bytes(text[n + 1]) \div 2))
      PROVE  Agrees(begun, c) /\ Starts(begun)
  <2>1. Uart!Bytes(text[n + 1]) \in Nat
    BY <1>1, BytesType
  <2>2. Uart!Bytes(text[n + 1]) \div 2 \in Nat
    BY <2>1
  <2> QED BY <1>3, <1>5, <2>2
<1>6. begun \in Beginnings(text) \/ begun = text
  BY DEF text
<1> QED BY <1>2, <1>4, <1>5, <1>6 DEF Beginnings

LEMMA MoreAgrees ==
  ASSUME NEW c, NEW tokens, Agrees(tokens, c), tokens # <<>>,
         NEW more \in Seq(Uart!Token), Starts(more)
  PROVE  Agrees(tokens \o more, c)
<1> DEFINE all == tokens \o more
<1>1. tokens \in Seq(Uart!Token)
  BY DEF Agrees
<1>2. /\ all \in Seq(Uart!Token) /\ Len(all) = Len(tokens) + Len(more)
      /\ \A k \in 1 .. Len(tokens) : all[k] = tokens[k]
      /\ more # <<>> => all[Len(tokens) + 1] = more[1]
  BY <1>1
<1>3. Len(tokens) \in Nat /\ Len(tokens) > 0 /\ Len(more) \in Nat
      /\ (Len(more) > 0 => more # <<>>)
  BY <1>1
<1> HIDE DEF all
<1>4. ASSUME NEW k \in 1 .. Len(all), Clean(all, k)
      PROVE  k <= Len(tokens)
  <2> SUFFICES ASSUME k > Len(tokens) PROVE FALSE
    BY <1>2, <1>3
  <2>1. Len(tokens) + 1 \in 1 .. k /\ Len(tokens) + 1 > 1 /\ more # <<>>
    BY <1>2, <1>3
  <2>2. more[1].kind \in CommandWord \cup {"stump"}
    BY <2>1 DEF Starts
  <2> QED BY <1>2, <1>4, <2>1, <2>2 DEF Clean
<1>5. ASSUME NEW k \in 1 .. Len(all), Clean(all, k)
      PROVE  k <= Len(Uart!FormatCommand(c)) /\ all[k] = Uart!FormatCommand(c)[k]
  <2>1. k \in 1 .. Len(tokens)
    BY <1>2, <1>3, <1>4, <1>5
  <2>2. Clean(tokens, k)
    BY <1>2, <1>3, <1>5, <2>1 DEF Clean
  <2> QED BY <1>2, <2>1, <2>2 DEF Agrees
<1>6. Agrees(all, c)
  BY <1>2, <1>5 DEF Agrees
<1> QED BY <1>6 DEF all

(* Bytes that the buffer has no room for do not matter.                    *)
LEMMA CutAgrees ==
  ASSUME NEW c, NEW tokens, Agrees(tokens, c), NEW cut \in Uart!Cut(tokens)
  PROVE  Agrees(cut, c)
<1>1. tokens \in Seq(Uart!Token)
  BY DEF Agrees
<1>2. ASSUME NEW n \in 0 .. Len(tokens) - 1, NEW room \in 0 .. LineMax - 1,
             cut = SubSeq(tokens, 1, n) \o Uart!Stumped(room)
      PROVE  Agrees(cut, c)
  <2> DEFINE kept == SubSeq(tokens, 1, n)
  <2>1. kept \in Seq(Uart!Token) /\ Len(kept) = n /\ \A k \in 1 .. n : kept[k] = tokens[k]
    BY <1>1
  <2> HIDE DEF kept
  <2>2. Agrees(kept, c)
    <3>1. ASSUME NEW k \in 1 .. Len(kept), Clean(kept, k)
          PROVE  k \in 1 .. Len(tokens) /\ Clean(tokens, k)
      <4>1. k \in 1 .. n /\ n <= Len(tokens)
        BY <1>1, <2>1
      <4>2. \A m \in 1 .. k : kept[m] = tokens[m]
        BY <2>1, <4>1
      <4> QED BY <1>1, <3>1, <4>1, <4>2 DEF Clean
    <3> QED BY <2>1, <3>1 DEF Agrees
  <2>3. CASE Uart!Stumped(room) = <<>>
    <3>1. cut = kept
      BY <1>2, <2>1, <2>3 DEF kept
    <3> QED BY <2>2, <3>1
  <2>4. CASE Uart!Stumped(room) = <<Uart!Stump(room)>>
    <3>1. room \in Nat
      BY SerialLinkAssumption DEF SerialLinkAssumption
    <3>2. Uart!Stump(room) \in Uart!Token /\ Uart!Stump(room).kind = "stump"
      BY <3>1, WordTypes DEF Uart!Stump
    <3>3. /\ cut \in Seq(Uart!Token) /\ Len(cut) = n + 1
          /\ \A k \in 1 .. n : cut[k] = kept[k]
          /\ cut[n + 1].kind = "stump"
      <4>1. cut = Append(kept, Uart!Stump(room))
        BY <1>2, <2>1, <2>4, <3>2 DEF kept
      <4> QED BY <2>1, <3>2, <4>1
    <3>4. ASSUME NEW k \in 1 .. Len(cut), Clean(cut, k)
          PROVE  k \in 1 .. n /\ Clean(kept, k)
      <4>1. k # n + 1
        BY <3>3, <3>4 DEF Clean
      <4>2. k \in 1 .. n
        BY <3>3, <4>1
      <4> QED BY <3>3, <3>4, <4>2 DEF Clean
    <3> QED BY <2>1, <2>2, <3>3, <3>4 DEF Agrees
  <2> QED BY <2>3, <2>4 DEF Uart!Stumped
<1>3. CASE cut = tokens
  BY <1>3
<1>4. cut = tokens \/ \E n \in 0 .. Len(tokens) - 1, room \in 0 .. LineMax - 1 :
                        cut = SubSeq(tokens, 1, n) \o Uart!Stumped(room)
  BY Zenon DEF Uart!Cut
<1> QED BY <1>2, <1>3, <1>4

(* A line that agrees with a command is that command or none.              *)
LEMMA ParseAgrees ==
  ASSUME NEW c \in Uart!HostCommand, NEW tokens, Agrees(tokens, c),
         Uart!ParseLine(tokens) # Uart!NoCommand
  PROVE  Uart!ParseLine(tokens) = Uart!Received(c)
<1> DEFINE text == Uart!FormatCommand(c)
<1>1. tokens \in Seq(Uart!Token) /\ Len(tokens) \in Nat
  BY DEF Agrees
<1>2. ASSUME NEW word \in {"NODE_SEND:", "GROUP_SEND:"}, Uart!Scans(tokens, word)
      PROVE  /\ Len(text) >= 4 /\ text[1] = Uart!Word(word)
             /\ tokens[2] = text[2] /\ tokens[4] = text[4]
  <2>1. /\ Len(tokens) >= 4 /\ tokens[1].kind = word /\ tokens[2].kind = "hex"
        /\ tokens[3].kind = ":STATE:" /\ tokens[4].kind = "dec"
    BY <1>2 DEF Uart!Scans, Uart!Word
  <2>2. \A k \in 1 .. 4 : Clean(tokens, k)
    BY <2>1 DEF Clean, CommandWord
  <2>3. \A k \in 1 .. 4 : k <= Len(text) /\ tokens[k] = text[k]
    BY <1>1, <2>1, <2>2 DEF Agrees
  <2>4. Len(text) \in Nat
    BY FormatTypes
  <2> QED BY <1>2, <2>3, <2>4 DEF Uart!Scans
<1>3. ASSUME NEW word \in {"NODE_SEND:", "GROUP_SEND:"}, NEW type,
             c \in [type : {type}, addr : Nat, state : {0, 1}],
             Uart!FormatCommand(c) = Uart!SendLine(word, c), Uart!Scans(tokens, word)
      PROVE  Uart!Filled(type, tokens) = Uart!Received(c)
  <2>1. tokens[2] = text[2] /\ tokens[4] = text[4]
    BY <1>2, <1>3
  <2>2. text = <<Uart!Word(word), Uart!Hex(c.addr), Uart!Word(":STATE:"),
                 Uart!Dec(Uart!Flag(c.state))>>
    BY <1>3 DEF Uart!SendLine
  <2>3. tokens[2].value = c.addr /\ tokens[4].value = c.state
    BY <1>3, <2>1, <2>2 DEF Uart!Hex, Uart!Dec, Uart!Flag
  <2>4. Uart!Flag(tokens[4].value) = c.state
    BY <1>3, <2>3 DEF Uart!Flag
  <2>5. Uart!Filled(type, tokens)
          = [type |-> type, addr |-> Uart!Address(c.addr), state |-> c.state]
    BY <2>3, <2>4 DEF Uart!Filled
  <2> QED BY <1>3, <2>5 DEF Uart!Received
<1>4. CASE c = Uart!NodeScan
  <2>1. text = <<Uart!Word("NODE_SCAN")>>
    BY <1>4 DEF Uart!FormatCommand, Uart!NodeScan
  <2>2. ~Uart!Scans(tokens, "NODE_SEND:") /\ ~Uart!Scans(tokens, "GROUP_SEND:")
    BY <1>2, <2>1 DEF Uart!Word
  <2>3. Uart!Address(0) = 0
    BY DEF Uart!Address, Uart!AddressBound
  <2>4. Uart!Received(c) = Uart!NodeScan
    BY <1>4, <2>3 DEF Uart!Received, Uart!NodeScan
  <2> QED BY <2>2, <2>4 DEF Uart!ParseLine
<1>5. ASSUME NEW word \in {"NODE_SEND:", "GROUP_SEND:"},
             text = Uart!SendLine(word, c)
      PROVE  /\ tokens # <<Uart!Word("NODE_SCAN")>>
             /\ \A w \in {"NODE_SEND:", "GROUP_SEND:"} : Uart!Scans(tokens, w) => w = word
  <2>1. text[1].kind = word
    BY <1>5 DEF Uart!SendLine, Uart!Word
  <2>2. ASSUME NEW w \in {"NODE_SEND:", "GROUP_SEND:"}, Uart!Scans(tokens, w)
        PROVE  w = word
    BY <1>2, <2>1, <2>2 DEF Uart!Word
  <2>3. ASSUME tokens = <<Uart!Word("NODE_SCAN")>>
        PROVE  FALSE
    <3>1. Len(tokens) = 1 /\ tokens[1].kind = "NODE_SCAN"
      BY <2>3 DEF Uart!Word
    <3>2. Clean(tokens, 1)
      BY <3>1 DEF Clean
    <3>3. tokens[1] = text[1]
      BY <3>1, <3>2 DEF Agrees
    <3> QED BY <2>1, <3>1, <3>3
  <2> QED BY <2>2, <2>3
<1>6. CASE c \in [type : {"NODE_SEND"}, addr : Nat, state : {0, 1}]
  <2>1. Uart!FormatCommand(c) = Uart!SendLine("NODE_SEND:", c)
    BY <1>6 DEF Uart!FormatCommand
  <2>2. Uart!ParseLine(tokens) = Uart!Filled("NODE_SEND", tokens)
        /\ Uart!Scans(tokens, "NODE_SEND:")
    BY <1>5, <2>1 DEF Uart!ParseLine
  <2> QED BY <1>3, <1>6, <2>1, <2>2
<1>7. CASE c \in [type : {"GROUP_SEND"}, addr : Nat, state : {0, 1}]
  <2>1. Uart!FormatCommand(c) = Uart!SendLine("GROUP_SEND:", c)
    BY <1>7 DEF Uart!FormatCommand
  <2>2. Uart!ParseLine(tokens) = Uart!Filled("GROUP_SEND", tokens)
        /\ Uart!Scans(tokens, "GROUP_SEND:")
    BY <1>5, <2>1 DEF Uart!ParseLine
  <2> QED BY <1>3, <1>7, <2>1, <2>2
<1> QED BY <1>4, <1>6, <1>7 DEF Uart!HostCommand

-----------------------------------------------------------------------------
(* The inductive invariant.  One thread at a time is in send_line, with    *)
(* the command that was handed over last; what is in the buffer of the     *)
(* coordinator began with a command that is not older than the last one    *)
(* carried out.                                                            *)
Exclusion ==
  /\ \A t \in Sender :
       /\ lock = t <=> pc[t] \notin {"idle", "dead"}
       /\ pc[t] \notin {"idle", "dead"} => sent > 0 /\ job[t] = sent
  /\ pc["reconnect"] \notin {"fail", "failClosing", "failForget"}

Buffer ==
  line # <<>> => owner > 0 /\ done <= owner /\ Agrees(line, Request[owner])

IInv == TypeOK /\ Exclusion /\ Buffer

LEMMA NoCommandType ==
  Uart!NoCommand \in [type : {"NODE_SEND", "GROUP_SEND", "NODE_SCAN", "NONE"},
                      addr : 0 .. Uart!AddressBound - 1, state : {0, 1}]
BY DEF Uart!NoCommand, Uart!AddressBound

LEMMA EmptyBuffer == <<>> \in Seq(Uart!Token)
OBVIOUS

LEMMA UartQuiet ==
  ASSUME Uart!TypeOK, UNCHANGED <<line, ready>>, executed' = Uart!NoCommand
  PROVE  Uart!TypeOK'
BY NoCommandType DEF Uart!TypeOK

LEMMA UartReset ==
  ASSUME Restart
  PROVE  Uart!TypeOK' /\ line' = <<>> /\ owner' = 0
BY NoCommandType, EmptyBuffer DEF Uart!TypeOK, Uart!Reset, Restart

LEMMA Requests == Request \in Seq(Uart!HostCommand) /\ Len(Request) \in Nat
BY SerialLinkAssumption DEF SerialLinkAssumption

LEMMA Names ==
  /\ "reader" \notin Sender /\ "reconnect" \notin Sender /\ "free" \notin Sender
  /\ "reader" \in Thread /\ "reconnect" \in Thread /\ Sender \subseteq Thread
BY SerialLinkAssumption DEF SerialLinkAssumption, Thread

LEMMA BufferQuiet ==
  ASSUME Buffer, UNCHANGED <<line, owner, done>>
  PROVE  Buffer'
BY DEF Buffer

LEMMA InitInv == Init => IInv
<1> SUFFICES ASSUME Init PROVE IInv
  OBVIOUS
<1>1. pc \in [Thread -> Place]
  BY DEF Init, Place
<1>2. Uart!TypeOK
  BY NoCommandType, EmptyBuffer DEF Init, Uart!Init, Uart!TypeOK
<1>3. faults \in 0 .. MaxFaults
  BY SerialLinkAssumption DEF Init, SerialLinkAssumption
<1>4. TypeOK
  <2>1. plugged \in BOOLEAN /\ ser \in {"none", "open", "gone", "closed"}
        /\ connected \in BOOLEAN /\ stale \in BOOLEAN
    BY DEF Init
  <2>2. /\ lock \in Sender \cup {"free"} /\ tries \in 0 .. 2 /\ sent \in 0 .. Len(Request)
        /\ job \in [Sender -> 0 .. sent] /\ owner \in 0 .. sent /\ done \in 0 .. sent
    BY Requests DEF Init
  <2> QED BY <1>1, <1>2, <1>3, <2>1, <2>2, Zenon DEF TypeOK
<1>5. Exclusion
  BY Names DEF Init, Exclusion
<1>6. Buffer
  BY DEF Init, Uart!Init, Buffer
<1> QED BY <1>4, <1>5, <1>6 DEF IInv

(* The steps of a thread on the port that leave the senders' state alone.  *)
LEMMA PortQuiet ==
  ASSUME IInv, NEW t \in Thread, NEW place \in Place,
         t = "reconnect" => place \notin {"fail", "failClosing", "failForget"},
         t \in Sender => {pc[t], place} \cap {"idle", "dead"} = {},
         Goto(t, place), UNCHANGED <<plugged, sendVars, done, faults, uartVars>>,
         executed' = Uart!NoCommand,
         ser' \in {"none", "open", "gone", "closed"},
         connected' \in BOOLEAN, stale' \in BOOLEAN
  PROVE  IInv'
<1> USE DEF IInv
<1>1. Uart!TypeOK'
  BY UartQuiet DEF TypeOK, uartVars
<1>2. pc' \in [Thread -> Place]
  BY DEF TypeOK, Goto
<1>3. TypeOK'
  BY <1>1, <1>2 DEF TypeOK, sendVars, uartVars
<1>4. Exclusion'
  BY Names DEF Exclusion, TypeOK, Goto, sendVars
<1>5. Buffer'
  BY BufferQuiet DEF TypeOK, sendVars, uartVars
<1> QED BY <1>3, <1>4, <1>5

(* The senders: the part of the invariant that Finish and Retry disturb.   *)
SendersOK ==
  /\ lock \in Sender \cup {"free"}
  /\ pc \in [Thread -> Place]
  /\ tries \in 0 .. 2
  /\ sent \in 0 .. Len(Request)
  /\ job \in [Sender -> 0 .. sent]
  /\ Exclusion

LEMMA FinishKeeps ==
  ASSUME IInv, NEW t \in Sender, pc[t] \notin {"idle", "dead"},
         NEW place \in {"idle", "dead"}, Finish(t, place)
  PROVE  SendersOK' /\ sent' = sent
<1> USE DEF IInv, TypeOK, Finish, Goto
<1>1. pc' \in [Thread -> Place]
  BY DEF Place
<1>2. job' \in [Sender -> 0 .. sent]
  BY Requests
<1>3. Exclusion'
  <2>1. \A u \in Sender : u # t => pc[u] \in {"idle", "dead"}
    BY DEF Exclusion
  <2>2. \A u \in Sender : pc'[u] \in {"idle", "dead"}
    BY <2>1, Names
  <2> QED BY <2>2, Names DEF Exclusion
<1> QED BY <1>1, <1>2, <1>3 DEF SendersOK

LEMMA RetryKeeps ==
  ASSUME IInv, NEW t \in Thread \ {"reconnect"},
         t \in Sender => pc[t] \notin {"idle", "dead"}, Retry(t)
  PROVE  SendersOK' /\ sent' = sent
<1> USE DEF IInv, TypeOK
<1>1. CASE t = "reader" /\ Goto(t, "ensure") /\ UNCHANGED sendVars
  <2>1. pc' \in [Thread -> Place]
    BY <1>1 DEF Place, Goto
  <2>2. Exclusion'
    BY <1>1, Names DEF Exclusion, Goto, sendVars
  <2> QED BY <1>1, <2>1, <2>2 DEF SendersOK, sendVars
<1>2. CASE /\ t \in Sender /\ tries < 2 /\ Goto(t, "ensure")
           /\ tries' = tries + 1 /\ UNCHANGED <<lock, sent, job>>
  <2>1. pc' \in [Thread -> Place]
    BY <1>2 DEF Place, Goto
  <2>2. Exclusion'
    BY <1>2, Names DEF Exclusion, Goto
  <2>3. tries' \in 0 .. 2
    BY <1>2
  <2> QED BY <1>2, <2>1, <2>2, <2>3 DEF SendersOK
<1>3. CASE t \in Sender /\ Finish(t, "idle")
  BY <1>3, FinishKeeps
<1> QED BY <1>1, <1>2, <1>3 DEF Retry, Thread

LEMMA RaiseKeeps ==
  ASSUME IInv, NEW t \in Thread, t \in Sender => pc[t] \notin {"idle", "dead"}, Raise(t)
  PROVE  SendersOK' /\ sent' = sent
<1>1. CASE t \in Sender
  <2>1. PICK place \in {"idle", "dead"} : Finish(t, place)
    BY <1>1 DEF Raise
  <2> QED BY <1>1, <2>1, FinishKeeps
<1>2. CASE t \notin Sender
  <2>1. Goto(t, "dead") /\ UNCHANGED sendVars
    BY <1>2 DEF Raise
  <2>2. pc' \in [Thread -> Place]
    BY <2>1 DEF Place, Goto, IInv, TypeOK
  <2>3. Exclusion'
    BY <1>2, <2>1, Names DEF IInv, TypeOK, Exclusion, Goto, sendVars
  <2> QED BY <2>1, <2>2, <2>3 DEF SendersOK, sendVars, IInv, TypeOK
<1> QED BY <1>1, <1>2

(* A step that leaves the port alone.                                      *)
LEMMA ThreadQuiet ==
  ASSUME IInv, SendersOK', sent' = sent, OnlyThread
  PROVE  IInv'
<1>1. Uart!TypeOK'
  BY UartQuiet DEF OnlyThread, IInv, TypeOK, uartVars
<1>2. TypeOK'
  BY <1>1 DEF OnlyThread, IInv, TypeOK, SendersOK, portVars, uartVars
<1>3. Buffer'
  BY BufferQuiet DEF OnlyThread, IInv, uartVars
<1> QED BY <1>2, <1>3 DEF IInv, SendersOK

LEMMA PortKeeps ==
  ASSUME IInv, NEW t \in Thread, PortStep(t)
  PROVE  IInv'
<1> USE DEF Place
<1>1. t \in Sender => pc[t] \notin {"idle", "dead"}
  BY DEF PortStep, Ensure, IsOpen, Close, Closing, Forget, Open, Mark, Fail, FailClosing,
     FailForget
<1>2. CASE Ensure(t)
  <2>1. CASE Goto(t, "isOpen")
    BY <1>1, <1>2, <2>1, PortQuiet DEF Ensure, OnlyPort, IInv, TypeOK
  <2>2. CASE Goto(t, "close")
    BY <1>1, <1>2, <2>2, PortQuiet DEF Ensure, OnlyPort, IInv, TypeOK
  <2> QED BY <1>2, <2>1, <2>2 DEF Ensure
<1>8. CASE IsOpen(t)
  <2>1. CASE Raise(t)
    BY <1>1, <1>8, <2>1, RaiseKeeps, ThreadQuiet DEF IsOpen
  <2>2. /\ UNCHANGED <<plugged, done, faults, uartVars, ser, connected, stale>>
        /\ executed' = Uart!NoCommand
    BY <1>8 DEF IsOpen, OnlyThread, portVars
  <2>3. /\ ser' \in {"none", "open", "gone", "closed"}
        /\ connected' \in BOOLEAN /\ stale' \in BOOLEAN
    BY <2>2 DEF IInv, TypeOK
  <2>4. ASSUME NEW place \in {"use", "close"}, Goto(t, place), UNCHANGED sendVars
        PROVE  IInv'
    BY <1>1, <2>2, <2>3, <2>4, PortQuiet
  <2> QED BY <1>8, <2>1, <2>4 DEF IsOpen
<1>3. CASE Close(t)
  <2>1. /\ ser' \in {"none", "open", "gone", "closed"}
        /\ connected' \in BOOLEAN /\ stale' \in BOOLEAN
    BY <1>3 DEF Close, OnlyPort, IInv, TypeOK
  <2>2. CASE Goto(t, "open")
    BY <1>1, <1>3, <2>1, <2>2, PortQuiet DEF Close, OnlyPort
  <2>3. CASE Goto(t, "closing")
    BY <1>1, <1>3, <2>1, <2>3, PortQuiet DEF Close, OnlyPort
  <2> QED BY <1>3, <2>2, <2>3 DEF Close
<1>9. CASE Closing(t)
  <2>1. CASE Raise(t) /\ OnlyThread
    BY <1>1, <2>1, RaiseKeeps, ThreadQuiet
  <2>2. CASE Goto(t, "forget") /\ CloseThePort /\ OnlyPort /\ UNCHANGED connected
    <3>1. /\ ser' \in {"none", "open", "gone", "closed"}
          /\ connected' \in BOOLEAN /\ stale' \in BOOLEAN
      BY <2>2 DEF CloseThePort, Abandons, IInv, TypeOK
    <3> QED BY <1>1, <2>2, <3>1, PortQuiet DEF OnlyPort
  <2> QED BY <1>9, <2>1, <2>2 DEF Closing
<1>4. CASE Forget(t)
  <2>1. /\ ser' \in {"none", "open", "gone", "closed"}
        /\ connected' \in BOOLEAN /\ stale' \in BOOLEAN
    BY <1>4 DEF Forget, OnlyPort, Abandons, IInv, TypeOK
  <2> QED BY <1>1, <1>4, <2>1, PortQuiet DEF Forget, OnlyPort
<1>5. CASE Open(t)
  <2>1. /\ ser' \in {"none", "open", "gone", "closed"}
        /\ connected' \in BOOLEAN /\ stale' \in BOOLEAN
    BY <1>5 DEF Open, OnlyPort, Abandons, IInv, TypeOK
  <2>2. CASE Goto(t, "mark")
    BY <1>1, <1>5, <2>1, <2>2, PortQuiet DEF Open, OnlyPort
  <2>3. CASE Goto(t, "sleep")
    BY <1>1, <1>5, <2>1, <2>3, PortQuiet DEF Open, OnlyPort
  <2>4. CASE t # "reconnect" /\ Goto(t, "fail")
    BY <1>1, <1>5, <2>1, <2>4, PortQuiet DEF Open, OnlyPort
  <2> QED BY <1>5, <2>2, <2>3, <2>4 DEF Open, AfterFailure
<1>6. CASE Mark(t)
  <2>1. CASE Goto(t, "sleep")
    BY <1>1, <1>6, <2>1, PortQuiet DEF Mark, OnlyPort, IInv, TypeOK
  <2>2. CASE Goto(t, "use")
    BY <1>1, <1>6, <2>2, PortQuiet DEF Mark, OnlyPort, IInv, TypeOK
  <2> QED BY <1>6, <2>1, <2>2 DEF Mark, AfterSuccess
<1>7. CASE Fail(t) \/ FailForget(t)
  <2>1. t # "reconnect"
    BY <1>7 DEF Fail, FailForget, IInv, Exclusion
  <2>2. /\ ser' \in {"none", "open", "gone", "closed"}
        /\ connected' \in BOOLEAN /\ stale' \in BOOLEAN
    BY <1>7 DEF Fail, FailForget, Abandons, IInv, TypeOK
  <2>3. CASE Goto(t, "failClosing") /\ UNCHANGED sendVars
    BY <1>1, <1>7, <2>1, <2>2, <2>3, PortQuiet DEF Fail, FailForget
  <2>4. CASE Retry(t)
    <3>1. SendersOK' /\ sent' = sent
      BY <1>1, <2>1, <2>4, RetryKeeps
    <3>2. UNCHANGED <<plugged, done, faults, uartVars>> /\ executed' = Uart!NoCommand
      BY <1>7 DEF Fail, FailForget
    <3>3. Uart!TypeOK'
      BY <3>2, UartQuiet DEF IInv, TypeOK, uartVars
    <3>4. Buffer'
      BY <3>2, BufferQuiet DEF IInv, uartVars
    <3>5. TypeOK'
      BY <2>2, <3>1, <3>2, <3>3 DEF IInv, TypeOK, SendersOK, uartVars
    <3> QED BY <3>1, <3>4, <3>5 DEF IInv, SendersOK
  <2> QED BY <1>7, <2>3, <2>4 DEF Fail, FailForget
<1>10. CASE FailClosing(t)
  <2>1. CASE Raise(t) /\ OnlyThread
    BY <1>1, <2>1, RaiseKeeps, ThreadQuiet
  <2>2. CASE Goto(t, "failForget") /\ CloseThePort /\ OnlyPort /\ UNCHANGED connected
    <3>1. /\ ser' \in {"none", "open", "gone", "closed"}
          /\ connected' \in BOOLEAN /\ stale' \in BOOLEAN
      BY <2>2 DEF CloseThePort, Abandons, IInv, TypeOK
    <3>2. t # "reconnect"
      BY <1>10 DEF FailClosing, IInv, Exclusion
    <3> QED BY <1>1, <2>2, <3>1, <3>2, PortQuiet DEF OnlyPort
  <2> QED BY <1>10, <2>1, <2>2 DEF FailClosing
<1> QED BY <1>2, <1>3, <1>4, <1>5, <1>6, <1>7, <1>8, <1>9, <1>10 DEF PortStep

LEMMA ReaderKeeps ==
  ASSUME IInv, ReaderUse \/ ReaderReturns
  PROVE  IInv'
<1>1. PICK place \in Place : Goto("reader", place)
  <2>1. CASE ReaderUse
    BY <2>1 DEF ReaderUse, Place
  <2>2. CASE ReaderReturns
    BY <2>2 DEF ReaderReturns, Place
  <2> QED BY <2>1, <2>2
<1>2. /\ UNCHANGED <<plugged, sendVars, done, faults, uartVars, ser, connected>>
      /\ executed' = Uart!NoCommand /\ stale' = FALSE
  BY DEF ReaderUse, ReaderReturns, OnlyPort
<1>3. /\ ser' \in {"none", "open", "gone", "closed"}
      /\ connected' \in BOOLEAN /\ stale' \in BOOLEAN
  BY <1>2 DEF IInv, TypeOK
<1> QED BY <1>1, <1>2, <1>3, Names, PortQuiet

LEMMA ReconnectKeeps ==
  ASSUME IInv, SleepOver \/ Check \/ Discover
  PROVE  IInv'
<1>1. CASE SleepOver \/ Check
  <2>1. PICK place \in {"check", "discover"} : Goto("reconnect", place)
    BY <1>1 DEF SleepOver, Check
  <2>2. /\ UNCHANGED <<plugged, sendVars, done, faults, uartVars, ser, connected, stale>>
        /\ executed' = Uart!NoCommand
    BY <1>1 DEF SleepOver, Check, OnlyPort
  <2>3. place \in Place /\ place \notin {"fail", "failClosing", "failForget"}
    BY DEF Place
  <2>4. /\ ser' \in {"none", "open", "gone", "closed"}
        /\ connected' \in BOOLEAN /\ stale' \in BOOLEAN
    BY <2>2 DEF IInv, TypeOK
  <2> QED BY <2>1, <2>2, <2>3, <2>4, Names, PortQuiet
<1>2. CASE Discover
  <2>1. PICK place \in {"close", "sleep"} : Goto("reconnect", place)
    BY <1>2 DEF Discover
  <2>2. /\ UNCHANGED <<plugged, sendVars, done, faults, ser, connected, stale>>
    BY <1>2 DEF Discover, portVars
  <2>3. place \in Place /\ place \notin {"fail", "failClosing", "failForget"}
    BY DEF Place
  <2>4. /\ ser' \in {"none", "open", "gone", "closed"}
        /\ connected' \in BOOLEAN /\ stale' \in BOOLEAN
    BY <2>2 DEF IInv, TypeOK
  <2>5. CASE UNCHANGED uartVars /\ executed' = Uart!NoCommand
    BY <2>1, <2>2, <2>3, <2>4, <2>5, Names, PortQuiet
  <2>6. CASE Restart
    <3>1. Uart!TypeOK' /\ line' = <<>> /\ owner' = 0
      BY <2>6, UartReset
    <3>2. pc' \in [Thread -> Place]
      BY <2>1, <2>3 DEF Goto, IInv, TypeOK
    <3>3. owner' \in 0 .. sent
      BY <3>1, Requests DEF IInv, TypeOK
    <3>4. TypeOK'
      BY <2>2, <2>4, <3>1, <3>2, <3>3 DEF IInv, TypeOK, sendVars
    <3>5. Exclusion'
      BY <2>1, <2>2, <2>3, Names DEF IInv, TypeOK, Exclusion, Goto, sendVars
    <3> QED BY <3>1, <3>4, <3>5 DEF IInv, Buffer
  <2> QED BY <1>2, <2>5, <2>6 DEF Discover
<1> QED BY <1>1, <1>2

LEMMA AcquireKeeps ==
  ASSUME IInv, NEW t \in Sender, Acquire(t)
  PROVE  IInv'
<1> USE DEF IInv
<1>1. sent' = sent + 1 /\ sent' \in 0 .. Len(Request) /\ sent \in Nat
  BY Requests DEF Acquire, TypeOK
<1>2. Uart!TypeOK'
  BY UartQuiet DEF Acquire, OnlyThread, TypeOK, uartVars
<1>3. Buffer'
  BY BufferQuiet DEF Acquire, OnlyThread, uartVars
<1>4. pc' \in [Thread -> Place]
  BY DEF Acquire, Goto, TypeOK, Place
<1>5. job' \in [Sender -> 0 .. sent']
  BY <1>1 DEF Acquire, TypeOK
<1>6. TypeOK'
  <2>1. owner' \in 0 .. sent' /\ done' \in 0 .. sent'
    BY <1>1 DEF Acquire, OnlyThread, TypeOK, uartVars
  <2> QED BY <1>1, <1>2, <1>4, <1>5, <2>1 DEF Acquire, OnlyThread, TypeOK, portVars
<1>7. Exclusion'
  <2>1. \A u \in Sender : pc[u] \in {"idle", "dead"}
    BY Names DEF Acquire, Exclusion
  <2>2. \A u \in Sender \ {t} : pc'[u] \in {"idle", "dead"}
    BY <2>1, Names DEF Acquire, Goto, TypeOK
  <2>3. lock' = t /\ pc'[t] = "ensure" /\ sent' > 0 /\ job'[t] = sent'
    BY <1>1, Names DEF Acquire, TypeOK, Goto
  <2>4. pc'["reconnect"] = pc["reconnect"]
    BY Names DEF Acquire, Goto, TypeOK
  <2> QED BY <2>2, <2>3, <2>4 DEF Exclusion
<1> QED BY <1>3, <1>6, <1>7

LEMMA CableKeeps ==
  ASSUME IInv, CoordinatorUp \/ Unplug \/ Plug
  PROVE  IInv'
<1> USE DEF IInv
<1>1. CASE CoordinatorUp
  <2>1. Uart!TypeOK'
    BY <1>1, NoCommandType DEF CoordinatorUp, Uart!NetworkUp, Uart!TypeOK, TypeOK
  <2> QED BY <1>1, <2>1 DEF CoordinatorUp, Uart!NetworkUp, TypeOK, Exclusion, Buffer,
             portVars, sendVars
<1>2. CASE Unplug
  <2>1. faults' \in 0 .. MaxFaults /\ plugged' \in BOOLEAN
        /\ ser' \in {"none", "open", "gone", "closed"}
    <3>1. MaxFaults \in Nat
      BY SerialLinkAssumption DEF SerialLinkAssumption
    <3>2. faults' \in 0 .. MaxFaults
      BY <1>2, <3>1 DEF Unplug, TypeOK
    <3> QED BY <1>2, <3>2 DEF Unplug, TypeOK
  <2>2. Uart!TypeOK'
    BY <1>2, UartReset, UartQuiet DEF Unplug, TypeOK, uartVars
  <2>3. UNCHANGED <<line, owner>> \/ (line' = <<>> /\ owner' = 0)
    BY <1>2, UartReset DEF Unplug, uartVars
  <2>4. Buffer'
    BY <1>2, <2>3 DEF Unplug, Buffer
  <2>5. owner' \in 0 .. sent
    BY <2>3, Requests DEF TypeOK
  <2>6. TypeOK' /\ Exclusion'
    BY <1>2, <2>1, <2>2, <2>5 DEF Unplug, TypeOK, Exclusion, sendVars
  <2> QED BY <2>4, <2>6
<1>3. CASE Plug
  <2>1. Uart!TypeOK'
    BY <1>3, UartQuiet DEF Plug, TypeOK, uartVars
  <2> QED BY <1>3, <2>1 DEF Plug, TypeOK, Exclusion, Buffer, sendVars, uartVars
<1> QED BY <1>1, <1>2, <1>3

-----------------------------------------------------------------------------
(* What a sender writes: the beginning of its command, after a rest that   *)
(* agrees with a command that is not older than the last one carried out.  *)
LEMMA WrittenAgrees ==
  ASSUME IInv, NEW t \in Sender, pc[t] = "use",
         NEW begun \in Beginnings(Text(t)) \cup {Text(t)}
  PROVE  /\ Owner(t) \in 1 .. sent /\ done <= Owner(t)
         /\ Agrees(line \o begun, Request[Owner(t)])
<1>1. lock = t /\ job[t] = sent /\ sent \in 1 .. Len(Request) /\ done <= sent /\ sent \in Nat
  BY Requests DEF IInv, TypeOK, Exclusion
<1>2. Request[sent] \in Uart!HostCommand
  BY <1>1, Requests
<1>3. Agrees(begun, Request[sent]) /\ Starts(begun)
  BY <1>1, <1>2, BegunAgrees DEF Text
<1>4. begun \in Seq(Uart!Token)
  BY <1>3 DEF Agrees
<1>5. CASE line = <<>>
  <2>1. line \o begun = begun
    BY <1>4, <1>5
  <2>2. Owner(t) = sent
    BY <1>1, <1>5 DEF Owner
  <2> QED BY <1>1, <1>3, <2>1, <2>2
<1>6. CASE line # <<>>
  <2>1. Owner(t) = owner
    BY <1>6 DEF Owner
  <2>2. owner > 0 /\ done <= owner /\ Agrees(line, Request[owner])
    BY <1>6 DEF IInv, Buffer
  <2>3. Agrees(line \o begun, Request[owner])
    BY <1>3, <1>4, <1>6, <2>2, MoreAgrees
  <2>4. owner \in 1 .. sent
    BY <1>1, <2>2 DEF IInv, TypeOK
  <2> QED BY <2>1, <2>2, <2>3, <2>4
<1> QED BY <1>5, <1>6

(* The command that a complete line makes the coordinator carry out.       *)
LEMMA DeliverExecutes ==
  ASSUME IInv, NEW t \in Sender, pc[t] = "use", Deliver(t)
  PROVE  \/ executed' = Uart!NoCommand /\ done' = done
         \/ /\ done' = Owner(t) /\ done' \in 1 .. sent /\ done <= done'
            /\ executed' = Uart!Received(Request[done'])
<1> PICK complete \in Uart!Cut(line \o Text(t)) :
      executed' = IF ready THEN Uart!ParseLine(complete) ELSE Uart!NoCommand
  BY DEF Deliver, Uart!ReadLine
<1>1. /\ Owner(t) \in 1 .. sent /\ done <= Owner(t)
      /\ Agrees(line \o Text(t), Request[Owner(t)])
  BY WrittenAgrees
<1>2. Agrees(complete, Request[Owner(t)])
  BY <1>1, CutAgrees
<1>3. Request[Owner(t)] \in Uart!HostCommand
  BY <1>1, Requests DEF IInv, TypeOK
<1>4. CASE executed' = Uart!NoCommand
  BY <1>4 DEF Deliver
<1>5. CASE executed' # Uart!NoCommand
  <2>1. executed' = Uart!Received(Request[Owner(t)])
    BY <1>2, <1>3, <1>5, ParseAgrees
  <2>2. done' = Owner(t)
    BY <1>5 DEF Deliver
  <2> QED BY <1>1, <2>1, <2>2
<1> QED BY <1>4, <1>5

LEMMA AddressType ==
  ASSUME NEW n \in Nat
  PROVE  Uart!Address(n) \in 0 .. Uart!AddressBound - 1
<1>1. n % 65536 \in Nat /\ n % 65536 < 65536
  OBVIOUS
<1>2. CASE n \div 65536 < 65536
  <2>1. Uart!Address(n) = n % 65536
    BY <1>2 DEF Uart!Address, Uart!AddressBound
  <2> QED BY <1>1, <2>1 DEF Uart!AddressBound
<1>3. CASE ~(n \div 65536 < 65536)
  <2>1. Uart!Address(n) = 65535
    BY <1>3 DEF Uart!Address, Uart!AddressBound
  <2> QED BY <2>1 DEF Uart!AddressBound
<1> QED BY <1>2, <1>3

LEMMA ReceivedTypes ==
  ASSUME NEW c \in Uart!HostCommand
  PROVE  Uart!Received(c) \in [type : {"NODE_SEND", "GROUP_SEND", "NODE_SCAN", "NONE"},
                               addr : 0 .. Uart!AddressBound - 1, state : {0, 1}]
<1>1. c \in [type : {"NODE_SEND", "GROUP_SEND", "NODE_SCAN"}, addr : Nat, state : {0, 1}]
  BY DEF Uart!HostCommand, Uart!NodeScan
<1>2. Uart!Address(c.addr) \in 0 .. Uart!AddressBound - 1
  BY <1>1, AddressType
<1> QED BY <1>1, <1>2 DEF Uart!Received

(* The types and the buffer after the whole line has arrived.              *)
LEMMA DeliverKeeps ==
  ASSUME IInv, NEW t \in Sender, pc[t] = "use", Deliver(t),
         SendersOK', sent' = sent, faults' \in 0 .. MaxFaults
  PROVE  IInv'
<1>1. executed' \in [type : {"NODE_SEND", "GROUP_SEND", "NODE_SCAN", "NONE"},
                     addr : 0 .. Uart!AddressBound - 1, state : {0, 1}]
  <2>1. ASSUME NEW j \in 1 .. sent
        PROVE  Request[j] \in Uart!HostCommand
    BY Requests DEF IInv, TypeOK
  <2> QED BY <2>1, DeliverExecutes, NoCommandType, ReceivedTypes
<1>2. line' = <<>> /\ ready' = ready /\ owner' = 0
  BY DEF Deliver, Uart!ReadLine
<1>3. Uart!TypeOK'
  BY <1>1, <1>2, EmptyBuffer DEF IInv, TypeOK, Uart!TypeOK
<1>4. done' \in 0 .. sent /\ owner' \in 0 .. sent
  <2>1. sent \in Nat /\ done \in 0 .. sent
    BY Requests DEF IInv, TypeOK
  <2> QED BY <1>2, <2>1, DeliverExecutes
<1>5. TypeOK'
  BY <1>3, <1>4 DEF Deliver, IInv, TypeOK, SendersOK, portVars
<1> QED BY <1>2, <1>5 DEF IInv, SendersOK, Buffer

(* A sender goes to the exception handler.                                 *)
LEMMA HandlerKeeps ==
  ASSUME IInv, NEW t \in Sender, pc[t] = "use", Goto(t, "fail"), UNCHANGED sendVars
  PROVE  SendersOK' /\ sent' = sent
<1>1. pc' \in [Thread -> Place]
  BY DEF Goto, IInv, TypeOK, Place
<1>2. Exclusion'
  BY Names DEF Exclusion, Goto, sendVars, IInv, TypeOK
<1> QED BY <1>1, <1>2 DEF SendersOK, sendVars, IInv, TypeOK

LEMMA WriteKeeps ==
  ASSUME IInv, NEW t \in Sender, Write(t)
  PROVE  IInv'
<1>1. SendersOK' /\ sent' = sent
  BY FinishKeeps DEF Write, AtOpenPort
<1>2. faults' \in 0 .. MaxFaults
  BY DEF Write, IInv, TypeOK
<1> QED BY <1>1, <1>2, DeliverKeeps DEF Write, AtOpenPort

LEMMA FaultCounted ==
  ASSUME IInv, faults < MaxFaults, faults' = faults + 1
  PROVE  faults' \in 0 .. MaxFaults
BY SerialLinkAssumption DEF SerialLinkAssumption, IInv, TypeOK

LEMMA FailsLateKeeps ==
  ASSUME IInv, NEW t \in Sender, WriteFailsLate(t)
  PROVE  IInv'
<1>1. SendersOK' /\ sent' = sent
  BY HandlerKeeps DEF WriteFailsLate, AtOpenPort
<1>2. faults' \in 0 .. MaxFaults
  BY FaultCounted DEF WriteFailsLate
<1> QED BY <1>1, <1>2, DeliverKeeps DEF WriteFailsLate, AtOpenPort

LEMMA BreaksOffKeeps ==
  ASSUME IInv, NEW t \in Sender, WriteBreaksOff(t)
  PROVE  IInv'
<1> PICK begun \in Beginnings(Text(t)) : Uart!ReadBytes(begun)
  BY DEF WriteBreaksOff
<1>1. SendersOK' /\ sent' = sent
  BY HandlerKeeps, FinishKeeps DEF WriteBreaksOff, AtOpenPort
<1>2. line' \in Uart!Cut(line \o begun) /\ executed' = Uart!NoCommand /\ ready' = ready
  BY DEF Uart!ReadBytes
<1>3. /\ Owner(t) \in 1 .. sent /\ done <= Owner(t)
      /\ Agrees(line \o begun, Request[Owner(t)])
  BY WrittenAgrees DEF WriteBreaksOff, AtOpenPort
<1>4. Agrees(line', Request[Owner(t)])
  BY <1>2, <1>3, CutAgrees
<1>5. line' \in Seq(Uart!Token)
  BY <1>4 DEF Agrees
<1>6. owner' = IF line' = <<>> THEN 0 ELSE Owner(t)
  BY DEF WriteBreaksOff
<1>7. Buffer'
  <2> SUFFICES ASSUME line' # <<>>
               PROVE  owner' > 0 /\ done' <= owner' /\ Agrees(line, Request[owner])'
    BY DEF Buffer
  <2>1. owner' = Owner(t) /\ done' = done
    BY <1>6 DEF WriteBreaksOff
  <2>2. Agrees(line, Request[owner])'
    BY <1>4, <2>1 DEF Agrees, Clean
  <2> QED BY <1>3, <2>1, <2>2
<1>8. Uart!TypeOK'
  BY <1>2, <1>5, NoCommandType DEF Uart!TypeOK, IInv, TypeOK
<1>9. faults' \in 0 .. MaxFaults
  BY FaultCounted DEF WriteBreaksOff
<1>10. owner' \in 0 .. sent
  <2>1. sent \in Nat
    BY Requests DEF IInv, TypeOK
  <2> QED BY <1>3, <1>6, <2>1
<1>11. TypeOK'
  BY <1>1, <1>8, <1>9, <1>10 DEF WriteBreaksOff, IInv, TypeOK, SendersOK, portVars
<1> QED BY <1>1, <1>7, <1>11 DEF IInv, SendersOK

LEMMA FailsKeeps ==
  ASSUME IInv, NEW t \in Sender, WriteFails(t)
  PROVE  IInv'
<1>1. SendersOK' /\ sent' = sent
  BY HandlerKeeps, RaiseKeeps, Names DEF WriteFails
<1> QED BY <1>1, ThreadQuiet DEF WriteFails

LEMMA NextKeeps == IInv /\ [Next]_vars => IInv'
<1> SUFFICES ASSUME IInv, [Next]_vars PROVE IInv'
  OBVIOUS
<1>1. CASE Reader
  BY <1>1, PortKeeps, ReaderKeeps, Names DEF Reader
<1>2. CASE Reconnect
  BY <1>2, PortKeeps, ReconnectKeeps, Names DEF Reconnect
<1>3. ASSUME NEW t \in Sender,
             Acquire(t) \/ SenderStep(t) \/ WriteFailsLate(t) \/ WriteBreaksOff(t)
      PROVE  IInv'
  BY <1>3, PortKeeps, AcquireKeeps, WriteKeeps, FailsLateKeeps, BreaksOffKeeps, FailsKeeps,
     Names DEF SenderStep
<1>4. CASE CoordinatorUp \/ Unplug \/ Plug
  BY <1>4, CableKeeps
<1>5. CASE UNCHANGED vars
  <2>1. TypeOK'
    BY <1>5 DEF IInv, TypeOK, Uart!TypeOK, vars, portVars, sendVars, uartVars
  <2>2. Exclusion' /\ Buffer'
    BY <1>5 DEF IInv, Exclusion, Buffer, vars, portVars, sendVars, uartVars
  <2> QED BY <2>1, <2>2 DEF IInv
<1> QED BY <1>1, <1>2, <1>3, <1>4, <1>5 DEF Next

THEOREM Invariance == Spec => []IInv
BY InitInv, NextKeeps, PTL DEF Spec

(* The type invariant, for all commands, threads and lengths of buffers.   *)
THEOREM Typing == Spec => []TypeOK
BY Invariance, PTL DEF IInv

(* Only one thread at a time is in send_line, it holds the lock and takes  *)
(* it along on no way out (LockMeansSending).                              *)
THEOREM OneSender == Spec => []LockMeansSending
<1>1. IInv => LockMeansSending
  BY DEF IInv, Exclusion, LockMeansSending
<1> QED BY <1>1, Invariance, PTL

(* Only the arrival of a whole line makes the coordinator do something.    *)
Delivers == \E t \in Sender : pc[t] = "use" /\ Deliver(t)

LEMMA Steps ==
  [Next]_vars => \/ Delivers
                 \/ executed' = Uart!NoCommand /\ done' = done
                 \/ UNCHANGED vars
<1> USE DEF OnlyPort, OnlyThread, Restart, Uart!Reset
<1>1. ASSUME NEW t, PortStep(t) PROVE executed' = Uart!NoCommand /\ done' = done
  BY <1>1, Zenon DEF PortStep, Ensure, IsOpen, Close, Closing, Forget, Open, Mark, Fail,
     FailClosing, FailForget
<1>2. ASSUME Reader \/ Reconnect PROVE executed' = Uart!NoCommand /\ done' = done
  BY <1>1, <1>2, Zenon DEF Reader, Reconnect, ReaderUse, ReaderReturns, SleepOver, Check,
     Discover
<1>3. ASSUME NEW t \in Sender, Acquire(t) \/ WriteFails(t) \/ WriteBreaksOff(t)
      PROVE  executed' = Uart!NoCommand /\ done' = done
  BY <1>3, Zenon DEF Acquire, WriteFails, WriteBreaksOff, Uart!ReadBytes
<1>4. ASSUME NEW t \in Sender, Write(t) \/ WriteFailsLate(t) PROVE Delivers
  BY <1>4, Zenon DEF Write, WriteFailsLate, AtOpenPort, Delivers
<1>5. ASSUME CoordinatorUp \/ Unplug \/ Plug PROVE executed' = Uart!NoCommand /\ done' = done
  BY <1>5, Zenon DEF CoordinatorUp, Unplug, Plug, Uart!NetworkUp
<1> QED BY <1>1, <1>2, <1>3, <1>4, <1>5, Zenon DEF Next, SenderStep

(* The coordinator carries out only what the bridge was asked to send.     *)
THEOREM Faithful == Spec => []OnlySentCommands
<1>1. Init => OnlySentCommands
  BY DEF Init, Uart!Init, OnlySentCommands
<1>2. IInv /\ OnlySentCommands /\ [Next]_vars => OnlySentCommands'
  <2> SUFFICES ASSUME IInv, OnlySentCommands, [Next]_vars PROVE OnlySentCommands'
    OBVIOUS
  <2>1. CASE Delivers
    <3>1. \/ executed' = Uart!NoCommand
          \/ done' \in 1 .. sent /\ executed' = Uart!Received(Request[done'])
      BY <2>1, DeliverExecutes, Zenon DEF Delivers
    <3> QED BY <3>1, Requests DEF OnlySentCommands, Uart!Received
  <2>2. CASE executed' = Uart!NoCommand
    BY <2>2 DEF OnlySentCommands
  <2>3. CASE UNCHANGED vars
    BY <2>3 DEF OnlySentCommands, vars
  <2> QED BY <2>1, <2>2, <2>3, Steps
<1> QED BY <1>1, <1>2, Invariance, PTL DEF Spec

(* A command is never carried out again after a later one, by whatever     *)
(* repetitions and rests in the buffer.                                    *)
THEOREM InOrder == Spec => CommandsInOrder
<1>1. IInv /\ [Next]_vars => [done' >= done]_vars
  <2> SUFFICES ASSUME IInv, [Next]_vars PROVE done' >= done \/ UNCHANGED vars
    OBVIOUS
  <2>1. done \in Nat
    BY Requests DEF IInv, TypeOK
  <2>2. CASE Delivers
    <3>1. done' = done \/ (done' \in 1 .. sent /\ done <= done')
      BY <2>2, DeliverExecutes, Zenon DEF Delivers
    <3>2. sent \in Nat
      BY Requests DEF IInv, TypeOK
    <3> QED BY <2>1, <3>1, <3>2
  <2> QED BY <2>1, <2>2, Steps
<1> QED BY <1>1, Invariance, PTL DEF Spec, CommandsInOrder
=============================================================================
