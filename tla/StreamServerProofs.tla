-------------------------- MODULE StreamServerProofs ---------------------------
(***************************************************************************)
(* Theorems about StreamServer, for any sockets, whatever is sent and      *)
(* whatever the sizes of a read and the waits of the timer.                *)
(***************************************************************************)
EXTENDS StreamServer, FiniteRecursion, FiniteSetTheorems, SequenceTheorems,
        TLAPS

(* The text after a position, character by character.                      *)
LEMMA BareValue ==
  ASSUME NEW s \in Seq(STRING), NEW from \in 0 .. Len(s)
  PROVE  /\ Bare(s, from)[from] = <<>>
         /\ \A n \in from + 1 .. Len(s) :
              Bare(s, from)[n] = IF s[n] = "eol" THEN Bare(s, from)[n - 1]
                                 ELSE Append(Bare(s, from)[n - 1], s[n])
<1> DEFINE N == Len(s) - from
           S == Seq(STRING)
           g == [n \in 1 .. N |-> [x \in S |->
                  IF s[n + from] = "eol" THEN x ELSE Append(x, s[n + from])]]
           Body(b) == [n \in from .. Len(s) |->
                        IF n = from THEN <<>>
                        ELSE IF s[n] = "eol" THEN b[n - 1]
                                             ELSE Append(b[n - 1], s[n])]
<1>1. Len(s) \in Nat /\ N \in Nat /\ <<>> \in S
  OBVIOUS
<1>3. ASSUME NEW n \in 1 .. N, NEW x \in S
      PROVE  g[n][x] \in S
  <2>1. s[n + from] \in STRING
    BY <1>1
  <2> HIDE DEF N
  <2>2. g[n][x] = IF s[n + from] = "eol" THEN x ELSE Append(x, s[n + from])
    OBVIOUS
  <2> HIDE DEF g
  <2> QED BY <2>1, <2>2, AppendProperties
<1>4. PICK f : Recurs(f, S, <<>>, N, g)
  <2> HIDE DEF N, S, g
  <2> QED BY <1>1, <1>3, Recursion
<1> DEFINE b == [n \in from .. Len(s) |-> f[n - from]]
<1>5. b = Body(b)
  <2>1. ASSUME NEW n \in from .. Len(s), n # from
        PROVE  b[n] = IF s[n] = "eol" THEN b[n - 1] ELSE Append(b[n - 1], s[n])
    <3>1. n - from \in 1 .. N /\ (n - from) + from = n
          /\ (n - 1) - from = (n - from) - 1 /\ n - 1 \in from .. Len(s)
      BY <1>1, <2>1
    <3>2. f[n - from] = g[n - from][f[(n - from) - 1]]
      BY <1>4, <3>1 DEF Recurs
    <3>3. f[(n - from) - 1] \in S
      <4>1. (n - from) - 1 \in 0 .. N
        BY <1>1, <3>1
      <4> HIDE DEF N, S
      <4> QED BY <1>4, <4>1 DEF Recurs
    <3>4. b[n] = f[n - from] /\ b[n - 1] = f[(n - from) - 1]
      BY <2>1, <3>1
    <3> HIDE DEF b, N, S
    <3> QED BY <3>1, <3>2, <3>3, <3>4
  <2>2. b[from] = <<>>
    BY <1>1, <1>4 DEF Recurs
  <2>3. b = [n \in from .. Len(s) |-> b[n]]
    OBVIOUS
  <2> HIDE DEF b
  <2> QED BY <2>1, <2>2, <2>3
<1>6. Bare(s, from) = CHOOSE h : h = Body(h)
  BY DEF Bare
<1>7. Bare(s, from) = Body(Bare(s, from))
  <2> HIDE DEF b, Body
  <2> QED BY <1>5, <1>6
<1>8. from \in from .. Len(s) /\ \A n \in from + 1 .. Len(s) : n # from
  BY <1>1
<1> HIDE DEF b, g, N, S
<1>9. Bare(s, from)[from] = <<>>
  BY <1>7, <1>8
<1>10. ASSUME NEW n \in from + 1 .. Len(s)
       PROVE  Bare(s, from)[n] = IF s[n] = "eol" THEN Bare(s, from)[n - 1]
                                 ELSE Append(Bare(s, from)[n - 1], s[n])
  <2> DEFINE B == Bare(s, from)
  <2>1. n # from /\ n \in from .. Len(s)
    BY <1>1
  <2>2. Body(B)[n] = IF s[n] = "eol" THEN B[n - 1] ELSE Append(B[n - 1], s[n])
    BY <2>1
  <2>3. B = Body(B)
    BY <1>7
  <2> HIDE DEF B, Body
  <2>4. B[n] = IF s[n] = "eol" THEN B[n - 1] ELSE Append(B[n - 1], s[n])
    BY <2>2, <2>3
  <2> QED BY <2>4 DEF B
<1> QED BY <1>9, <1>10

(* The commands of a stream, delimiter by delimiter.                       *)
LEMMA SentValue ==
  ASSUME NEW s \in Seq(STRING)
  PROVE  /\ Sent(s)[0] = <<>>
         /\ \A n \in 1 .. Len(s) :
              Sent(s)[n] =
                IF s[n] = Delimiter /\ Between(s, n) \in KnownCommands
                  THEN Append(Sent(s)[n - 1], Between(s, n))
                  ELSE Sent(s)[n - 1]
<1> DEFINE N == Len(s)
           S == Seq(KnownCommands)
           Known(n) == s[n] = Delimiter /\ Between(s, n) \in KnownCommands
           g == [n \in 1 .. N |-> [x \in S |->
                  IF Known(n) THEN Append(x, Between(s, n)) ELSE x]]
           Body(b) == [n \in 0 .. Len(s) |->
                        IF n = 0 THEN <<>>
                        ELSE IF s[n] = Delimiter /\ Between(s, n) \in KnownCommands
                        THEN Append(b[n - 1], Between(s, n))
                        ELSE b[n - 1]]
<1>1. N \in Nat /\ <<>> \in S
  OBVIOUS
<1>2. ASSUME NEW n \in 1 .. N, NEW x \in S
      PROVE  /\ g[n][x] \in S
             /\ g[n][x] = IF Known(n) THEN Append(x, Between(s, n)) ELSE x
  <2>1. g[n][x] = IF Known(n) THEN Append(x, Between(s, n)) ELSE x
    OBVIOUS
  <2>2. CASE Known(n)
    <3>1. Between(s, n) \in KnownCommands
      BY <2>2
    <3> HIDE DEF g, Known
    <3> QED BY <2>1, <2>2, <3>1, AppendProperties
  <2>3. CASE ~Known(n)
    <3> HIDE DEF g, Known
    <3> QED BY <2>1, <2>3
  <2> QED BY <2>1, <2>2, <2>3
<1>3. PICK f : Recurs(f, S, <<>>, N, g)
  <2> HIDE DEF N, S, g
  <2> QED BY <1>1, <1>2, Recursion
<1>4. f = Body(f)
  <2>1. ASSUME NEW n \in 0 .. N
        PROVE  f[n] = Body(f)[n]
    <3>1. CASE n = 0
      BY <1>3, <3>1 DEF Recurs
    <3>2. CASE n # 0
      <4>1. n \in 1 .. N /\ n - 1 \in 0 .. N
        BY <1>1, <3>2
      <4>2. f[n] = g[n][f[n - 1]] /\ f[n - 1] \in S
        <5> HIDE DEF N, S, g
        <5> QED BY <1>3, <4>1 DEF Recurs
      <4>3. f[n] = IF Known(n) THEN Append(f[n - 1], Between(s, n)) ELSE f[n - 1]
        <5> HIDE DEF N, S, g, Known
        <5> QED BY <1>2, <4>1, <4>2
      <4> HIDE DEF S, g
      <4> QED BY <3>2, <4>1, <4>3
    <3> QED BY <3>1, <3>2
  <2>2. f = [n \in 0 .. N |-> f[n]] /\ Body(f) = [n \in 0 .. N |-> Body(f)[n]]
    <3>1. f = [n \in 0 .. N |-> f[n]]
      BY <1>3 DEF Recurs
    <3> QED BY <3>1
  <2> HIDE DEF Body, N
  <2> QED BY <2>1, <2>2
<1>5. Sent(s) = CHOOSE h : h = Body(h)
  BY DEF Sent
<1>6. Sent(s) = Body(Sent(s))
  <2> HIDE DEF Body
  <2> QED BY <1>4, <1>5
<1> DEFINE B == Sent(s)
<1>7. Body(B)[0] = <<>>
  BY <1>1
<1>8. \A n \in 1 .. N : Body(B)[n] = IF Known(n) THEN Append(B[n - 1], Between(s, n))
                                                 ELSE B[n - 1]
  BY <1>1
<1>9. B = Body(B)
  BY <1>6
<1>10. B[0] = <<>> /\ \A n \in 1 .. N :
         B[n] = IF Known(n) THEN Append(B[n - 1], Between(s, n)) ELSE B[n - 1]
  <2> HIDE DEF Body, B, Known, N
  <2> QED BY <1>7, <1>8, <1>9
<1> QED BY <1>10

-----------------------------------------------------------------------------
(* A character leaves a connection well typed; what it is afterwards.      *)
LEMMA Fields ==
  ASSUME NEW k \in Connections
  PROVE  /\ k.net \in {"none", "open", "closing", "closed"}
         /\ k.script \in Seq(STRING) /\ k.script \in Scripts \cup {<<>>}
         /\ k.arrived \in Nat
         /\ k.unread \in Seq(STRING) /\ k.buffer \in Seq(STRING)
         /\ k.commands \in Seq(KnownCommands)
         /\ k.unsent \in BOOLEAN /\ k.answers \in Nat
<1>1. k.script \in Scripts \cup {<<>>}
  BY DEF Connections
<1>2. k.script \in Seq(STRING)
  <2>1. <<>> \in Seq(STRING)
    OBVIOUS
  <2> QED BY <1>1, <2>1, ScriptsAssumption
<1> QED BY <1>1, <1>2 DEF Connections

LEMMA ProcessTyped ==
  ASSUME NEW k \in Connections
  PROVE  ProcessCommand(k) \in Connections
<1>1. CASE k.buffer \in KnownCommands
  <2> DEFINE known == [k EXCEPT !.commands = Append(@, k.buffer)]
  <2>1. known \in Connections
    <3>1. Append(k.commands, k.buffer) \in Seq(KnownCommands)
      BY <1>1, Fields, AppendProperties
    <3> QED BY <3>1 DEF Connections
  <2>2. Answered(known) \in Connections
    <3> HIDE DEF known
    <3>1. Written(known) \in Connections
      BY <2>1 DEF Written, Connections
    <3>2. Written(known).answers + 1 \in Nat
      BY <3>1, Fields
    <3>3. [Written(known) EXCEPT !.answers = @ + 1] \in Connections
      BY <3>1, <3>2 DEF Connections
    <3> QED BY <2>1, <3>3 DEF Answered
  <2>3. Closed(known) \in Connections
    <3> HIDE DEF known
    <3> QED BY <2>1 DEF Closed, Connections
  <2>4. ProcessCommand(k) \in {Answered(known), Closed(known)}
    BY <1>1 DEF ProcessCommand, KnownCommands
  <2> QED BY <2>2, <2>3, <2>4
<1>2. CASE k.buffer \notin KnownCommands
  BY <1>2 DEF ProcessCommand, KnownCommands
<1> QED BY <1>1, <1>2

LEMMA ConsumeTyped ==
  ASSUME NEW k \in Connections, NEW char \in STRING
  PROVE  Consume(k, char) \in Connections
<1>1. CASE char = Delimiter
  <2>1. [ProcessCommand(k) EXCEPT !.buffer = <<>>] \in Connections
    <3>1. <<>> \in Seq(STRING) /\ ProcessCommand(k) \in Connections
      BY ProcessTyped
    <3> QED BY <3>1 DEF Connections
  <2> QED BY <1>1, <2>1 DEF Consume
<1>2. CASE char # Delimiter /\ char # "eol"
  <2>1. Append(k.buffer, char) \in Seq(STRING)
    BY Fields, AppendProperties
  <2>2. [k EXCEPT !.buffer = Append(@, char)] \in Connections
    BY <2>1 DEF Connections
  <2> QED BY <1>2, <2>2 DEF Consume
<1>3. CASE char # Delimiter /\ char = "eol"
  BY <1>3 DEF Consume
<1> QED BY <1>1, <1>2, <1>3

(* Reading goes from character to character.                               *)
LEMMA ReadingValue ==
  ASSUME NEW k \in Connections, NEW chars \in Seq(STRING)
  PROVE  Recurs(Reading(k, chars), Connections, k, Len(chars),
                [n \in 1 .. Len(chars) |-> [x \in Connections |->
                   Consume(x, chars[n])]])
<1> DEFINE N == Len(chars)
           S == Connections
           g == [n \in 1 .. N |-> [x \in S |-> Consume(x, chars[n])]]
           Body(b) == [n \in 0 .. Len(chars) |->
                        IF n = 0 THEN k ELSE Consume(b[n - 1], chars[n])]
<1>1. N \in Nat
  OBVIOUS
<1>2. ASSUME NEW n \in 1 .. N, NEW x \in S
      PROVE  g[n][x] \in S /\ g[n][x] = Consume(x, chars[n])
  <2>1. g[n][x] = Consume(x, chars[n])
    OBVIOUS
  <2>2. chars[n] \in STRING
    OBVIOUS
  <2> HIDE DEF g
  <2> QED BY <2>1, <2>2, ConsumeTyped
<1>3. PICK f : Recurs(f, S, k, N, g)
  <2> HIDE DEF N, S, g
  <2>1. k \in S
    BY DEF S
  <2> QED BY <1>1, <1>2, <2>1, Recursion
<1>4. f \in [0 .. N -> S] /\ f[0] = k /\ \A n \in 1 .. N : f[n] = g[n][f[n - 1]]
  BY <1>3 DEF Recurs
<1>5. \A h : h = Body(h) <=> h = f
  <2>1. ASSUME NEW h, h = Body(h) PROVE h = f
    <3> DEFINE T == {n \in 0 .. N : h[n] # f[n]}
    <3>1. SUFFICES ASSUME T # {} PROVE FALSE
      <4>1. \A n \in 0 .. N : h[n] = f[n]
        BY <3>1
      <4>2. h = [n \in 0 .. N |-> h[n]]
        BY <2>1
      <4>3. f = [n \in 0 .. N |-> f[n]]
        BY <1>4
      <4> HIDE DEF Body, N, T
      <4> QED BY <4>1, <4>2, <4>3
    <3>2. T \subseteq Nat
      OBVIOUS
    <3>3. PICK m \in T : \A u \in T : m <= u
      <4> HIDE DEF T
      <4> QED BY <3>1, <3>2, Least
    <3>4. h[0] = k
      BY <1>1, <2>1
    <3>5. m \in 1 .. N /\ m - 1 \in 0 .. N
      BY <1>1, <1>4, <3>3, <3>4
    <3>6. h[m - 1] = f[m - 1]
      BY <3>3, <3>5
    <3>7. Body(h)[m] = Consume(h[m - 1], chars[m])
      BY <3>5
    <3>8. h[m] = Consume(h[m - 1], chars[m])
      <4> HIDE DEF Body
      <4> QED BY <2>1, <3>7
    <3>9. f[m] = Consume(f[m - 1], chars[m])
      <4> HIDE DEF N, S, g
      <4> QED BY <1>2, <1>4, <3>5
    <3> QED BY <3>3, <3>6, <3>8, <3>9
  <2>2. f = Body(f)
    <3>1. ASSUME NEW n \in 0 .. N PROVE f[n] = Body(f)[n]
      <4>1. CASE n = 0
        BY <1>4, <4>1
      <4>2. CASE n # 0
        <5>1. n \in 1 .. N /\ n - 1 \in 0 .. N
          BY <1>1, <4>2
        <5>2. f[n] = Consume(f[n - 1], chars[n])
          <6> HIDE DEF N, S, g
          <6> QED BY <1>2, <1>4, <5>1
        <5> QED BY <4>2, <5>1, <5>2
      <4> QED BY <4>1, <4>2
    <3>2. f = [n \in 0 .. N |-> f[n]]
      BY <1>4
    <3>3. Body(f) = [n \in 0 .. N |-> Body(f)[n]]
      OBVIOUS
    <3> HIDE DEF Body, N
    <3> QED BY <3>1, <3>2, <3>3
  <2> HIDE DEF Body
  <2> QED BY <2>1, <2>2
<1>6. Reading(k, chars) = CHOOSE h : h = Body(h)
  BY DEF Reading
<1>7. Reading(k, chars) = f
  <2> HIDE DEF Body
  <2> QED BY <1>5, <1>6
<1> QED BY <1>3, <1>7

-----------------------------------------------------------------------------
(* The last delimiter among the first n characters.                        *)
LEMMA LastDelimiterIs ==
  ASSUME NEW s \in Seq(STRING), NEW n \in 0 .. Len(s),
         NEW d \in 0 .. n, d = 0 \/ s[d] = Delimiter,
         \A e \in d + 1 .. n : s[e] # Delimiter
  PROVE  LastDelimiter(s, n) = d
<1> DEFINE D == {0} \cup {e \in 1 .. n : s[e] = Delimiter}
<1>1. d \in D /\ \A e \in D : d >= e
  OBVIOUS
<1>2. D \subseteq Int
  OBVIOUS
<1>3. LastDelimiter(s, n) = CHOOSE x \in D : \A y \in D : x >= y
  BY DEF LastDelimiter, Max
<1> HIDE DEF D
<1>4. \A x \in D : (\A y \in D : x >= y) => x = d
  BY <1>1, <1>2
<1> QED BY <1>1, <1>3, <1>4

LEMMA LastDelimiterFound ==
  ASSUME NEW s \in Seq(STRING), NEW n \in 0 .. Len(s)
  PROVE  LET d == LastDelimiter(s, n)
         IN  /\ d \in 0 .. n
             /\ d = 0 \/ s[d] = Delimiter
             /\ \A e \in d + 1 .. n : s[e] # Delimiter
<1> DEFINE D == {0} \cup {e \in 1 .. n : s[e] = Delimiter}
           T == {n - e : e \in D}
<1>1. T \subseteq Nat /\ T # {}
  OBVIOUS
<1>2. PICK t \in T : \A u \in T : t <= u
  <2> HIDE DEF T
  <2> QED BY <1>1, Least
<1>3. PICK d \in D : t = n - d
  BY <1>2
<1>4. \A e \in D : n - d <= n - e
  BY <1>2, <1>3
<1>5. d \in 0 .. n /\ (d = 0 \/ s[d] = Delimiter)
  BY <1>3
<1>6. \A e \in d + 1 .. n : s[e] # Delimiter
  BY <1>4, <1>5
<1>7. LastDelimiter(s, n) = d
  BY <1>5, <1>6, LastDelimiterIs
<1> QED BY <1>5, <1>6, <1>7

LEMMA LastDelimiterStep ==
  ASSUME NEW s \in Seq(STRING), NEW n \in 0 .. Len(s) - 1
  PROVE  LastDelimiter(s, n + 1) =
           IF s[n + 1] = Delimiter THEN n + 1 ELSE LastDelimiter(s, n)
<1>1. n \in 0 .. Len(s) /\ n + 1 \in 0 .. Len(s)
  OBVIOUS
<1>2. CASE s[n + 1] = Delimiter
  BY <1>1, <1>2, LastDelimiterIs
<1>3. CASE s[n + 1] # Delimiter
  <2> DEFINE d == LastDelimiter(s, n)
  <2>1. /\ d \in 0 .. n /\ (d = 0 \/ s[d] = Delimiter)
        /\ \A e \in d + 1 .. n : s[e] # Delimiter
    BY <1>1, LastDelimiterFound
  <2> HIDE DEF d
  <2>2. d \in 0 .. n + 1 /\ \A e \in d + 1 .. n + 1 : s[e] # Delimiter
    BY <1>3, <2>1
  <2>3. LastDelimiter(s, n + 1) = d
    BY <1>1, <2>1, <2>2, LastDelimiterIs
  <2> QED BY <1>3, <2>3 DEF d
<1> QED BY <1>2, <1>3

(* What a connection has made of the first n characters of its stream.     *)
Upto(k, n) ==
  /\ n \in 0 .. Len(k.script)
  /\ k.commands = Sent(k.script)[n]
  /\ k.buffer = Bare(k.script, LastDelimiter(k.script, n))[n]

LEMMA ConsumeFields ==
  ASSUME NEW k \in Connections, NEW char \in STRING
  PROVE  LET next == Consume(k, char)
             known == char = Delimiter /\ k.buffer \in KnownCommands
         IN  /\ next.script = k.script /\ next.arrived = k.arrived
             /\ next.unread = k.unread
             /\ next.commands = IF known THEN Append(k.commands, k.buffer)
                                         ELSE k.commands
             /\ next.buffer = IF char = Delimiter THEN <<>>
                              ELSE IF char = "eol" THEN k.buffer
                              ELSE Append(k.buffer, char)
             /\ next.answers = IF known /\ k.buffer = Query /\ k.net = "open"
                               THEN k.answers + 1 ELSE k.answers
             /\ known /\ k.buffer = Quit => next.net # "open"
             /\ ~(known /\ k.buffer = Quit) => next.net = k.net
             /\ k.net # "open" => next.net = k.net
             /\ k.net = "open" => next.net # "none"
<1>0. Query # Quit
  BY DEF Query, Quit
<1>1. CASE char # Delimiter
  BY <1>1 DEF Consume, Connections
<1>2. CASE char = Delimiter /\ k.buffer \notin KnownCommands
  <2>1. ProcessCommand(k) = k
    BY <1>2 DEF ProcessCommand, KnownCommands
  <2> QED BY <1>2, <2>1 DEF Consume, Connections
<1>3. CASE char = Delimiter /\ k.buffer = Query
  <2> DEFINE known == [k EXCEPT !.commands = Append(@, k.buffer)]
  <2>1. ProcessCommand(k) = Answered(known)
    BY <1>0, <1>3 DEF ProcessCommand
  <2>2. Consume(k, char) = [Answered(known) EXCEPT !.buffer = <<>>]
    BY <1>3, <2>1 DEF Consume
  <2>3. k.buffer \in KnownCommands /\ k.buffer # Quit
    BY <1>0, <1>3 DEF KnownCommands
  <2> QED BY <1>3, <2>2, <2>3 DEF Answered, Written, Connections
<1>4. CASE char = Delimiter /\ k.buffer = Quit
  <2> DEFINE known == [k EXCEPT !.commands = Append(@, k.buffer)]
  <2>1. ProcessCommand(k) = Closed(known)
    BY <1>0, <1>4 DEF ProcessCommand
  <2>2. Consume(k, char) = [Closed(known) EXCEPT !.buffer = <<>>]
    BY <1>4, <2>1 DEF Consume
  <2>3. k.buffer \in KnownCommands /\ k.buffer # Query
    BY <1>0, <1>4 DEF KnownCommands
  <2> QED BY <1>4, <2>2, <2>3 DEF Closed, Connections
<1> QED BY <1>1, <1>2, <1>3, <1>4 DEF KnownCommands

LEMMA UptoStep ==
  ASSUME NEW k \in Connections, NEW n \in 0 .. Len(k.script) - 1, Upto(k, n)
  PROVE  Upto(Consume(k, k.script[n + 1]), n + 1)
<1> DEFINE s == k.script
           char == s[n + 1]
           next == Consume(k, char)
           from == LastDelimiter(s, n)
<1>1. s \in Seq(STRING) /\ n \in 0 .. Len(s) /\ n + 1 \in 1 .. Len(s)
      /\ char \in STRING
  BY Fields
<1>2. /\ next.script = s
      /\ next.commands = IF char = Delimiter /\ k.buffer \in KnownCommands
                         THEN Append(k.commands, k.buffer) ELSE k.commands
      /\ next.buffer = IF char = Delimiter THEN <<>>
                       ELSE IF char = "eol" THEN k.buffer
                       ELSE Append(k.buffer, char)
  BY <1>1, ConsumeFields
<1>3. k.commands = Sent(s)[n] /\ k.buffer = Bare(s, from)[n]
  BY DEF Upto
<1>4. Between(s, n + 1) = k.buffer
  BY <1>1, <1>3 DEF Between
<1> HIDE DEF s, char, next, from
<1>5. next.commands = Sent(s)[n + 1]
  <2>1. Sent(s)[n + 1] = IF s[n + 1] = Delimiter /\ Between(s, n + 1) \in KnownCommands
                         THEN Append(Sent(s)[(n + 1) - 1], Between(s, n + 1))
                         ELSE Sent(s)[(n + 1) - 1]
    BY <1>1, SentValue
  <2>2. (n + 1) - 1 = n
    OBVIOUS
  <2> QED BY <1>2, <1>3, <1>4, <2>1, <2>2 DEF char
<1>6. next.buffer = Bare(s, LastDelimiter(s, n + 1))[n + 1]
  <2>0. n \in 0 .. Len(s) - 1
    BY <1>1
  <2>1. CASE char = Delimiter
    <3>1. LastDelimiter(s, n + 1) = n + 1
      BY <1>1, <2>0, <2>1, LastDelimiterStep DEF char
    <3>2. Bare(s, n + 1)[n + 1] = <<>>
      BY <1>1, BareValue
    <3> QED BY <1>2, <2>1, <3>1, <3>2
  <2>2. CASE char # Delimiter
    <3>1. LastDelimiter(s, n + 1) = from
      BY <1>1, <2>0, <2>2, LastDelimiterStep DEF char, from
    <3>2. from \in 0 .. n
      BY <1>1, LastDelimiterFound DEF from
    <3>3. Bare(s, from)[n + 1] =
            IF s[n + 1] = "eol" THEN Bare(s, from)[(n + 1) - 1]
            ELSE Append(Bare(s, from)[(n + 1) - 1], s[n + 1])
      BY <1>1, <3>2, BareValue
    <3>4. (n + 1) - 1 = n
      OBVIOUS
    <3> QED BY <1>2, <1>3, <2>2, <3>1, <3>3, <3>4 DEF char
  <2> QED BY <2>1, <2>2
<1>7. n + 1 \in 0 .. Len(s)
  BY <1>1
<1> QED BY <1>2, <1>5, <1>6, <1>7 DEF Upto, next, char, s

-----------------------------------------------------------------------------
(* The answers that were due: one more with each query before Quit.        *)
HasQuit(commands) == \E j \in 1 .. Len(commands) : commands[j] = Quit

LEMMA QuestionsAfter ==
  ASSUME NEW q \in Seq(KnownCommands), NEW x \in KnownCommands
  PROVE  /\ Cardinality(Questions(q)) \in Nat
         /\ Cardinality(Questions(Append(q, x))) =
              IF x = Query /\ ~HasQuit(q) THEN Cardinality(Questions(q)) + 1
                                          ELSE Cardinality(Questions(q))
         /\ HasQuit(Append(q, x)) <=> x = Quit \/ HasQuit(q)
<1> DEFINE N == Len(q)
           r == Append(q, x)
<1>0. Query # Quit
  BY DEF Query, Quit
<1>1. N \in Nat /\ Len(r) = N + 1 /\ r[N + 1] = x /\ \A j \in 1 .. N : r[j] = q[j]
  BY AppendProperties
<1> HIDE DEF N, r
<1>2. Questions(q) = {n \in 1 .. N : q[n] = Query /\ \A m \in 1 .. n : q[m] # Quit}
  BY DEF Questions, N
<1>3. Questions(r) = {n \in 1 .. N + 1 : r[n] = Query /\ \A m \in 1 .. n : r[m] # Quit}
  BY <1>1 DEF Questions
<1>4. IsFiniteSet(Questions(q)) /\ N + 1 \notin Questions(q)
  <2>1. IsFiniteSet(1 .. N)
    BY <1>1, FS_Interval
  <2>2. Questions(q) \subseteq 1 .. N
    BY <1>2
  <2> QED BY <1>1, <2>1, <2>2, FS_Subset
<1>5. HasQuit(r) <=> x = Quit \/ HasQuit(q)
  <2>1. ASSUME HasQuit(q) PROVE HasQuit(r)
    BY <1>1, <2>1 DEF HasQuit, N
  <2>2. ASSUME x = Quit PROVE HasQuit(r)
    BY <1>1, <2>2 DEF HasQuit
  <2>3. ASSUME HasQuit(r), x # Quit PROVE HasQuit(q)
    BY <1>1, <2>3 DEF HasQuit, N
  <2> QED BY <2>1, <2>2, <2>3
<1>6. \A n \in 1 .. N : n \in Questions(r) <=> n \in Questions(q)
  <2> SUFFICES ASSUME NEW n \in 1 .. N
               PROVE  n \in Questions(r) <=> n \in Questions(q)
    OBVIOUS
  <2>1. n \in 1 .. N + 1 /\ \A m \in 1 .. n : r[m] = q[m]
    BY <1>1
  <2>2. r[n] = q[n]
    BY <1>1
  <2> QED BY <1>2, <1>3, <2>1, <2>2
<1>7. N + 1 \in Questions(r) <=> x = Query /\ ~HasQuit(q)
  <2>1. N + 1 \in 1 .. N + 1
    BY <1>1
  <2>2. N + 1 \in Questions(r) <=> x = Query /\ \A m \in 1 .. N + 1 : r[m] # Quit
    BY <1>1, <1>3, <2>1
  <2>3. ASSUME x = Query
        PROVE  (\A m \in 1 .. N + 1 : r[m] # Quit) <=> ~HasQuit(q)
    <3>1. HasQuit(r) <=> \E m \in 1 .. N + 1 : r[m] = Quit
      BY <1>1 DEF HasQuit
    <3> QED BY <1>0, <1>5, <2>3, <3>1
  <2> QED BY <2>2, <2>3
<1>8. Questions(r) = IF x = Query /\ ~HasQuit(q) THEN Questions(q) \cup {N + 1}
                                                ELSE Questions(q)
  <2>1. Questions(r) \subseteq 1 .. N + 1 /\ Questions(q) \subseteq 1 .. N
    BY <1>2, <1>3
  <2>2. 1 .. N + 1 = (1 .. N) \cup {N + 1}
    BY <1>1
  <2> HIDE DEF HasQuit
  <2>3. CASE N + 1 \in Questions(r)
    <3>1. Questions(r) = Questions(q) \cup {N + 1}
      BY <1>6, <2>1, <2>2, <2>3, Zenon
    <3> QED BY <1>7, <2>3, <3>1
  <2>4. CASE N + 1 \notin Questions(r)
    <3>1. Questions(r) = Questions(q)
      BY <1>4, <1>6, <2>1, <2>2, <2>4, Zenon
    <3> QED BY <1>7, <2>4, <3>1
  <2> QED BY <2>3, <2>4
<1>9. Cardinality(Questions(q)) \in Nat
  BY <1>4, FS_CardinalityType
<1>10. Cardinality(Questions(q) \cup {N + 1}) = Cardinality(Questions(q)) + 1
  BY <1>4, FS_AddElement
<1> QED BY <1>5, <1>8, <1>9, <1>10 DEF r

(* A connection was answered as often as it asked, and no command that     *)
(* ended it has come while it is open.                                     *)
Answering(k) ==
  /\ k.answers = Cardinality(Questions(k.commands))
  /\ k.net = "open" => ~HasQuit(k.commands)

(* What one read makes of a connection that was open.                      *)
Reads(old, k) ==
  /\ k.answers = Cardinality(Questions(k.commands))
  /\ k.net = "open" <=> ~HasQuit(k.commands)
  /\ k.net # "none"
  /\ Len(old.commands) <= Len(k.commands)
  /\ k.net # "open" =>
       \E j \in Len(old.commands) + 1 .. Len(k.commands) : k.commands[j] = Quit
  /\ k.script = old.script /\ k.arrived = old.arrived /\ k.unread = old.unread

LEMMA ReadsFirst ==
  ASSUME NEW k \in Connections, Answering(k), k.net = "open"
  PROVE  Reads(k, k)
<1>1. Len(k.commands) \in Nat
  BY Fields
<1> QED BY <1>1 DEF Reads, Answering

LEMMA ReadsStep ==
  ASSUME NEW old \in Connections, NEW k \in Connections, NEW char \in STRING,
         Reads(old, k)
  PROVE  Reads(old, Consume(k, char))
<1> DEFINE next == Consume(k, char)
           known == char = Delimiter /\ k.buffer \in KnownCommands
<1>1. /\ next.script = k.script /\ next.arrived = k.arrived
      /\ next.unread = k.unread
      /\ next.commands = IF known THEN Append(k.commands, k.buffer) ELSE k.commands
      /\ next.answers = IF known /\ k.buffer = Query /\ k.net = "open"
                        THEN k.answers + 1 ELSE k.answers
      /\ known /\ k.buffer = Quit => next.net # "open"
      /\ ~(known /\ k.buffer = Quit) => next.net = k.net
      /\ k.net # "open" => next.net = k.net
      /\ k.net = "open" => next.net # "none"
  BY ConsumeFields
<1>2. next \in Connections
  BY ConsumeTyped
<1>3. /\ Len(old.commands) \in Nat /\ Len(k.commands) \in Nat
      /\ k.commands \in Seq(KnownCommands)
  BY Fields
<1>4. known => /\ Cardinality(Questions(next.commands)) =
                    IF k.buffer = Query /\ ~HasQuit(k.commands)
                    THEN Cardinality(Questions(k.commands)) + 1
                    ELSE Cardinality(Questions(k.commands))
               /\ HasQuit(next.commands) <=> k.buffer = Quit \/ HasQuit(k.commands)
               /\ Len(next.commands) = Len(k.commands) + 1
               /\ next.commands[Len(k.commands) + 1] = k.buffer
               /\ \A j \in 1 .. Len(k.commands) : next.commands[j] = k.commands[j]
  BY <1>1, <1>3, QuestionsAfter, AppendProperties
<1> HIDE DEF next
<1>5. CASE known
  <2> HIDE DEF known
  <2>1. next.answers = Cardinality(Questions(next.commands))
    BY <1>1, <1>4, <1>5 DEF Reads
  <2>2. (next.net = "open" <=> ~HasQuit(next.commands)) /\ next.net # "none"
    BY <1>1, <1>4, <1>5 DEF Reads
  <2>3. Len(old.commands) <= Len(next.commands)
    BY <1>3, <1>4, <1>5 DEF Reads
  <2>4. ASSUME next.net # "open"
        PROVE  \E j \in Len(old.commands) + 1 .. Len(next.commands) :
                 next.commands[j] = Quit
    <3>1. CASE k.net = "open"
      <4>1. k.buffer = Quit
        BY <1>1, <2>4, <3>1
      <4>2. Len(k.commands) + 1 \in Len(old.commands) + 1 .. Len(next.commands)
        BY <1>3, <1>4, <1>5 DEF Reads
      <4> QED BY <1>4, <1>5, <4>1, <4>2
    <3>2. CASE k.net # "open"
      <4>1. PICK j \in Len(old.commands) + 1 .. Len(k.commands) :
              k.commands[j] = Quit
        BY <3>2 DEF Reads
      <4>2. j \in Len(old.commands) + 1 .. Len(next.commands)
            /\ j \in 1 .. Len(k.commands)
        BY <1>3, <1>4, <1>5
      <4> QED BY <1>4, <1>5, <4>1, <4>2
    <3> QED BY <3>1, <3>2
  <2> QED BY <1>1, <2>1, <2>2, <2>3, <2>4 DEF Reads, next
<1>6. CASE ~known
  <2> HIDE DEF known
  <2>1. next.commands = k.commands /\ next.net = k.net /\ next.answers = k.answers
    BY <1>1, <1>6
  <2> QED BY <1>1, <2>1 DEF Reads, next
<1> QED BY <1>5, <1>6

-----------------------------------------------------------------------------
(* What has arrived and is not yet read is the next part of the stream.    *)
Follows(x, s, from) == \A i \in 1 .. Len(x) : x[i] = s[from + i]

Arrived(k) ==
  /\ Len(k.unread) <= k.arrived /\ k.arrived <= Len(k.script)
  /\ Follows(k.unread, k.script, Consumed(k))

ConnInv(k) ==
  /\ k \in Connections
  /\ Arrived(k)
  /\ Upto(k, Consumed(k))
  /\ Answering(k)

LEMMA TakenParts ==
  ASSUME NEW a \in Seq(STRING), NEW parts, parts = Taken(a)
  PROVE  /\ parts[1] \in Seq(STRING) /\ parts[2] \in Seq(STRING)
         /\ Len(parts[1]) + Len(parts[2]) = Len(a)
         /\ Follows(parts[1], a, 0) /\ Follows(parts[2], a, Len(parts[1]))
<1> DEFINE n == Min({ReadSize, Len(a)})
           one == SubSeq(a, 1, n)
           two == SubSeq(a, n + 1, Len(a))
<1>1. Len(a) \in Nat /\ ReadSize \in Nat
  BY SizesAssumption
<1>2. n \in 0 .. Len(a)
  <2> DEFINE D == {ReadSize, Len(a)}
  <2>1. \E x \in D : \A y \in D : x =< y
    <3>1. CASE ReadSize <= Len(a)
      BY <1>1, <3>1
    <3>2. CASE Len(a) <= ReadSize
      BY <1>1, <3>2
    <3> QED BY <1>1, <3>1, <3>2
  <2>2. n = CHOOSE x \in D : \A y \in D : x =< y
    BY DEF Min
  <2> HIDE DEF n
  <2>3. n \in D /\ \A y \in D : n =< y
    <3> HIDE DEF D
    <3> QED BY <2>1, <2>2
  <2> QED BY <1>1, <2>3
<1> HIDE DEF n
<1>3. one \in Seq(STRING) /\ Len(one) = n /\ \A i \in 1 .. n : one[i] = a[i]
  <2>1. \A i \in 1 .. n : a[i] \in STRING
    BY <1>1, <1>2
  <2> QED BY <1>1, <1>2, <2>1, SubSeqProperties
<1>4. /\ two \in Seq(STRING) /\ Len(two) = Len(a) - n
      /\ \A i \in 1 .. Len(two) : two[i] = a[n + i]
  <2>1. \A i \in n + 1 .. Len(a) : a[i] \in STRING
    BY <1>1, <1>2
  <2> QED BY <1>1, <1>2, <2>1, SubSeqProperties
<1>5. Taken(a) = <<one, two>>
  BY DEF Taken, n
<1> HIDE DEF one, two
<1>6. parts[1] = one /\ parts[2] = two
  BY <1>5
<1>7. Len(one) + Len(two) = Len(a)
  BY <1>1, <1>2, <1>3, <1>4
<1>8. Follows(one, a, 0)
  BY <1>2, <1>3 DEF Follows
<1>9. Follows(two, a, n)
  BY <1>4 DEF Follows
<1> QED BY <1>3, <1>4, <1>6, <1>7, <1>8, <1>9

(* Positions in a concatenation and in its parts.                          *)
LEMMA Shift ==
  ASSUME NEW i \in Int, NEW u \in Int, NEW n \in Int, NEW c \in Int,
         u < i, i <= u + n
  PROVE  i - u \in 1 .. n /\ c + (i - u) = (c - u) + i
OBVIOUS

LEMMA Within ==
  ASSUME NEW i \in Int, NEW m \in Int, NEW c \in Nat, NEW last \in Int,
         0 <= i, i <= m - 1, c + m <= last
  PROVE  c + i \in 0 .. last - 1 /\ (c + i) + 1 = c + (i + 1)
OBVIOUS

(* What arrives continues what is not yet read.                            *)
LEMMA NextPart ==
  ASSUME NEW s \in Seq(STRING), NEW u \in Seq(STRING), NEW c \in Nat,
         NEW n \in Nat, Len(u) <= c, c + n <= Len(s),
         Follows(u, s, c - Len(u))
  PROVE  /\ u \o SubSeq(s, c + 1, c + n) \in Seq(STRING)
         /\ Len(u \o SubSeq(s, c + 1, c + n)) = Len(u) + n
         /\ Follows(u \o SubSeq(s, c + 1, c + n), s, c - Len(u))
<1> DEFINE rest == SubSeq(s, c + 1, c + n)
           a == u \o rest
           U == Len(u)
           C == c - U
<1>1. U \in Nat /\ Len(s) \in Nat
  OBVIOUS
<1>2. rest \in Seq(STRING) /\ Len(rest) = n /\ \A i \in 1 .. n : rest[i] = s[c + i]
  <2>1. \A i \in c + 1 .. c + n : s[i] \in STRING
    BY <1>1
  <2>2. \A i \in Int : (c + 1) + i - 1 = c + i
    OBVIOUS
  <2>3. (c + n) - (c + 1) + 1 = n /\ (n = 0 \/ c + 1 <= c + n)
    OBVIOUS
  <2>4. c + 1 \in Int /\ c + n \in Int
    OBVIOUS
  <2>5. /\ rest \in Seq(STRING)
        /\ Len(rest) = IF c + 1 <= c + n THEN (c + n) - (c + 1) + 1 ELSE 0
        /\ \A i \in 1 .. (c + n) - (c + 1) + 1 : rest[i] = s[(c + 1) + i - 1]
    BY <2>1, <2>4, SubSeqProperties
  <2> HIDE DEF rest
  <2> QED BY <2>2, <2>3, <2>5
<1> HIDE DEF rest
<1>3. /\ a \in Seq(STRING) /\ Len(a) = U + n
      /\ \A i \in 1 .. U + n : a[i] = IF i <= U THEN u[i] ELSE rest[i - U]
  BY <1>2, ConcatProperties
<1> HIDE DEF a
<1>4. ASSUME NEW i \in 1 .. Len(a) PROVE a[i] = s[C + i]
  <2>1. i \in 1 .. U + n
    BY <1>3
  <2>2. CASE i <= U
    <3>1. i \in 1 .. U
      BY <2>1, <2>2
    <3>2. u[i] = s[C + i]
      BY <3>1 DEF Follows
    <3> QED BY <1>3, <2>1, <2>2, <3>2
  <2>3. CASE ~(i <= U)
    <3>1. C = c - U
      OBVIOUS
    <3>2. i \in Int /\ U < i /\ i <= U + n
      <4> HIDE DEF U
      <4> QED BY <1>1, <2>1, <2>3
    <3>3. i - U \in 1 .. n /\ c + (i - U) = C + i
      <4>1. c \in Int /\ n \in Int /\ U \in Int
        BY <1>1
      <4>2. i - U \in 1 .. n /\ c + (i - U) = (c - U) + i
        <5> HIDE DEF U
        <5> QED BY <3>2, <4>1, Shift, Zenon
      <4> QED BY <3>1, <4>2
    <3> HIDE DEF U
    <3> QED BY <1>2, <1>3, <2>1, <2>3, <3>3
  <2> QED BY <2>2, <2>3
<1> QED BY <1>3, <1>4 DEF a, rest, U, Follows

(* A whole read.                                                           *)
LEMMA ReadAll ==
  ASSUME NEW k, ConnInv(k), k.net = "open",
         NEW n \in 1 .. Len(k.script) - k.arrived,
         NEW parts, parts = Taken(k.unread \o
                        SubSeq(k.script, k.arrived + 1, k.arrived + n)),
         NEW new, new = Reading([k EXCEPT !.arrived = @ + n, !.unread = parts[2]],
                                parts[1])[Len(parts[1])]
  PROVE  /\ ConnInv(new)
         /\ new.net # "none"
         /\ Len(k.commands) <= Len(new.commands)
         /\ new.net # "open" =>
              \E j \in Len(k.commands) + 1 .. Len(new.commands) :
                new.commands[j] = Quit
<1> DEFINE s == k.script
           c == k.arrived
           C == Consumed(k)
           a == k.unread \o SubSeq(s, c + 1, c + n)
           old == [k EXCEPT !.arrived = @ + n, !.unread = parts[2]]
           one == parts[1]
           two == parts[2]
           m == Len(one)
           R == Reading(old, one)
<1>1. /\ k \in Connections /\ s \in Seq(STRING) /\ c \in Nat
      /\ k.unread \in Seq(STRING) /\ Len(s) \in Nat /\ Len(k.unread) \in Nat
      /\ Len(k.unread) <= c /\ c + n <= Len(s)
      /\ C = c - Len(k.unread) /\ C \in Nat
      /\ n \in Nat
  BY Fields DEF ConnInv, Arrived, Consumed
<1>2. parts = Taken(a)
  OBVIOUS
<1>3. Follows(k.unread, s, C)
  BY DEF ConnInv, Arrived
<1> HIDE DEF C, s, c
<1>4. /\ a \in Seq(STRING) /\ Len(a) = Len(k.unread) + n
      /\ Follows(a, s, C)
  <2> DEFINE u == k.unread
             b == u \o SubSeq(s, c + 1, c + n)
  <2>1. u \in Seq(STRING) /\ Len(u) <= c /\ C = c - Len(u) /\ Follows(u, s, C)
        /\ s \in Seq(STRING) /\ c \in Nat /\ n \in Nat /\ c + n <= Len(s)
    BY <1>1, <1>3
  <2>2. a = b
    OBVIOUS
  <2>3. Follows(u, s, c - Len(u))
    BY <2>1
  <2> HIDE DEF u, a
  <2>4. b \in Seq(STRING) /\ Len(b) = Len(u) + n /\ Follows(b, s, c - Len(u))
    BY <2>1, <2>3, NextPart, Zenon
  <2> HIDE DEF b
  <2> QED BY <2>1, <2>2, <2>4 DEF u
<1> HIDE DEF a
<1>5. /\ one \in Seq(STRING) /\ two \in Seq(STRING)
      /\ m \in Nat /\ Len(two) \in Nat
      /\ m + Len(two) = Len(a)
      /\ Follows(one, a, 0) /\ Follows(two, a, m)
  <2>1. /\ parts[1] \in Seq(STRING) /\ parts[2] \in Seq(STRING)
        /\ Len(parts[1]) + Len(parts[2]) = Len(a)
        /\ Follows(parts[1], a, 0) /\ Follows(parts[2], a, Len(parts[1]))
    BY <1>2, <1>4, TakenParts, Zenon
  <2>2. Len(parts[1]) \in Nat /\ Len(parts[2]) \in Nat
    BY <2>1
  <2> QED BY <2>1, <2>2, Zenon
<1> DEFINE L == Len(two)
           la == Len(a)
           ls == Len(s)
<1>num. /\ m \in Nat /\ L \in Nat /\ C \in Nat /\ la \in Nat /\ ls \in Nat
        /\ c \in Nat /\ n \in Nat /\ la = m + L /\ C + la = c + n
        /\ c + n <= ls
  <2>1. m + L = la /\ m \in Nat /\ L \in Nat
    BY <1>5
  <2> DEFINE lu == Len(k.unread)
  <2>2. lu \in Nat /\ la = lu + n /\ C = c - lu /\ c + n <= ls /\ lu <= c
        /\ c \in Nat /\ n \in Nat /\ ls \in Nat
    BY <1>1, <1>4
  <2> HIDE DEF m, L, la, ls, lu
  <2> QED BY <2>1, <2>2
<1>6. ASSUME NEW i \in 1 .. m PROVE one[i] = s[C + i] /\ one[i] \in STRING
  <2>1. one[i] \in STRING /\ one[i] = a[i]
    <3> HIDE DEF one
    <3> QED BY <1>5 DEF Follows
  <2>2. i \in 1 .. la
    <3> HIDE DEF m, L, la, ls
    <3> QED BY <1>num
  <2> HIDE DEF m, one
  <2> QED BY <1>4, <2>1, <2>2 DEF Follows
<1>7. ASSUME NEW i \in 1 .. L PROVE two[i] = s[(C + m) + i]
  <2>1. two[i] = a[m + i]
    <3> HIDE DEF one, two
    <3> QED BY <1>5 DEF Follows
  <2>2. m + i \in 1 .. la /\ C + (m + i) = (C + m) + i
    <3> HIDE DEF m, L, la, ls
    <3> QED BY <1>num
  <2> HIDE DEF m, two
  <2> QED BY <1>4, <2>1, <2>2 DEF Follows
<1>8. /\ old \in Connections
      /\ old.script = s /\ old.arrived = c + n /\ old.unread = two
      /\ old.commands = k.commands /\ old.buffer = k.buffer
      /\ old.net = k.net /\ old.answers = k.answers
  <2>1. c + n \in Nat
    BY <1>num
  <2> HIDE DEF m, two, one
  <2>2. old \in Connections
    BY <1>1, <1>5, <2>1 DEF Connections, c, two
  <2> QED BY <1>1, <1>5, <2>1 DEF Connections, s, c, two
<1>9. Upto(old, C) /\ Answering(old)
  BY <1>8 DEF ConnInv, Upto, Answering, C, s
<1>10. Recurs(R, Connections, old, m, [i \in 1 .. m |-> [x \in Connections |->
                   Consume(x, one[i])]])
  BY <1>5, <1>8, ReadingValue
<1>11. /\ R[0] = old /\ \A i \in 0 .. m : R[i] \in Connections
       /\ \A i \in 1 .. m : R[i] = Consume(R[i - 1], one[i])
  <2>1. R[0] = old /\ R \in [0 .. m -> Connections]
    BY <1>10 DEF Recurs
  <2>2. ASSUME NEW i \in 1 .. m PROVE R[i] = Consume(R[i - 1], one[i])
    <3>1. R[i - 1] \in Connections
      <4>1. i - 1 \in 0 .. m
        BY <1>5
      <4> HIDE DEF R, m
      <4> QED BY <2>1, <4>1
    <3> HIDE DEF R, old
    <3> QED BY <1>10, <3>1 DEF Recurs
  <2> HIDE DEF R, m, old
  <2> QED BY <2>1, <2>2
<1> HIDE DEF R, old
<1>12. R[m] \in Connections /\ Reads(old, R[m]) /\ Upto(R[m], C + m)
  <2> DEFINE T == {i \in 0 .. m : Reads(old, R[i]) /\ Upto(R[i], C + i)}
  <2>1. 0 \in T
    BY <1>1, <1>5, <1>8, <1>9, <1>11, ReadsFirst
  <2>2. ASSUME NEW i \in 0 .. m - 1, i \in T PROVE i + 1 \in T
    <3>1. i \in 0 .. m /\ i + 1 \in 1 .. m /\ (i + 1) - 1 = i /\ i + 1 \in 0 .. m
      BY <1>5
    <3>2. /\ R[i + 1] = Consume(R[i], one[i + 1])
          /\ one[i + 1] = s[C + (i + 1)] /\ one[i + 1] \in STRING
          /\ R[i] \in Connections
      BY <1>6, <1>11, <3>1
    <3>3. Reads(old, R[i]) /\ Upto(R[i], C + i) /\ R[i].script = s
      BY <1>8, <2>2 DEF Reads
    <3>4. Reads(old, R[i + 1])
      BY <1>8, <3>2, <3>3, ReadsStep
    <3>5. C + i \in 0 .. Len(R[i].script) - 1 /\ (C + i) + 1 = C + (i + 1)
      <4>1. Len(R[i].script) = ls
        BY <3>3
      <4>2. i \in Int /\ 0 <= i /\ i <= m - 1 /\ C + m <= ls /\ m \in Int
            /\ ls \in Int /\ C \in Nat
        <5> HIDE DEF m, L, la, ls, T
        <5> QED BY <1>num
      <4> HIDE DEF m, ls
      <4> QED BY <4>1, <4>2, Within
    <3>6. Upto(R[i + 1], C + (i + 1))
      BY <3>2, <3>3, <3>5, UptoStep
    <3> QED BY <3>1, <3>4, <3>6
  <2>3. m \in 0 .. m
    BY <1>5
  <2>4. m \in T
    <3> HIDE DEF T, m
    <3> QED BY <1>5, <2>1, <2>2, <2>3, Induct
  <2> QED BY <1>11, <2>3, <2>4
<1>13. new = R[m]
  BY DEF R, old
<1>14. /\ new.script = s /\ new.arrived = c + n /\ new.unread = two
       /\ Consumed(new) = C + m
  <2>1. new.script = s /\ new.arrived = c + n /\ new.unread = two
    BY <1>8, <1>12, <1>13 DEF Reads
  <2>2. Consumed(new) = (c + n) - L
    BY <2>1 DEF Consumed
  <2>3. (c + n) - L = C + m
    <3> HIDE DEF m, L, la, ls
    <3> QED BY <1>num
  <2> QED BY <2>1, <2>2, <2>3
<1>15. Arrived(new)
  <2>1. L <= c + n
    <3> HIDE DEF m, L, la, ls
    <3> QED BY <1>num
  <2>2. c + n <= ls
    BY <1>num
  <2>3. Follows(two, s, C + m)
    BY <1>7 DEF Follows
  <2> HIDE DEF m, two
  <2> QED BY <1>14, <2>1, <2>2, <2>3 DEF Arrived
<1>16. Answering(new)
  BY <1>12, <1>13 DEF Reads, Answering
<1> QED BY <1>8, <1>12, <1>13, <1>14, <1>15, <1>16 DEF ConnInv, Reads

-----------------------------------------------------------------------------
(* The connections; slots and mappers; the timer.                          *)
ConnsInv == conn \in [Sockets -> Connections] /\ \A c \in Sockets : ConnInv(conn[c])

Held ==
  \A c \in Sockets :
    IF conn[c].net = "none" THEN mapped[c] = 0
    ELSE mapped[c] \in 1 .. Len(slots) /\ slots[mapped[c]] = c

Owned ==
  \A id \in 1 .. Len(slots) : slots[id] # NoSocket => mapped[slots[id]] = id

SlotsInv ==
  /\ slots \in Seq(Sockets \cup {NoSocket})
  /\ mapped \in [Sockets -> Nat]
  /\ Held
  /\ Owned

TimerInv == timer \in 0 .. DropTicks /\ GarbageTimed

IndInv == ConnsInv /\ SlotsInv /\ TimerInv

-----------------------------------------------------------------------------
(* A connection that has just been accepted, or is gone.                   *)
LEMMA FreshConn ==
  ASSUME NEW k \in Connections, k.arrived = 0, k.unread = <<>>, k.buffer = <<>>,
         k.commands = <<>>, k.answers = 0
  PROVE  ConnInv(k)
<1>1. k.script \in Seq(STRING) /\ Len(k.script) \in Nat
  BY Fields
<1>2. Consumed(k) = 0 /\ Arrived(k)
  <2>1. Len(k.unread) = 0 /\ Follows(k.unread, k.script, 0)
    BY DEF Follows
  <2> DEFINE n == Len(k.unread)
  <2>2. Consumed(k) = 0 - n
    BY DEF Consumed
  <2>3. n = 0
    BY <2>1
  <2> HIDE DEF n
  <2>4. Consumed(k) = 0
    BY <2>2, <2>3
  <2> QED BY <1>1, <2>1, <2>4 DEF Arrived
<1>3. Upto(k, 0)
  <2>1. 0 \in 0 .. Len(k.script)
    BY <1>1
  <2>2. Sent(k.script)[0] = <<>>
    BY <1>1, SentValue
  <2>3. LastDelimiter(k.script, 0) = 0
    BY <1>1, <2>1, LastDelimiterFound
  <2>4. Bare(k.script, 0)[0] = <<>>
    BY <1>1, <2>1, BareValue
  <2> QED BY <2>1, <2>2, <2>3, <2>4 DEF Upto
<1>4. Answering(k)
  <2>1. Questions(<<>>) = {} /\ ~HasQuit(<<>>)
    BY DEF Questions, HasQuit
  <2> QED BY <2>1, FS_EmptySet DEF Answering
<1> QED BY <1>2, <1>3, <1>4 DEF ConnInv

LEMMA GoneConn ==
  /\ Gone \in Connections /\ ConnInv(Gone) /\ Gone.net = "none"
  /\ \A script \in Scripts :
       LET k == [Gone EXCEPT !.net = "open", !.script = script]
       IN  k \in Connections /\ ConnInv(k) /\ k.net = "open"
<1>1. <<>> \in Seq(STRING) /\ <<>> \in Seq(KnownCommands)
  OBVIOUS
<1>2. /\ Gone \in Connections /\ Gone.arrived = 0 /\ Gone.unread = <<>>
      /\ Gone.buffer = <<>> /\ Gone.commands = <<>> /\ Gone.answers = 0
      /\ Gone.net = "none"
  BY <1>1 DEF Gone, Connections
<1>3. ASSUME NEW script \in Scripts,
             NEW k, k = [Gone EXCEPT !.net = "open", !.script = script]
      PROVE  k \in Connections /\ ConnInv(k) /\ k.net = "open"
  <2>1. /\ k \in Connections /\ k.arrived = 0 /\ k.unread = <<>>
        /\ k.buffer = <<>> /\ k.commands = <<>> /\ k.answers = 0
        /\ k.net = "open"
    BY <1>1, <1>3 DEF Gone, Connections
  <2> QED BY <2>1, FreshConn
<1> QED BY <1>2, <1>3, FreshConn

(* Nothing but what was read and answered matters of a connection, and     *)
(* that it is not opened again.                                            *)
LEMMA KeptConn ==
  ASSUME NEW old, ConnInv(old), NEW k \in Connections,
         k.script = old.script, k.arrived = old.arrived, k.unread = old.unread,
         k.buffer = old.buffer, k.commands = old.commands,
         k.answers = old.answers, k.net = "open" => old.net = "open"
  PROVE  ConnInv(k)
BY DEF ConnInv, Arrived, Consumed, Upto, Answering

LEMMA WrittenConn ==
  ASSUME NEW k, ConnInv(k)
  PROVE  ConnInv(Written(k)) /\ Written(k).net = k.net
<1>1. k \in Connections
  BY DEF ConnInv
<1> DEFINE new == Written(k)
<1>2. /\ new \in Connections /\ new.script = k.script /\ new.arrived = k.arrived
      /\ new.unread = k.unread /\ new.buffer = k.buffer
      /\ new.commands = k.commands /\ new.answers = k.answers /\ new.net = k.net
  BY <1>1 DEF Written, Connections
<1> HIDE DEF new
<1>3. ConnInv(new)
  BY <1>2, KeptConn
<1> QED BY <1>2, <1>3 DEF new

LEMMA ClosedConn ==
  ASSUME NEW k, ConnInv(k), NEW new,
         \/ new = [k EXCEPT !.net = "closed", !.unsent = FALSE]
         \/ new = [k EXCEPT !.unsent = FALSE]
  PROVE  ConnInv(new) /\ new.net \in {k.net, "closed"}
<1>1. k \in Connections
  BY DEF ConnInv
<1>2. /\ new \in Connections /\ new.script = k.script /\ new.arrived = k.arrived
      /\ new.unread = k.unread /\ new.buffer = k.buffer
      /\ new.commands = k.commands /\ new.answers = k.answers
      /\ new.net \in {k.net, "closed"}
  BY <1>1 DEF Connections
<1>3. ConnInv(new)
  BY <1>2, KeptConn
<1> QED BY <1>2, <1>3

(* Only what is read since the last time may start the timer.              *)
LEMMA TimerAfterRead ==
  ASSUME NEW k \in Connections, NEW new \in Connections, timer \in 0 .. DropTicks,
         Len(k.commands) <= Len(new.commands)
  PROVE  /\ TimerAfter(k, new) \in 0 .. DropTicks
         /\ timer > 0 => TimerAfter(k, new) > 0
         /\ (\E j \in Len(k.commands) + 1 .. Len(new.commands) :
               new.commands[j] = Quit) => TimerAfter(k, new) > 0
<1> DEFINE a == Len(k.commands)
           b == Len(new.commands)
           fresh == SubSeq(new.commands, a + 1, b)
<1>1. a \in Nat /\ b \in Nat /\ new.commands \in Seq(KnownCommands)
  BY Fields
<1>2. \A i \in a + 1 .. b : new.commands[i] \in KnownCommands
  <2> HIDE DEF a
  <2> QED BY <1>1
<1>3. CloseTicks \in 0 .. DropTicks /\ CloseTicks > 0
  BY SizesAssumption
<1>4. TimerAfter(k, new) = IF Quit \in Range(fresh) THEN CloseTicks ELSE timer
  BY DEF TimerAfter
<1>5. ASSUME NEW j \in a + 1 .. b, new.commands[j] = Quit
      PROVE  Quit \in Range(fresh)
  <2> DEFINE q == new.commands
  <2> HIDE DEF a, b, q
  <2>0. q \in Seq(KnownCommands) /\ a \in Nat /\ b \in Nat
    BY <1>1 DEF q
  <2>1. /\ SubSeq(q, a + 1, b) \in Seq(KnownCommands)
        /\ Len(SubSeq(q, a + 1, b)) = b - (a + 1) + 1
        /\ \A i \in 1 .. b - (a + 1) + 1 : SubSeq(q, a + 1, b)[i] = q[(a + 1) + i - 1]
    <3>1. \A i \in a + 1 .. b : q[i] \in KnownCommands
      BY <1>2 DEF q
    <3>2. a + 1 \in Int /\ b \in Int /\ a + 1 <= b
      BY <1>1
    <3> QED BY <3>1, <3>2, SubSeqProperties
  <2>2. j - a \in 1 .. b - (a + 1) + 1 /\ (a + 1) + (j - a) - 1 = j
    BY <1>1
  <2> DEFINE f == SubSeq(q, a + 1, b)
  <2>3. fresh = f
    BY DEF q
  <2>4. f[j - a] = q[(a + 1) + (j - a) - 1]
    BY <2>1, <2>2
  <2>5. q[j] = Quit
    BY <1>5 DEF q
  <2>6. f[j - a] = Quit
    BY <2>2, <2>4, <2>5
  <2>7. DOMAIN f = 1 .. b - (a + 1) + 1
    BY <2>1
  <2> HIDE DEF f, fresh
  <2> QED BY <2>2, <2>3, <2>6, <2>7 DEF Range
<1> HIDE DEF fresh
<1> QED BY <1>3, <1>4, <1>5

-----------------------------------------------------------------------------
(* The first free slot, or one past the last.                              *)
LEMMA FreeSlotIs ==
  ASSUME slots \in Seq(Sockets \cup {NoSocket})
  PROVE  \/ FreeSlot \in 1 .. Len(slots) /\ slots[FreeSlot] = NoSocket
         \/ /\ FreeSlot = Len(slots) + 1
            /\ \A id \in 1 .. Len(slots) : slots[id] # NoSocket
<1> DEFINE free == {id \in 1 .. Len(slots) : slots[id] = NoSocket}
<1>1. Len(slots) \in Nat
  OBVIOUS
<1>2. CASE free = {}
  BY <1>2 DEF FreeSlot
<1>3. CASE free # {}
  <2>1. free \subseteq Nat
    BY <1>1
  <2>2. \E id \in free : \A f \in free : id <= f
    <3> HIDE DEF free
    <3> QED BY <1>3, <2>1, Least
  <2>3. FreeSlot = CHOOSE id \in free : \A f \in free : id <= f
    BY <1>3 DEF FreeSlot
  <2>4. FreeSlot \in free
    <3> HIDE DEF free
    <3> QED BY <2>2, <2>3
  <2> QED BY <2>4
<1> QED BY <1>2, <1>3

LEMMA Replaced ==
  ASSUME NEW S, NEW s \in Seq(S), NEW n \in 1 .. Len(s), NEW e \in S
  PROVE  /\ [s EXCEPT ![n] = e] \in Seq(S)
         /\ Len([s EXCEPT ![n] = e]) = Len(s)
         /\ \A i \in 1 .. Len(s) :
              [s EXCEPT ![n] = e][i] = IF i = n THEN e ELSE s[i]
BY ExceptSeq

LEMMA SlotsNew ==
  ASSUME SlotsInv, NEW c \in Sockets, conn[c].net = "none",
         mapped' = [mapped EXCEPT ![c] = FreeSlot],
         slots' = IF FreeSlot > Len(slots) THEN Append(slots, c)
                                           ELSE [slots EXCEPT ![FreeSlot] = c],
         conn'[c].net # "none",
         \A d \in Sockets \ {c} : conn'[d] = conn[d]
  PROVE  SlotsInv'
<1> DEFINE S == Sockets \cup {NoSocket}
           id == FreeSlot
           N == Len(slots)
<1>1. /\ slots \in Seq(S) /\ N \in Nat /\ mapped \in [Sockets -> Nat]
      /\ c \in S /\ c # NoSocket /\ mapped[c] = 0
      /\ \A i \in 1 .. N : slots[i] \in S
  BY SocketsAssumption DEF SlotsInv, Held
<1>2. \/ id \in 1 .. N /\ slots[id] = NoSocket
      \/ id = N + 1 /\ \A i \in 1 .. N : slots[i] # NoSocket
  BY FreeSlotIs DEF SlotsInv
<1>3. id \in Nat \ {0}
  BY <1>1, <1>2
<1>4. /\ slots' \in Seq(S) /\ Len(slots') \in Nat /\ N <= Len(slots')
      /\ id \in 1 .. Len(slots') /\ slots'[id] = c
      /\ \A i \in 1 .. Len(slots') : i # id => i \in 1 .. N /\ slots'[i] = slots[i]
      /\ \A i \in 1 .. N : i # id => slots'[i] = slots[i]
      /\ Len(slots') = N \/ (id = N + 1 /\ Len(slots') = N + 1)
  <2> HIDE DEF id, S
  <2>1. CASE id \in 1 .. N
    <3>1. slots' = [slots EXCEPT ![id] = c]
      BY <1>1, <2>1 DEF id
    <3> DEFINE new == [slots EXCEPT ![id] = c]
    <3>2. /\ new \in Seq(S) /\ Len(new) = Len(slots)
          /\ \A i \in 1 .. Len(slots) : new[i] = IF i = id THEN c ELSE slots[i]
      <4>1. slots \in Seq(S) /\ id \in 1 .. Len(slots) /\ c \in S
        BY <1>1, <2>1
      <4> HIDE DEF N
      <4> QED BY <4>1, Replaced
    <3>3. /\ slots' \in Seq(S) /\ Len(slots') = N
          /\ \A i \in 1 .. N : slots'[i] = IF i = id THEN c ELSE slots[i]
      BY <3>1, <3>2
    <3> HIDE DEF N, new
    <3> QED BY <1>1, <2>1, <3>3
  <2>2. CASE id = N + 1
    <3>1. slots' = Append(slots, c)
      BY <1>1, <2>2 DEF id
    <3>2. /\ slots' \in Seq(S) /\ Len(slots') = N + 1 /\ slots'[N + 1] = c
          /\ \A i \in 1 .. N : slots'[i] = slots[i]
      BY <1>1, <3>1, AppendProperties
    <3> HIDE DEF N
    <3> QED BY <1>1, <2>2, <3>2
  <2> QED BY <1>2, <2>1, <2>2
<1>5. /\ mapped' \in [Sockets -> Nat] /\ mapped'[c] = id
      /\ \A d \in Sockets \ {c} : mapped'[d] = mapped[d]
  BY <1>1, <1>3
<1> HIDE DEF id, N, S
<1>6. Held'
  <2> SUFFICES ASSUME NEW d \in Sockets
               PROVE  IF conn'[d].net = "none" THEN mapped'[d] = 0
                      ELSE mapped'[d] \in 1 .. Len(slots') /\ slots'[mapped'[d]] = d
    BY DEF Held
  <2>1. CASE d = c
    BY <1>4, <1>5, <2>1
  <2>2. CASE d # c /\ conn[d].net = "none"
    BY <1>5, <2>2 DEF SlotsInv, Held
  <2>3. CASE d # c /\ conn[d].net # "none"
    <3>1. mapped[d] \in 1 .. N /\ slots[mapped[d]] = d
      BY <2>3 DEF SlotsInv, Held, N
    <3>2. mapped[d] # id
      BY <1>1, <1>2, <3>1, SocketsAssumption
    <3> QED BY <1>1, <1>4, <1>5, <2>3, <3>1, <3>2
  <2> QED BY <2>1, <2>2, <2>3
<1>7. Owned'
  <2> SUFFICES ASSUME NEW i \in 1 .. Len(slots'), slots'[i] # NoSocket
               PROVE  mapped'[slots'[i]] = i
    BY DEF Owned
  <2>1. CASE i = id
    BY <1>4, <1>5, <2>1
  <2>2. CASE i # id
    <3>1. i \in 1 .. N /\ slots'[i] = slots[i] /\ slots[i] \in Sockets
      BY <1>1, <1>4, <2>2 DEF S
    <3>2. mapped[slots[i]] = i
      BY <3>1, <2>2 DEF SlotsInv, Owned, N
    <3>3. slots[i] # c
      BY <1>1, <3>1, <3>2
    <3> QED BY <1>5, <3>1, <3>2, <3>3
  <2> QED BY <2>1, <2>2
<1>8. slots' \in Seq(Sockets \cup {NoSocket})
  BY <1>4 DEF S
<1> QED BY <1>5, <1>6, <1>7, <1>8 DEF SlotsInv

LEMMA SlotsKept ==
  ASSUME SlotsInv, UNCHANGED <<slots, mapped>>,
         \A c \in Sockets : conn'[c].net = "none" <=> conn[c].net = "none"
  PROVE  SlotsInv'
BY DEF SlotsInv, Held, Owned

(* A pass of the garbage collection takes every client that is not open    *)
(* out of its slot, and leaves the others in theirs.                       *)
LEMMA GarbageIs ==
  ASSUME IndInv
  PROVE  \A c \in Sockets : c \in Garbage <=> conn[c].net \in {"closing", "closed"}
<1> SUFFICES ASSUME NEW c \in Sockets
             PROVE  c \in Garbage <=> conn[c].net \in {"closing", "closed"}
  OBVIOUS
<1>1. conn[c].net \in {"none", "open", "closing", "closed"}
  BY DEF IndInv, ConnsInv, Connections
<1>2. conn[c].net = "none" => mapped[c] = 0
  BY DEF IndInv, SlotsInv, Held
<1>3. conn[c].net # "none" => mapped[c] # 0
  BY DEF IndInv, SlotsInv, Held
<1> QED BY <1>1, <1>2, <1>3, SocketsAssumption DEF Garbage, IsConnected

LEMMA CollectGarbageStep ==
  ASSUME IndInv, CollectGarbage
  PROVE  IndInv'
<1> DEFINE S == Sockets \cup {NoSocket}
           N == Len(slots)
           g == Garbage
<1>1. /\ slots \in Seq(S) /\ N \in Nat /\ DOMAIN slots = 1 .. N
      /\ \A id \in 1 .. N : slots[id] \in S
  BY DEF IndInv, SlotsInv
<1>2. \A c \in Sockets : c \in g <=> conn[c].net \in {"closing", "closed"}
  BY GarbageIs
<1>3. NoSocket \notin g
  BY SocketsAssumption DEF Garbage
<1>4. \A c \in Sockets : conn'[c] = IF c \in g THEN Gone ELSE conn[c]
  BY DEF CollectGarbage
<1>5. \A c \in Sockets : mapped'[c] = IF c \in g THEN 0 ELSE mapped[c]
  BY DEF CollectGarbage
<1>6. /\ slots' \in Seq(S) /\ Len(slots') = N
      /\ \A id \in 1 .. N :
           slots'[id] = IF slots[id] \in g THEN NoSocket ELSE slots[id]
  <2> HIDE DEF g
  <2>1. slots' = [id \in 1 .. N |-> IF slots[id] \in g THEN NoSocket ELSE slots[id]]
    BY <1>1 DEF CollectGarbage, g
  <2>2. \A id \in 1 .. N : (IF slots[id] \in g THEN NoSocket ELSE slots[id]) \in S
    BY <1>1
  <2> HIDE DEF N, S
  <2> QED BY <1>1, <2>1, <2>2
<1>7. ConnsInv'
  <2>1. conn' \in [Sockets -> Connections]
    BY GoneConn DEF CollectGarbage, IndInv, ConnsInv
  <2>2. \A c \in Sockets : ConnInv(conn'[c])
    <3> HIDE DEF g
    <3> QED BY <1>4, GoneConn DEF IndInv, ConnsInv
  <2> QED BY <2>1, <2>2 DEF ConnsInv
<1>8. Held'
  <2> SUFFICES ASSUME NEW c \in Sockets
               PROVE  IF conn'[c].net = "none" THEN mapped'[c] = 0
                      ELSE mapped'[c] \in 1 .. Len(slots') /\ slots'[mapped'[c]] = c
    BY DEF Held
  <2> HIDE DEF g, N, S
  <2>1. CASE c \in g
    BY <1>4, <1>5, <2>1, GoneConn
  <2>2. CASE c \notin g /\ conn[c].net = "none"
    BY <1>4, <1>5, <2>2 DEF IndInv, SlotsInv, Held
  <2>3. CASE c \notin g /\ conn[c].net # "none"
    <3>1. mapped[c] \in 1 .. N /\ slots[mapped[c]] = c
      BY <2>3 DEF IndInv, SlotsInv, Held, N
    <3>2. mapped'[c] = mapped[c] /\ conn'[c] = conn[c]
      BY <1>4, <1>5, <2>3
    <3> QED BY <1>6, <2>3, <3>1, <3>2
  <2> QED BY <2>1, <2>2, <2>3
<1>9. Owned'
  <2> SUFFICES ASSUME NEW id \in 1 .. Len(slots'), slots'[id] # NoSocket
               PROVE  mapped'[slots'[id]] = id
    BY DEF Owned
  <2> HIDE DEF g, N
  <2>1. id \in 1 .. N /\ slots[id] \notin g /\ slots'[id] = slots[id]
    BY <1>6
  <2>2. slots[id] \in Sockets
    BY <1>1, <2>1
  <2>3. mapped[slots[id]] = id
    BY <2>1, <2>2 DEF IndInv, SlotsInv, Owned, N
  <2> QED BY <1>5, <2>1, <2>2, <2>3
<1>10. mapped' \in [Sockets -> Nat]
  BY DEF CollectGarbage, IndInv, SlotsInv
<1>11. TimerInv'
  <2>1. timer' \in 0 .. DropTicks
    BY SizesAssumption DEF CollectGarbage
  <2>2. \A c \in Sockets : conn'[c].net \notin {"closing", "closed"}
    <3> HIDE DEF g
    <3> QED BY <1>2, <1>4, GoneConn
  <2> QED BY <2>1, <2>2 DEF TimerInv, GarbageTimed
<1> QED BY <1>6, <1>7, <1>8, <1>9, <1>10, <1>11 DEF IndInv, SlotsInv

LEMMA NewConnectionStep ==
  ASSUME IndInv, NEW c \in Sockets, NewConnection(c)
  PROVE  IndInv'
<1>1. PICK script \in Scripts :
        conn' = [conn EXCEPT ![c] = [Gone EXCEPT !.net = "open",
                                                 !.script = script]]
  BY DEF NewConnection
<1> DEFINE k == [Gone EXCEPT !.net = "open", !.script = script]
<1>2. k \in Connections /\ ConnInv(k) /\ k.net = "open"
  BY GoneConn
<1> HIDE DEF k
<1>3. conn \in [Sockets -> Connections] /\ conn' = [conn EXCEPT ![c] = k]
  BY <1>1 DEF IndInv, ConnsInv, k
<1>4. /\ conn' \in [Sockets -> Connections] /\ conn'[c] = k
      /\ \A d \in Sockets \ {c} : conn'[d] = conn[d]
  BY <1>2, <1>3
<1>5. ConnsInv'
  BY <1>2, <1>4 DEF IndInv, ConnsInv
<1>6. SlotsInv'
  <2>1. SlotsInv /\ conn[c].net = "none" /\ conn'[c].net # "none"
    BY <1>2, <1>4 DEF IndInv, NewConnection
  <2> QED BY <1>4, <2>1, SlotsNew DEF NewConnection
<1>7. TimerInv'
  BY <1>2, <1>4 DEF IndInv, TimerInv, GarbageTimed, NewConnection
<1> QED BY <1>5, <1>6, <1>7 DEF IndInv

(* What a read does, to the connection and to the timer.                   *)
LEMMA ReadyReadIs ==
  ASSUME IndInv, NEW c \in Sockets, ReadyRead(c)
  PROVE  \E new :
           /\ conn' = [conn EXCEPT ![c] = new]
           /\ timer' = TimerAfter(conn[c], new)
           /\ ConnInv(new) /\ new.net # "none"
           /\ Len(conn[c].commands) <= Len(new.commands)
           /\ new.net # "open" =>
                \E j \in Len(conn[c].commands) + 1 .. Len(new.commands) :
                  new.commands[j] = Quit
<1> DEFINE k == conn[c]
<1>1. ConnInv(k) /\ k.net = "open"
  BY DEF IndInv, ConnsInv, ReadyRead
<1>2. PICK n \in 1 .. Len(k.script) - k.arrived :
        LET parts == Taken(k.unread \o
                           SubSeq(k.script, k.arrived + 1, k.arrived + n))
            new == Reading([k EXCEPT !.arrived = @ + n, !.unread = parts[2]],
                           parts[1])[Len(parts[1])]
        IN  /\ conn' = [conn EXCEPT ![c] = new]
            /\ timer' = TimerAfter(k, new)
  BY DEF ReadyRead
<1> DEFINE parts == Taken(k.unread \o
                          SubSeq(k.script, k.arrived + 1, k.arrived + n))
           new == Reading([k EXCEPT !.arrived = @ + n, !.unread = parts[2]],
                          parts[1])[Len(parts[1])]
<1>3. conn' = [conn EXCEPT ![c] = new] /\ timer' = TimerAfter(k, new)
  BY <1>2
<1>4. /\ ConnInv(new) /\ new.net # "none"
      /\ Len(k.commands) <= Len(new.commands)
      /\ new.net # "open" =>
           \E j \in Len(k.commands) + 1 .. Len(new.commands) :
             new.commands[j] = Quit
  <2> HIDE DEF k
  <2> QED BY <1>1, ReadAll
<1> HIDE DEF new
<1> QED BY <1>3, <1>4

LEMMA ReadyReadStep ==
  ASSUME IndInv, NEW c \in Sockets, ReadyRead(c)
  PROVE  IndInv'
<1>1. PICK new :
        /\ conn' = [conn EXCEPT ![c] = new]
        /\ timer' = TimerAfter(conn[c], new)
        /\ ConnInv(new) /\ new.net # "none"
        /\ Len(conn[c].commands) <= Len(new.commands)
        /\ new.net # "open" =>
             \E j \in Len(conn[c].commands) + 1 .. Len(new.commands) :
               new.commands[j] = Quit
  BY ReadyReadIs
<1>2. new \in Connections /\ conn \in [Sockets -> Connections]
  BY <1>1 DEF IndInv, ConnsInv, ConnInv
<1>3. /\ conn' \in [Sockets -> Connections] /\ conn'[c] = new
      /\ \A d \in Sockets \ {c} : conn'[d] = conn[d]
  BY <1>1, <1>2
<1>4. ConnsInv'
  BY <1>1, <1>3 DEF IndInv, ConnsInv
<1>5. SlotsInv'
  <2>1. \A d \in Sockets : conn'[d].net = "none" <=> conn[d].net = "none"
    BY <1>1, <1>3 DEF ReadyRead
  <2>2. SlotsInv /\ UNCHANGED <<slots, mapped>>
    BY DEF IndInv, ReadyRead
  <2> QED BY <2>1, <2>2, SlotsKept
<1>6. TimerInv'
  <2>1. /\ timer' \in 0 .. DropTicks
        /\ timer > 0 => timer' > 0
        /\ new.net # "open" => timer' > 0
    <3>1. timer \in 0 .. DropTicks /\ conn[c] \in Connections
      BY <1>2 DEF IndInv, TimerInv
    <3> QED BY <1>1, <1>2, <3>1, TimerAfterRead
  <2> QED BY <1>3, <2>1 DEF IndInv, TimerInv, GarbageTimed
<1> QED BY <1>4, <1>5, <1>6 DEF IndInv

LEMMA BroadcastStep ==
  ASSUME IndInv, Broadcast
  PROVE  IndInv'
<1>1. \A c \in Sockets : ConnInv(conn[c])
  BY DEF IndInv, ConnsInv
<1>2. \A c \in Sockets : /\ ConnInv(conn'[c])
                         /\ conn'[c].net = conn[c].net
  <2> SUFFICES ASSUME NEW c \in Sockets
               PROVE  ConnInv(conn'[c]) /\ conn'[c].net = conn[c].net
    OBVIOUS
  <2>1. conn'[c] = Written(conn[c]) \/ conn'[c] = conn[c]
    BY DEF Broadcast
  <2>2. ConnInv(Written(conn[c])) /\ Written(conn[c]).net = conn[c].net
    BY <1>1, WrittenConn
  <2> QED BY <1>1, <2>1, <2>2
<1>3. ConnsInv'
  <2>1. \A c \in Sockets : conn'[c] \in Connections
    BY <1>2 DEF ConnInv
  <2> QED BY <1>2, <2>1 DEF ConnsInv, Broadcast
<1>4. SlotsInv'
  BY <1>2, SlotsKept DEF IndInv, Broadcast
<1>5. TimerInv'
  BY <1>2 DEF IndInv, TimerInv, GarbageTimed, Broadcast
<1> QED BY <1>3, <1>4, <1>5 DEF IndInv

LEMMA DisconnectedStep ==
  ASSUME IndInv, NEW c \in Sockets, conn[c].net # "none", Disconnected(c)
  PROVE  IndInv'
<1> DEFINE k == [conn[c] EXCEPT !.net = "closed", !.unsent = FALSE]
<1>1. conn \in [Sockets -> Connections] /\ ConnInv(conn[c])
  BY DEF IndInv, ConnsInv
<1>2. ConnInv(k) /\ k.net = "closed"
  <2>1. ConnInv(k)
    BY <1>1, ClosedConn
  <2>2. k.net = "closed"
    BY <1>1 DEF Connections
  <2> QED BY <2>1, <2>2
<1>3. conn' = [conn EXCEPT ![c] = k]
  BY <1>1 DEF Disconnected, Connections
<1> HIDE DEF k
<1>4. /\ conn' \in [Sockets -> Connections] /\ conn'[c] = k
      /\ \A d \in Sockets \ {c} : conn'[d] = conn[d]
  BY <1>1, <1>2, <1>3 DEF ConnInv
<1>5. ConnsInv'
  BY <1>2, <1>4 DEF IndInv, ConnsInv
<1>6. SlotsInv'
  <2>1. \A d \in Sockets : conn'[d].net = "none" <=> conn[d].net = "none"
    BY <1>2, <1>4
  <2> QED BY <2>1, SlotsKept DEF IndInv, Disconnected
<1>7. TimerInv'
  BY SizesAssumption DEF Disconnected, TimerInv, GarbageTimed
<1> QED BY <1>5, <1>6, <1>7 DEF IndInv

LEMMA FlushedStep ==
  ASSUME IndInv, NEW c \in Sockets, conn[c].net = "open",
         conn' = [conn EXCEPT ![c].unsent = FALSE],
         UNCHANGED <<slots, mapped, timer>>
  PROVE  IndInv'
<1> DEFINE k == [conn[c] EXCEPT !.unsent = FALSE]
<1>1. conn \in [Sockets -> Connections] /\ ConnInv(conn[c])
  BY DEF IndInv, ConnsInv
<1>2. ConnInv(k) /\ k.net = "open"
  <2>1. ConnInv(k)
    BY <1>1, ClosedConn
  <2>2. k.net = "open"
    BY <1>1 DEF Connections
  <2> QED BY <2>1, <2>2
<1>3. conn' = [conn EXCEPT ![c] = k]
  OBVIOUS
<1> HIDE DEF k
<1>4. /\ conn' \in [Sockets -> Connections] /\ conn'[c] = k
      /\ \A d \in Sockets \ {c} : conn'[d] = conn[d]
  BY <1>1, <1>2, <1>3 DEF ConnInv
<1>5. ConnsInv'
  BY <1>2, <1>4 DEF IndInv, ConnsInv
<1>6. SlotsInv'
  <2>1. \A d \in Sockets : conn'[d].net = "none" <=> conn[d].net = "none"
    BY <1>2, <1>4
  <2> QED BY <2>1, SlotsKept DEF IndInv
<1>7. TimerInv'
  BY <1>2, <1>4 DEF IndInv, TimerInv, GarbageTimed
<1> QED BY <1>5, <1>6, <1>7 DEF IndInv

LEMMA IndInvInit == Init => IndInv
<1> SUFFICES ASSUME Init PROVE IndInv
  OBVIOUS
<1>1. ConnsInv
  BY GoneConn DEF Init, ConnsInv
<1>2. SlotsInv
  <2>1. slots \in Seq(Sockets \cup {NoSocket}) /\ Len(slots) = 0
    BY DEF Init
  <2>2. Held
    BY GoneConn DEF Init, Held
  <2>3. Owned
    BY <2>1 DEF Owned
  <2> QED BY <2>1, <2>2, <2>3 DEF Init, SlotsInv
<1>3. TimerInv
  <2>1. timer \in 0 .. DropTicks
    BY SizesAssumption DEF Init
  <2>2. \A c \in Sockets : conn[c].net = "none"
    BY GoneConn DEF Init
  <2> QED BY <2>1, <2>2 DEF TimerInv, GarbageTimed
<1> QED BY <1>1, <1>2, <1>3 DEF IndInv

LEMMA IndInvStep == IndInv /\ [Next]_vars => IndInv'
<1> SUFFICES ASSUME IndInv, [Next]_vars PROVE IndInv'
  OBVIOUS
<1>1. ASSUME NEW c \in Sockets, NewConnection(c) PROVE IndInv'
  BY <1>1, NewConnectionStep
<1>2. ASSUME NEW c \in Sockets, ReadyRead(c) PROVE IndInv'
  BY <1>2, ReadyReadStep
<1>3. ASSUME NEW c \in Sockets, PeerCloses(c) PROVE IndInv'
  BY <1>3, DisconnectedStep DEF PeerCloses
<1>4. ASSUME NEW c \in Sockets, Flush(c) PROVE IndInv'
  <2>1. CASE conn[c].net = "closing" /\ Disconnected(c)
    BY <2>1, DisconnectedStep
  <2>2. CASE /\ conn[c].net = "open"
             /\ conn' = [conn EXCEPT ![c].unsent = FALSE]
             /\ UNCHANGED <<slots, mapped, timer>>
    BY <2>2, FlushedStep
  <2> QED BY <1>4, <2>1, <2>2 DEF Flush
<1>5. ASSUME Broadcast PROVE IndInv'
  BY <1>5, BroadcastStep
<1>6. ASSUME Tick PROVE IndInv'
  <2>1. CASE timer = 1 /\ CollectGarbage
    BY <2>1, CollectGarbageStep
  <2>2. CASE timer > 1 /\ timer' = timer - 1 /\ UNCHANGED <<slots, mapped, conn>>
    <3>1. ConnsInv' /\ SlotsInv'
      BY <2>2 DEF IndInv, ConnsInv, SlotsInv, Held, Owned
    <3>2. TimerInv'
      BY <2>2, SizesAssumption DEF IndInv, TimerInv, GarbageTimed
    <3> QED BY <3>1, <3>2 DEF IndInv
  <2> QED BY <1>6, <2>1, <2>2 DEF Tick
<1>7. CASE UNCHANGED vars
  BY <1>7 DEF vars, IndInv, ConnsInv, SlotsInv, Held, Owned, TimerInv, GarbageTimed
<1> QED BY <1>1, <1>2, <1>3, <1>4, <1>5, <1>6, <1>7 DEF Next

LEMMA IndInvAlways == Spec => []IndInv
BY IndInvInit, IndInvStep, PTL DEF Spec

-----------------------------------------------------------------------------
(* Every field of the server, its slots and its mappers keeps to its type, *)
(* and a mapper leads to no slot that does not exist.                      *)
THEOREM ServerTypeCorrect == Spec => []TypeOK
<1>1. IndInv => TypeOK
  <2> SUFFICES ASSUME IndInv PROVE TypeOK
    OBVIOUS
  <2>1. Len(slots) \in Nat
    BY DEF IndInv, SlotsInv
  <2>2. ASSUME NEW c \in Sockets PROVE mapped[c] \in 0 .. Len(slots)
    BY <2>1 DEF IndInv, SlotsInv, Held
  <2> QED BY <2>2 DEF IndInv, ConnsInv, SlotsInv, TimerInv, TypeOK
<1> QED BY <1>1, IndInvAlways, PTL

(* From newConnectionData() to collectGarbageData() a connection is in the *)
(* slot the mappers name, and in no state is it found in another's.        *)
THEOREM SlotsStayMapped == Spec => []SlotsMapped
<1>1. IndInv => SlotsMapped
  <2> SUFFICES ASSUME IndInv, NEW c \in Sockets
               PROVE  conn[c].net # "none" <=> mapped[c] # 0 /\ slots[mapped[c]] = c
    BY DEF SlotsMapped
  <2>1. CASE conn[c].net = "none"
    BY <2>1 DEF IndInv, SlotsInv, Held
  <2>2. CASE conn[c].net # "none"
    BY <2>2 DEF IndInv, SlotsInv, Held
  <2> QED BY <2>1, <2>2
<1> QED BY <1>1, IndInvAlways, PTL

(* newConnectionData() adds a slot only when each of those there are is    *)
(* held by a connection that has not been collected.  One that is gone and *)
(* waits for the timer holds its slot as well: a client that drops and is  *)
(* back within the 5 seconds takes another.                                *)
THEOREM SlotAddedWhenAllHeld ==
  Spec => [][Len(slots') > Len(slots) =>
               \A id \in 1 .. Len(slots) :
                 \E c \in Sockets : conn[c].net # "none" /\ mapped[c] = id]_vars
<1> DEFINE Step == Len(slots') > Len(slots) =>
                     \A id \in 1 .. Len(slots) :
                       \E c \in Sockets : conn[c].net # "none" /\ mapped[c] = id
<1>1. IndInv /\ [Next]_vars => [Step]_vars
  <2> SUFFICES ASSUME IndInv, Next, Len(slots') > Len(slots),
                      NEW id \in 1 .. Len(slots)
               PROVE  \E c \in Sockets : conn[c].net # "none" /\ mapped[c] = id
    BY DEF vars
  <2>1. slots \in Seq(Sockets \cup {NoSocket}) /\ Len(slots) \in Nat
    BY DEF IndInv, SlotsInv
  <2>2. slots' # slots
    BY <2>1
  <2>3. ~Broadcast /\ \A c \in Sockets : ~ReadyRead(c) /\ ~PeerCloses(c) /\ ~Flush(c)
    BY <2>2 DEF Broadcast, ReadyRead, PeerCloses, Flush, Disconnected
  <2>4. ~Tick
    <3>1. CollectGarbage => Len(slots') = Len(slots)
      <4>1. CollectGarbage =>
              slots' = [i \in 1 .. Len(slots) |->
                          IF slots[i] \in Garbage THEN NoSocket ELSE slots[i]]
        BY <2>1 DEF CollectGarbage
      <4> QED BY <2>1, <4>1
    <3> QED BY <2>1, <2>2, <3>1 DEF Tick
  <2>5. PICK new \in Sockets : NewConnection(new)
    BY <2>3, <2>4 DEF Next
  <2>6. slots[id] # NoSocket
    <3> SUFFICES ASSUME slots[id] = NoSocket PROVE FALSE
      OBVIOUS
    <3>1. FreeSlot \in 1 .. Len(slots)
      BY FreeSlotIs DEF IndInv, SlotsInv
    <3>2. slots' = [slots EXCEPT ![FreeSlot] = new]
      BY <2>1, <2>5, <3>1 DEF NewConnection
    <3>3. Len(slots') = Len(slots)
      BY <2>1, <3>1, <3>2
    <3> QED BY <2>1, <3>3
  <2>7. slots[id] \in Sockets /\ mapped[slots[id]] = id
    BY <2>1, <2>6 DEF IndInv, SlotsInv, Owned
  <2>8. conn[slots[id]].net # "none"
    BY <2>7 DEF IndInv, SlotsInv, Held
  <2> QED BY <2>7, <2>8
<1> HIDE DEF Step
<1>2. Spec => [][Step]_vars
  BY <1>1, IndInvAlways, PTL DEF Spec
<1> QED BY <1>2 DEF Step

(* readyReadData(): for every stream of every length, every way the        *)
(* network cuts it and every ReadSize, the commands emitted are those      *)
(* between the delimiters of what was read.                                *)
THEOREM CommandsReadAsSent == Spec => []CommandsAsSent
<1>1. IndInv => CommandsAsSent
  <2> SUFFICES ASSUME IndInv, NEW c \in Sockets
               PROVE  conn[c].commands = Sent(conn[c].script)[Consumed(conn[c])]
    BY DEF CommandsAsSent
  <2>1. ConnInv(conn[c])
    BY DEF IndInv, ConnsInv
  <2> QED BY <2>1 DEF ConnInv, Upto
<1> QED BY <1>1, IndInvAlways, PTL

(* sendCommand(): one answer for every query before the first Exit, none   *)
(* for those after it, though the rest of the read is still processed.     *)
THEOREM QueriesAnsweredOnce == Spec => []AnsweredOnce
<1>1. IndInv => AnsweredOnce
  <2> SUFFICES ASSUME IndInv, NEW c \in Sockets
               PROVE  conn[c].answers = Cardinality(Questions(conn[c].commands))
    BY DEF AnsweredOnce
  <2>1. ConnInv(conn[c])
    BY DEF IndInv, ConnsInv
  <2> QED BY <2>1 DEF ConnInv, Answering
<1> QED BY <1>1, IndInvAlways, PTL

(* closeConnection() and connectionClosedData() start the one timer before *)
(* they leave a connection to it, and no read and no collection stops it   *)
(* while somebody waits.                                                   *)
THEOREM GarbageStaysTimed == Spec => []GarbageTimed
<1>1. IndInv => GarbageTimed
  BY DEF IndInv, TimerInv
<1> QED BY <1>1, IndInvAlways, PTL

(* A client that is connected stays so in every step of the server's, but  *)
(* for its own Exit and for the end of its own socket: neither a           *)
(* collection nor another client's read or disconnect closes it.           *)
THEOREM ClientsStayConnected == Spec => StaysConnected
<1> DEFINE Stays(c) == \/ IsConnected(c)'
                       \/ Quit \in Range(conn[c].commands)'
                       \/ PeerCloses(c)
           Step == \A c \in Sockets : IsConnected(c) => Stays(c)
<1>1. IndInv /\ [Next]_vars => [Step]_vars
  <2> SUFFICES ASSUME IndInv, Next, NEW c \in Sockets, IsConnected(c)
               PROVE  Stays(c)
    BY DEF vars
  <2>1. c # NoSocket /\ conn[c].net = "open" /\ conn \in [Sockets -> Connections]
    BY DEF IsConnected, IndInv, ConnsInv
  <2>2. conn'[c].net = "open" => Stays(c)
    BY <2>1 DEF IsConnected
  <2>3. ASSUME NEW d \in Sockets, NewConnection(d) PROVE Stays(c)
    <3>1. d # c
      BY <2>1, <2>3 DEF NewConnection
    <3>2. conn'[c] = conn[c]
      BY <2>1, <2>3, <3>1 DEF NewConnection
    <3> QED BY <2>1, <2>2, <3>2
  <2>4. ASSUME NEW d \in Sockets, ReadyRead(d) PROVE Stays(c)
    <3>1. PICK new :
            /\ conn' = [conn EXCEPT ![d] = new]
            /\ ConnInv(new)
            /\ Len(conn[d].commands) <= Len(new.commands)
            /\ new.net # "open" =>
                 \E j \in Len(conn[d].commands) + 1 .. Len(new.commands) :
                   new.commands[j] = Quit
      BY <2>4, ReadyReadIs
    <3>2. CASE d # c
      <4>1. conn'[c] = conn[c]
        BY <2>1, <3>1, <3>2
      <4> QED BY <2>1, <2>2, <4>1
    <3>3. CASE d = c
      <4>1. conn'[c] = new
        BY <2>1, <3>1, <3>3
      <4>2. CASE new.net # "open"
        <5>1. PICK j \in Len(conn[d].commands) + 1 .. Len(new.commands) :
                new.commands[j] = Quit
          BY <3>1, <4>2
        <5>2. new \in Connections /\ conn[d] \in Connections
          BY <2>1, <3>1 DEF ConnInv
        <5>3. new.commands \in Seq(KnownCommands) /\ Len(conn[d].commands) \in Nat
          BY <5>2, Fields
        <5>4. j \in DOMAIN new.commands
          BY <5>1, <5>3
        <5>5. Quit \in Range(new.commands)
          BY <5>1, <5>4 DEF Range
        <5> QED BY <4>1, <5>5
      <4> QED BY <2>2, <4>1, <4>2
    <3> QED BY <3>2, <3>3
  <2>5. ASSUME NEW d \in Sockets, PeerCloses(d) PROVE Stays(c)
    <3>1. CASE d = c
      BY <2>5, <3>1
    <3>2. CASE d # c
      <4>1. conn'[c] = conn[c]
        BY <2>1, <2>5, <3>2 DEF PeerCloses, Disconnected
      <4> QED BY <2>1, <2>2, <4>1
    <3> QED BY <3>1, <3>2
  <2>6. ASSUME NEW d \in Sockets, Flush(d) PROVE Stays(c)
    <3>1. conn'[c].net = "open"
      <4>1. CASE d = c
        <5>1. conn' = [conn EXCEPT ![c].unsent = FALSE]
          BY <2>1, <2>6, <4>1 DEF Flush
        <5> QED BY <2>1, <5>1 DEF Connections
      <4>2. CASE d # c
        BY <2>1, <2>6, <4>2 DEF Flush, Disconnected
      <4> QED BY <4>1, <4>2
    <3> QED BY <2>2, <3>1
  <2>7. ASSUME Broadcast PROVE Stays(c)
    <3>1. conn'[c] = Written(conn[c]) \/ conn'[c] = conn[c]
      BY <2>7 DEF Broadcast
    <3>2. Written(conn[c]).net = conn[c].net
      BY WrittenConn DEF IndInv, ConnsInv
    <3> QED BY <2>1, <2>2, <3>1, <3>2
  <2>8. ASSUME Tick PROVE Stays(c)
    <3>1. c \notin Garbage
      BY DEF Garbage
    <3>2. conn'[c] = conn[c]
      BY <2>8, <3>1 DEF Tick, CollectGarbage
    <3> QED BY <2>1, <2>2, <3>2
  <2> HIDE DEF Stays
  <2> QED BY <2>3, <2>4, <2>5, <2>6, <2>7, <2>8 DEF Next
<1> HIDE DEF Step
<1>2. Spec => [][Step]_vars
  BY <1>1, IndInvAlways, PTL DEF Spec
<1> QED BY <1>2 DEF StaysConnected, Step
================================================================================
