--------------------------- MODULE PresenceProofs ---------------------------
(***************************************************************************)
(* Proofs about the order in which presences are shown, and about who is   *)
(* shown to whom once nothing is on its way, for any clients, sockets,     *)
(* replicas and bounds.                                                    *)
(***************************************************************************)
EXTENDS Presence, SequenceTheorems, TLAPS

Presences == [by : Clients, as : Nat, no : Nat, on : Sockets]
Sessions ==
  [socket : Sockets \cup {NoSocket}, connected : BOOLEAN, starting : BOOLEAN, ended : BOOLEAN,
   local : SUBSET [by : Clients, as : Nat, no : Nat], no : Nat, timer : BOOLEAN,
   replica : Nat, mounting : BOOLEAN, shown : SUBSET Presences, others : SUBSET Presences]
PresenceTypeOK ==
  /\ link \in [Sockets -> {"unused", "accepted", "open", "left", "closed"}]
  /\ attachment \in [Sockets -> SUBSET Presences]
  /\ up \in [Sockets -> Seq(Presences)]
  /\ down \in [Sockets -> Seq([kind : {"ready", "presence"}, participants : SUBSET Presences])]
  /\ client \in [Clients -> Sessions]

\* What comes after another list, or may.
Follows(P, Q) == \A p \in P, q \in Q : p.on = q.on => p.no <= q.no

\* A socket that was not used is in no list; of one that was, every presence listed
\* is behind the one attached, those on their way and the one its client would send.
Behind(P, lk, att, u, cl) ==
  \A p \in P :
    /\ lk[p.on] # "unused"
    /\ \A q \in att[p.on] : p.no <= q.no
    /\ \A i \in DOMAIN u[p.on] : p.no <= u[p.on][i].no
    /\ \A c \in Clients : cl[c].socket = p.on => p.no <= cl[c].no
Listed(P) == Behind(P, link, attachment, up, client)

\* One presence is attached to a socket, which it came on, and those that come on it
\* are later and later.
Tidy(s, att, u, lk) ==
  /\ \A p \in att : p.on = s
  /\ \A p, q \in att : p = q
  /\ \A i \in DOMAIN u : u[i].on = s
  /\ \A p \in att, i \in DOMAIN u : p.no <= u[i].no
  /\ \A i, j \in DOMAIN u : i <= j => u[i].no <= u[j].no
  /\ lk = "unused" => att = {} /\ u = <<>>
Attachments == \A s \in Sockets : Tidy(s, attachment[s], up[s], link[s])

\* A client has a socket of its own, and sends nothing that is not its latest.
Owners ==
  \A c \in Clients :
    /\ \A q \in client[c].local : q.no = client[c].no
    /\ \A s \in Sockets : client[c].socket = s =>
         /\ link[s] # "unused"
         /\ \A p \in attachment[s] : p.no <= client[c].no
         /\ \A i \in DOMAIN up[s] : up[s][i].no <= client[c].no
         /\ \A d \in Clients : client[d].socket = s => c = d

\* The lists on their way to a client follow each other, and what the client shows.
Lists ==
  \A t \in Sockets :
    /\ \A i \in DOMAIN down[t] : Listed(down[t][i].participants)
    /\ \A i, j \in DOMAIN down[t] :
         i <= j => Follows(down[t][i].participants, down[t][j].participants)
Shows ==
  \A c \in Clients :
    /\ Listed(client[c].shown)
    /\ Follows(client[c].shown, client[c].shown)
    /\ client[c].socket = NoSocket => client[c].shown = {}
    /\ \A s \in Sockets : client[c].socket = s =>
         \A i \in DOMAIN down[s] : Follows(client[c].shown, down[s][i].participants)

PresenceInv == PresenceTypeOK /\ Attachments /\ Owners /\ Lists /\ Shows

-----------------------------------------------------------------------------
\* What is attached now is a list behind nothing, and follows every list there is.
LEMMA Latest ==
  ASSUME PresenceTypeOK', Attachments', Owners', NEW S \in SUBSET Sockets,
         NEW L, L = RoomPresence(attachment', S).participants
  PROVE  /\ L \in SUBSET Presences
         /\ Behind(L, link', attachment', up', client') /\ Follows(L, L)
         /\ \A P \in SUBSET Presences :
              Behind(P, link', attachment', up', client') => Follows(P, L)
<1>1. \A p \in L : /\ p \in Presences /\ p \in attachment'[p.on] /\ p.on \in S
                   /\ link'[p.on] # "unused"
  BY DEF RoomPresence, PresenceTypeOK, Attachments, Tidy, Presences
<1>2. L \in SUBSET Presences
  BY <1>1
<1>3. Behind(L, link', attachment', up', client')
  <2>1. \A p \in L : \A q \in attachment'[p.on] : p.no <= q.no
    BY <1>1 DEF Attachments, Tidy, Presences
  <2>2. \A p \in L : \A i \in DOMAIN up'[p.on] : p.no <= up'[p.on][i].no
    BY <1>1 DEF Attachments, Tidy
  <2>3. \A p \in L : \A c \in Clients : client'[c].socket = p.on => p.no <= client'[c].no
    BY <1>1 DEF Owners
  <2>4. QED  BY <1>1, <2>1, <2>2, <2>3 DEF Behind
<1>4. Follows(L, L)
  BY <1>1 DEF Follows, Attachments, Tidy, Presences
<1>5. \A P \in SUBSET Presences :
        Behind(P, link', attachment', up', client') => Follows(P, L)
  BY <1>1 DEF Behind, Follows
<1>6. QED  BY <1>2, <1>3, <1>4, <1>5

\* The room adds its latest list to what is on its way, or nothing, or loses it.
LEMMA Told ==
  ASSUME PresenceInv, PresenceTypeOK', Attachments', Owners', client' = client,
         \A P \in SUBSET Presences :
           Listed(P) => Behind(P, link', attachment', up', client'),
         NEW S \in SUBSET Sockets,
         \A t \in Sockets : \A i \in DOMAIN down'[t] :
           \/ i \in DOMAIN down[t] /\ down'[t][i] = down[t][i]
           \/ /\ i \notin DOMAIN down[t]
              /\ down'[t][i].participants \in {{}, RoomPresence(attachment', S).participants}
  PROVE  Lists' /\ Shows'
<1>1. PICK L : L = RoomPresence(attachment', S).participants
  OBVIOUS
<1>2. /\ L \in SUBSET Presences
      /\ Behind(L, link', attachment', up', client') /\ Follows(L, L)
      /\ \A P \in SUBSET Presences :
           Behind(P, link', attachment', up', client') => Follows(P, L)
  BY <1>1, Latest
<1>3. \A t \in Sockets : \A i \in DOMAIN down'[t] :
        \/ i \in DOMAIN down[t] /\ down'[t][i] = down[t][i]
        \/ i \notin DOMAIN down[t] /\ down'[t][i].participants \in {{}, L}
  BY <1>1
<1>4. ASSUME NEW t \in Sockets
      PROVE  /\ \A i \in DOMAIN down[t] : down[t][i].participants \in SUBSET Presences
             /\ \A i, j \in Nat \ {0} : i <= j /\ j \in DOMAIN down[t] => i \in DOMAIN down[t]
             /\ DOMAIN down'[t] \subseteq Nat \ {0}
  <2> DEFINE M == [kind : {"ready", "presence"}, participants : SUBSET Presences]
  <2>1. down[t] \in Seq(M) /\ down'[t] \in Seq(M)
    BY DEF PresenceInv, PresenceTypeOK
  <2>2. \A m \in M : m.participants \in SUBSET Presences
    OBVIOUS
  <2> HIDE DEF M
  <2>3. QED  BY <2>1, <2>2
<1>5. \A P \in SUBSET Presences :
        Listed(P) => /\ Behind(P, link', attachment', up', client')
                     /\ Follows(P, L) /\ Follows(P, {})
  BY <1>2 DEF Follows
<1>6. Behind({}, link', attachment', up', client') /\ \A P : Follows({}, P) /\ Follows(P, {})
  BY DEF Behind, Follows
<1>7. Lists'
  <2>1. ASSUME NEW t \in Sockets, NEW i \in DOMAIN down'[t]
        PROVE  Behind(down'[t][i].participants, link', attachment', up', client')
    <3>1. CASE i \in DOMAIN down[t] /\ down'[t][i] = down[t][i]
      <4>1. Listed(down[t][i].participants) /\ down[t][i].participants \in SUBSET Presences
        BY <1>4, <3>1 DEF PresenceInv, Lists
      <4>2. QED  BY <1>5, <3>1, <4>1
    <3>2. CASE down'[t][i].participants \in {{}, L}
      BY <1>2, <1>6, <3>2
    <3>3. QED  BY <1>3, <3>1, <3>2
  <2>2. ASSUME NEW t \in Sockets, NEW i \in DOMAIN down'[t], NEW j \in DOMAIN down'[t], i <= j
        PROVE  Follows(down'[t][i].participants, down'[t][j].participants)
    <3>1. CASE j \in DOMAIN down[t]
      <4>1. i \in DOMAIN down[t]
        BY <1>4, <2>2, <3>1
      <4>2. QED  BY <1>3, <2>2, <3>1, <4>1 DEF PresenceInv, Lists
    <3>2. CASE j \notin DOMAIN down[t] /\ i \in DOMAIN down[t]
      <4>1. Listed(down[t][i].participants) /\ down[t][i].participants \in SUBSET Presences
        BY <1>4, <3>2 DEF PresenceInv, Lists
      <4>2. down'[t][i] = down[t][i] /\ down'[t][j].participants \in {{}, L}
        BY <1>3, <2>2, <3>2
      <4>3. QED  BY <1>5, <4>1, <4>2
    <3>3. CASE j \notin DOMAIN down[t] /\ i \notin DOMAIN down[t]
      BY <1>2, <1>3, <1>6, <2>2, <3>3
    <3>4. QED  BY <3>1, <3>2, <3>3
  <2>3. QED  BY <2>1, <2>2 DEF Lists, Listed
<1>8. Shows'
  <2>1. ASSUME NEW c \in Clients
        PROVE  /\ Listed(client[c].shown) /\ client[c].shown \in SUBSET Presences
               /\ Behind(client[c].shown, link', attachment', up', client')
               /\ Follows(client[c].shown, L) /\ Follows(client[c].shown, {})
    <3>1. Listed(client[c].shown) /\ client[c].shown \in SUBSET Presences
      BY DEF PresenceInv, PresenceTypeOK, Sessions, Shows
    <3>2. QED  BY <1>5, <3>1
  <2>2. ASSUME NEW c \in Clients, NEW s \in Sockets, client[c].socket = s,
               NEW i \in DOMAIN down'[s]
        PROVE  Follows(client[c].shown, down'[s][i].participants)
    <3>1. CASE i \in DOMAIN down[s] /\ down'[s][i] = down[s][i]
      BY <2>2, <3>1 DEF PresenceInv, Shows
    <3>2. CASE down'[s][i].participants \in {{}, L}
      BY <2>1, <3>2
    <3>3. QED  BY <1>3, <3>1, <3>2
  <2>3. QED  BY <2>1, <2>2 DEF PresenceInv, Shows, Listed
<1>9. QED  BY <1>7, <1>8

-----------------------------------------------------------------------------
\* What is added to a queue comes after what is in it.
LEMMA Appended ==
  ASSUME NEW M, NEW q \in Seq(M), NEW m \in M
  PROVE  /\ Append(q, m) \in Seq(M)
         /\ DOMAIN q \subseteq Nat \ {0} /\ DOMAIN Append(q, m) \subseteq Nat \ {0}
         /\ \A i \in DOMAIN Append(q, m) : \/ i \in DOMAIN q /\ Append(q, m)[i] = q[i]
                                           \/ i \notin DOMAIN q /\ Append(q, m)[i] = m
         /\ \A i \in DOMAIN q, j \in DOMAIN Append(q, m) : j \notin DOMAIN q => i < j
OBVIOUS

\* The same of two at once.
LEMMA AppendedTwo ==
  ASSUME NEW M, NEW q \in Seq(M), NEW m \in M, NEW n \in M
  PROVE  /\ q \o <<m, n>> \in Seq(M)
         /\ \A i \in DOMAIN (q \o <<m, n>>) :
              \/ i \in DOMAIN q /\ (q \o <<m, n>>)[i] = q[i]
              \/ i \notin DOMAIN q /\ (q \o <<m, n>>)[i] \in {m, n}
<1>1. <<m, n>> \in Seq(M) /\ Len(<<m, n>>) = 2 /\ <<m, n>>[1] = m /\ <<m, n>>[2] = n
  OBVIOUS
<1>2. ASSUME NEW r \in Seq(M), Len(r) = 2
      PROVE  /\ q \o r \in Seq(M)
             /\ \A i \in DOMAIN (q \o r) :
                  \/ i \in DOMAIN q /\ (q \o r)[i] = q[i]
                  \/ i \notin DOMAIN q /\ (q \o r)[i] \in {r[1], r[2]}
  <2>1. q \o r \in Seq(M) /\ Len(q \o r) = Len(q) + Len(r)
    BY ConcatProperties
  <2>2. \A i \in 1 .. Len(q) + 2 :
          (q \o r)[i] = IF i <= Len(q) THEN q[i] ELSE r[i - Len(q)]
    BY <1>2, ConcatProperties
  <2>3. DOMAIN q = 1 .. Len(q) /\ DOMAIN (q \o r) = 1 .. Len(q) + 2 /\ Len(q) \in Nat
    BY <1>2, <2>1
  <2>4. QED  BY <2>1, <2>2, <2>3
<1>3. QED  BY <1>1, <1>2

\* The rest of fetch.
LEMMA GreetStep ==
  ASSUME PresenceInv, NEW s \in Sockets, Greet(s)
  PROVE  PresenceInv'
<1> USE DEF Greet
<1> DEFINE M == [kind : {"ready", "presence"}, participants : SUBSET Presences]
           Message == RoomPresence(attachment, Attached)
<1>1. Attached \in SUBSET Sockets
  BY DEF Attached
<1>2. Message \in M /\ Ready \in M /\ Ready.participants = {}
  BY <1>1 DEF RoomPresence, Ready, PresenceInv, PresenceTypeOK
<1>3. down[s] \in Seq(M) /\ down' = [down EXCEPT ![s] = @ \o <<Ready, Message>>]
  BY DEF PresenceInv, PresenceTypeOK
<1>4. PresenceTypeOK'
  <2>1. down[s] \o <<Ready, Message>> \in Seq(M)
    BY <1>2, <1>3, AppendedTwo
  <2> HIDE DEF Message
  <2>2. QED  BY <1>3, <2>1 DEF PresenceInv, PresenceTypeOK
<1>5. Attachments' /\ Owners'
  <2>1. \A t \in Sockets : link'[t] = "unused" => link[t] = "unused"
    BY DEF PresenceInv, PresenceTypeOK
  <2>2. \A t \in Sockets : link[t] # "unused" => link'[t] # "unused"
    BY DEF PresenceInv, PresenceTypeOK
  <2>3. Attachments'
    BY <2>1 DEF PresenceInv, Attachments, Tidy
  <2>4. QED  BY <2>2, <2>3 DEF PresenceInv, Owners
<1>6. \A P \in SUBSET Presences : Listed(P) => Behind(P, link', attachment', up', client')
  BY DEF Listed, Behind, PresenceInv, PresenceTypeOK, Presences
<1>7. \A t \in Sockets : \A i \in DOMAIN down'[t] :
        \/ i \in DOMAIN down[t] /\ down'[t][i] = down[t][i]
        \/ i \notin DOMAIN down[t] /\ down'[t][i].participants \in {{}, Message.participants}
  <2> HIDE DEF M, Message
  <2>1. down \in [Sockets -> Seq(M)]
    BY DEF M, PresenceInv, PresenceTypeOK
  <2>2. \A i \in DOMAIN down'[s] :
          \/ i \in DOMAIN down[s] /\ down'[s][i] = down[s][i]
          \/ i \notin DOMAIN down[s] /\ down'[s][i] \in {Ready, Message}
    BY <1>2, <1>3, <2>1, AppendedTwo
  <2>3. QED  BY <1>2, <1>3, <2>1, <2>2
<1>8. Lists' /\ Shows'
  BY <1>1, <1>4, <1>5, <1>6, <1>7, Told
<1>9. QED  BY <1>4, <1>5, <1>8 DEF PresenceInv

\* A presence is attached.
LEMMA StoreStep ==
  ASSUME PresenceInv, NEW s \in Sockets, StorePresence(s)
  PROVE  PresenceInv'
<1> USE DEF StorePresence
<1> DEFINE M == [kind : {"ready", "presence"}, participants : SUBSET Presences]
           Message == RoomPresence(attachment', Attached)
<1>1. Attached \in SUBSET Sockets
  BY DEF Attached
<1> DEFINE first == up[s][1]
           rest == Tail(up[s])
<1>2. /\ up[s] \in Seq(Presences) /\ up[s] # <<>> /\ Head(up[s]) = first
      /\ first \in Presences /\ 1 \in DOMAIN up[s] /\ rest \in Seq(Presences)
      /\ \A i \in DOMAIN rest : /\ i \in Nat /\ i >= 1 /\ i + 1 \in DOMAIN up[s]
                                /\ rest[i] = up[s][i + 1]
  BY DEF PresenceInv, PresenceTypeOK
<1>3. /\ attachment' \in [Sockets -> SUBSET Presences]
      /\ up' \in [Sockets -> Seq(Presences)]
  BY <1>2 DEF PresenceInv, PresenceTypeOK
<1>4. Message \in M
  <2>1. \A t \in Attached : attachment'[t] \in SUBSET Presences
    BY <1>1, <1>3
  <2>2. UNION {attachment'[t] : t \in Attached} \in SUBSET Presences
    BY <2>1
  <2>3. QED  BY <2>2 DEF RoomPresence
<1>5. PresenceTypeOK'
  <2>0. down \in [Sockets -> Seq(M)]
    BY DEF PresenceInv, PresenceTypeOK
  <2> HIDE DEF M, Message
  <2>1. \A t \in Sockets : Append(down[t], Message) \in Seq(M)
    BY <1>4, <2>0, Appended
  <2>2. \A t \in Sockets : down'[t] \in {down[t], Append(down[t], Message)}
    BY DEF Message
  <2>3. down' = [t \in Sockets |-> down'[t]]
    OBVIOUS
  <2>4. down' \in [Sockets -> Seq(M)]
    BY <2>0, <2>1, <2>2, <2>3
  <2>5. QED  BY <1>3, <2>4 DEF M, PresenceInv, PresenceTypeOK
<1>6. \A t \in Sockets : t # s => attachment'[t] = attachment[t] /\ up'[t] = up[t]
  BY DEF PresenceInv, PresenceTypeOK
<1>7. attachment'[s] = {first} /\ up'[s] = rest
  BY <1>2 DEF PresenceInv, PresenceTypeOK
<1>8. /\ \A i, j \in DOMAIN up[s] : i <= j => up[s][i].no <= up[s][j].no
      /\ \A i \in DOMAIN up[s] : up[s][i].on = s
      /\ link[s] # "unused"
  BY DEF PresenceInv, Attachments, Tidy
<1> HIDE DEF first, rest
<1>9. /\ first.on = s
      /\ \A i \in DOMAIN rest : rest[i].on = s /\ first.no <= rest[i].no
      /\ \A i, j \in DOMAIN rest : i <= j => rest[i].no <= rest[j].no
  <2>1. first = up[s][1]
    BY DEF first
  <2>2. ASSUME NEW i \in DOMAIN rest, NEW j \in DOMAIN rest, i <= j
        PROVE  rest[i].no <= rest[j].no
    <3>1. i + 1 \in DOMAIN up[s] /\ j + 1 \in DOMAIN up[s] /\ i + 1 <= j + 1
      BY <1>2, <2>2
    <3>2. QED  BY <1>2, <1>8, <3>1
  <2>3. ASSUME NEW i \in DOMAIN rest
        PROVE  rest[i].on = s /\ first.no <= rest[i].no
    <3>1. i + 1 \in DOMAIN up[s] /\ 1 \in DOMAIN up[s] /\ 1 <= i + 1
      BY <1>2
    <3>2. QED  BY <1>2, <1>8, <2>1, <3>1
  <2>4. first.on = s
    BY <1>2, <1>8, <2>1
  <2>5. QED  BY <2>2, <2>3, <2>4
<1>10. Attachments'
  <2>1. Tidy(s, attachment'[s], up'[s], link'[s])
    BY <1>7, <1>8, <1>9 DEF Tidy
  <2>2. \A t \in Sockets : t # s =>
          attachment'[t] = attachment[t] /\ up'[t] = up[t] /\ link'[t] = link[t]
    BY <1>6
  <2> HIDE DEF StorePresence
  <2>3. QED  BY <2>1, <2>2 DEF PresenceInv, Attachments
<1>11. Owners'
  <2>1. \A c \in Clients : client[c].socket = s =>
          \A i \in DOMAIN up[s] : up[s][i].no <= client[c].no
    BY DEF PresenceInv, Owners
  <2>2. \A c \in Clients : client[c].socket = s =>
          /\ first.no <= client[c].no
          /\ \A i \in DOMAIN rest : rest[i].no <= client[c].no
    BY <1>2, <2>1 DEF first
  <2>3. QED  BY <1>6, <1>7, <2>2, SMTT(20) DEF PresenceInv, Owners
<1>12. \A P \in SUBSET Presences : Listed(P) => Behind(P, link', attachment', up', client')
  <2> SUFFICES ASSUME NEW P \in SUBSET Presences, Listed(P), NEW p \in P
               PROVE  /\ \A q \in attachment'[p.on] : p.no <= q.no
                      /\ \A i \in DOMAIN up'[p.on] : p.no <= up'[p.on][i].no
    BY DEF Listed, Behind
  <2>1. CASE p.on = s
    <3>1. \A i \in DOMAIN up[s] : p.no <= up[s][i].no
      BY <2>1 DEF Listed, Behind
    <3>2. p.no <= first.no /\ \A i \in DOMAIN rest : p.no <= rest[i].no
      BY <1>2, <3>1 DEF first
    <3>3. QED  BY <1>7, <2>1, <3>2
  <2>2. CASE p.on # s
    BY <1>6, <2>2 DEF Listed, Behind, Presences
  <2>3. QED  BY <2>1, <2>2
<1>13. \A t \in Sockets : \A i \in DOMAIN down'[t] :
         \/ i \in DOMAIN down[t] /\ down'[t][i] = down[t][i]
         \/ i \notin DOMAIN down[t] /\ down'[t][i].participants \in {{}, Message.participants}
  <2> HIDE DEF M, Message
  <2>1. down \in [Sockets -> Seq(M)]
    BY DEF M, PresenceInv, PresenceTypeOK
  <2>2. \A t \in Sockets : down'[t] \in {down[t], Append(down[t], Message)}
    BY DEF Message
  <2>3. \A t \in Sockets : \A i \in DOMAIN Append(down[t], Message) :
          \/ i \in DOMAIN down[t] /\ Append(down[t], Message)[i] = down[t][i]
          \/ i \notin DOMAIN down[t] /\ Append(down[t], Message)[i] = Message
    BY <1>4, <2>1, Appended
  <2>4. QED  BY <2>2, <2>3, ZenonT(40)
<1>14. Lists' /\ Shows'
  BY <1>1, <1>5, <1>10, <1>11, <1>12, <1>13, Told
<1>15. QED  BY <1>5, <1>10, <1>11, <1>14 DEF PresenceInv

\* webSocketClose.
LEMMA CloseStep ==
  ASSUME PresenceInv, NEW s \in Sockets, Close(s)
  PROVE  PresenceInv'
<1> USE DEF Close
<1> DEFINE M == [kind : {"ready", "presence"}, participants : SUBSET Presences]
           Message == RoomPresence(attachment, Attached \ {s})
<1>1. Attached \ {s} \in SUBSET Sockets
  BY DEF Attached
<1>2. \A t \in Sockets : t # s =>
        attachment'[t] = attachment[t] /\ up'[t] = up[t] /\ link'[t] = link[t]
  BY DEF PresenceInv, PresenceTypeOK
<1>3. attachment'[s] = {} /\ up'[s] = <<>> /\ link'[s] = "closed" /\ link[s] = "left"
  BY DEF PresenceInv, PresenceTypeOK
<1>4. Message = RoomPresence(attachment', Attached \ {s})
  BY <1>1, <1>2 DEF RoomPresence
<1>5. Message \in M
  BY <1>1 DEF RoomPresence, PresenceInv, PresenceTypeOK
<1>6. \A t \in Sockets : down'[t] \in {down[t], <<>>, Append(down[t], Message)}
  OBVIOUS
<1>7. down = [t \in Sockets |-> down[t]] /\ down' = [t \in Sockets |-> down'[t]]
  BY DEF PresenceInv, PresenceTypeOK
<1>8. down \in [Sockets -> Seq(M)]
  BY DEF PresenceInv, PresenceTypeOK
<1>9. client' = client
  OBVIOUS
<1>10. /\ link' \in [Sockets -> {"unused", "accepted", "open", "left", "closed"}]
       /\ attachment' \in [Sockets -> SUBSET Presences] /\ up' \in [Sockets -> Seq(Presences)]
  BY DEF PresenceInv, PresenceTypeOK
<1> HIDE DEF M, Message, Close
<1>11. \A t \in Sockets : /\ Append(down[t], Message) \in Seq(M)
                         /\ \A i \in DOMAIN Append(down[t], Message) :
                              \/ i \in DOMAIN down[t] /\ Append(down[t], Message)[i] = down[t][i]
                              \/ i \notin DOMAIN down[t] /\ Append(down[t], Message)[i] = Message
  BY <1>5, <1>8, Appended
<1>12. PresenceTypeOK'
  <2>1. \A t \in Sockets : down'[t] \in Seq(M)
    <3>1. <<>> \in Seq(M)
      OBVIOUS
    <3>2. QED  BY <1>6, <1>8, <1>11, <3>1
  <2>2. down' \in [Sockets -> Seq(M)]
    BY <1>7, <2>1
  <2>3. QED  BY <1>9, <1>10, <2>2 DEF M, PresenceInv, PresenceTypeOK
<1>13. \A t \in Sockets : \A i \in DOMAIN down'[t] :
         \/ i \in DOMAIN down[t] /\ down'[t][i] = down[t][i]
         \/ /\ i \notin DOMAIN down[t]
            /\ down'[t][i].participants
                 \in {{}, RoomPresence(attachment', Attached \ {s}).participants}
  <2>1. DOMAIN <<>> = {}
    OBVIOUS
  <2>2. QED  BY <1>4, <1>6, <1>11, <2>1
<1>14. client' = client
  BY <1>9
<1>15. Attachments'
  <2>1. Tidy(s, attachment'[s], up'[s], link'[s])
    BY <1>3 DEF Tidy
  <2>2. ASSUME NEW t \in Sockets, t # s
        PROVE  Tidy(t, attachment'[t], up'[t], link'[t])
    <3>1. Tidy(t, attachment[t], up[t], link[t])
      BY DEF PresenceInv, Attachments
    <3>2. QED  BY <1>2, <2>2, <3>1
  <2>3. QED  BY <2>1, <2>2 DEF Attachments
<1>16. Owners'
  <2> SUFFICES ASSUME NEW c \in Clients, NEW t \in Sockets, client[c].socket = t
               PROVE  /\ link'[t] # "unused"
                      /\ \A p \in attachment'[t] : p.no <= client[c].no
                      /\ \A i \in DOMAIN up'[t] : up'[t][i].no <= client[c].no
    BY <1>14 DEF PresenceInv, Owners
  <2>1. CASE t = s
    BY <1>3, <2>1
  <2>2. CASE t # s
    BY <1>2, <2>2 DEF PresenceInv, Owners
  <2>3. QED  BY <2>1, <2>2
<1>17. \A P \in SUBSET Presences : Listed(P) => Behind(P, link', attachment', up', client')
  <2> SUFFICES ASSUME NEW P \in SUBSET Presences, Listed(P), NEW p \in P
               PROVE  /\ link'[p.on] # "unused"
                      /\ \A q \in attachment'[p.on] : p.no <= q.no
                      /\ \A i \in DOMAIN up'[p.on] : p.no <= up'[p.on][i].no
    BY <1>14 DEF Listed, Behind
  <2>1. p.on \in Sockets
    BY DEF Presences
  <2>2. CASE p.on = s
    BY <1>3, <2>2
  <2>3. CASE p.on # s
    BY <1>2, <2>1, <2>3 DEF Listed, Behind
  <2>4. QED  BY <2>2, <2>3
<1>18. Lists' /\ Shows'
  BY <1>1, <1>12, <1>13, <1>14, <1>15, <1>16, <1>17, Told
<1>19. QED  BY <1>12, <1>15, <1>16, <1>18 DEF PresenceInv

\* The object is reset.
LEMMA CrashStep ==
  ASSUME PresenceInv, Crash
  PROVE  PresenceInv'
<1> USE DEF Crash
<1>1. \A s \in Sockets : /\ attachment'[s] = {} /\ up'[s] = <<>> /\ down'[s] = <<>>
                         /\ link[s] # "unused" <=> link'[s] # "unused"
  BY DEF Attached
<1>2. client' = client
  OBVIOUS
<1>3. PresenceTypeOK'
  BY DEF PresenceInv, PresenceTypeOK
<1> HIDE DEF Crash
<1>4. Attachments' /\ Owners'
  BY <1>1, <1>2 DEF PresenceInv, Attachments, Tidy, Owners
<1>5. \A P \in SUBSET Presences : Listed(P) => Behind(P, link', attachment', up', client')
  BY <1>1, <1>2 DEF Listed, Behind, Presences
<1>6. \A t \in Sockets : DOMAIN down'[t] = {}
  BY <1>1
<1>7. Lists' /\ Shows'
  BY <1>2, <1>3, <1>4, <1>5, <1>6, Told
<1>8. QED  BY <1>3, <1>4, <1>7 DEF PresenceInv

-----------------------------------------------------------------------------
\* What a list on its way holds.
LEMMA ListsAreTyped ==
  ASSUME PresenceInv
  PROVE  \A t \in Sockets : \A i \in DOMAIN down[t] : down[t][i].participants \in SUBSET Presences
<1> DEFINE M == [kind : {"ready", "presence"}, participants : SUBSET Presences]
<1>1. \A t \in Sockets : down[t] \in Seq(M)
  BY DEF PresenceInv, PresenceTypeOK
<1>2. \A m \in M : m.participants \in SUBSET Presences
  OBVIOUS
<1> HIDE DEF M
<1>3. QED  BY <1>1, <1>2

\* What a session does of its own accord leaves its socket and what it shows alone,
\* and sends its latest presence at most.
LEMMA OwnStep ==
  ASSUME PresenceInv, NEW c \in Clients, NEW x \in Sessions,
         client' = [client EXCEPT ![c] = x],
         x.socket = client[c].socket, x.shown = client[c].shown,
         client[c].no <= x.no, \A q \in x.local : q.no = x.no,
         UNCHANGED <<link, attachment, down>>,
         \/ up' = up
         \/ /\ x.socket \in Sockets
            /\ \E p \in Presences : /\ p.on = x.socket /\ p.no = x.no
                                    /\ up' = [up EXCEPT ![x.socket] = Append(@, p)]
  PROVE  PresenceInv'
<1>1. link' = link /\ attachment' = attachment /\ down' = down
  OBVIOUS
<1>2. \A d \in Clients : /\ client'[d].socket = client[d].socket
                         /\ client'[d].shown = client[d].shown
                         /\ client[d].no <= client'[d].no
                         /\ client[d].no \in Nat /\ client'[d].no \in Nat
                         /\ \A q \in client'[d].local : q.no = client'[d].no
  BY DEF PresenceInv, PresenceTypeOK, Sessions, Owners
<1>3. \A s \in Sockets : up[s] \in Seq(Presences)
  BY DEF PresenceInv, PresenceTypeOK
<1>4. PICK s \in Sockets \cup {NoSocket}, p \in Presences \cup {NoSocket} :
        \/ up' = up
        \/ /\ s \in Sockets /\ s = client[c].socket
           /\ p \in Presences /\ p.on = s /\ p.no = client'[c].no
           /\ up' = [up EXCEPT ![s] = Append(@, p)]
  <2>1. client'[c].no = x.no
    BY DEF PresenceInv, PresenceTypeOK
  <2>2. QED  BY <2>1
<1>5. PresenceTypeOK'
  <2>1. up' \in [Sockets -> Seq(Presences)]
    <3>1. CASE up' = up
      BY <3>1 DEF PresenceInv, PresenceTypeOK
    <3>2. CASE s \in Sockets /\ p \in Presences /\ up' = [up EXCEPT ![s] = Append(@, p)]
      <4>1. Append(up[s], p) \in Seq(Presences)
        BY <1>3, <3>2, Appended
      <4>2. QED  BY <3>2, <4>1 DEF PresenceInv, PresenceTypeOK
    <3>3. QED  BY <1>4, <3>1, <3>2
  <2>2. QED  BY <2>1 DEF PresenceInv, PresenceTypeOK
<1>6. \A t \in Sockets : /\ \A i \in DOMAIN up[t] : up[t][i].no \in Nat
                         /\ \A i \in DOMAIN up'[t] : up'[t][i].no \in Nat
                         /\ \A q \in attachment[t] : q.no \in Nat
  <2>0. \A q \in Presences : q.no \in Nat
    BY DEF Presences
  <2>1. \A q \in Seq(Presences) : \A i \in DOMAIN q : q[i].no \in Nat
    BY <2>0
  <2>2. \A t \in Sockets : up'[t] \in Seq(Presences)
    BY <1>5 DEF PresenceTypeOK
  <2>3. \A t \in Sockets : \A q \in attachment[t] : q.no \in Nat
    BY DEF PresenceInv, PresenceTypeOK, Presences
  <2>4. QED  BY <1>3, <2>1, <2>2, <2>3
\* What is new on a socket is its client's latest.
<1>7. ASSUME NEW t \in Sockets
      PROVE  /\ t # client[c].socket => up'[t] = up[t]
             /\ \A i \in DOMAIN up'[t] :
                  \/ i \in DOMAIN up[t] /\ up'[t][i] = up[t][i]
                  \/ /\ i \notin DOMAIN up[t] /\ t = client[c].socket
                     /\ up'[t][i].no = client'[c].no /\ up'[t][i].on = t
             /\ \A i, j \in DOMAIN up'[t] :
                  i <= j /\ i \notin DOMAIN up[t] => j \notin DOMAIN up[t]
  <2>1. CASE up'[t] = up[t]
    BY <2>1
  <2>2. CASE t = s /\ s = client[c].socket /\ p \in Presences /\ p.on = s
             /\ p.no = client'[c].no /\ up'[t] = Append(up[t], p)
    <3>1. /\ DOMAIN up[t] \subseteq Nat /\ DOMAIN up'[t] \subseteq Nat
          /\ \A i \in DOMAIN up[t], j \in DOMAIN up'[t] : j \notin DOMAIN up[t] => i < j
          /\ \A i \in DOMAIN up'[t] : \/ i \in DOMAIN up[t] /\ up'[t][i] = up[t][i]
                                      \/ i \notin DOMAIN up[t] /\ up'[t][i] = p
      BY <1>3, <2>2, Appended, SMTT(20)
    <3>2. \A i \in DOMAIN up'[t] :
            \/ i \in DOMAIN up[t] /\ up'[t][i] = up[t][i]
            \/ /\ i \notin DOMAIN up[t] /\ t = client[c].socket
               /\ up'[t][i].no = client'[c].no /\ up'[t][i].on = t
      <4>1. p.no = client'[c].no /\ p.on = t /\ t = client[c].socket
        BY <2>2
      <4>2. QED  BY <3>1, <4>1
    <3>3. \A i, j \in DOMAIN up'[t] : i <= j /\ i \notin DOMAIN up[t] => j \notin DOMAIN up[t]
      BY <3>1
    <3>4. QED  BY <2>2, <3>2, <3>3
  <2>3. QED  BY <1>3, <1>4, <2>1, <2>2 DEF PresenceInv, PresenceTypeOK
<1>8. \A t \in Sockets : t = client[c].socket =>
        /\ link[t] # "unused"
        /\ \A q \in attachment[t] : q.no <= client'[c].no
        /\ \A i \in DOMAIN up[t] : up[t][i].no <= client'[c].no
  <2>1. \A t \in Sockets : t = client[c].socket =>
          /\ link[t] # "unused"
          /\ \A q \in attachment[t] : q.no <= client[c].no
          /\ \A i \in DOMAIN up[t] : up[t][i].no <= client[c].no
    BY DEF PresenceInv, Owners
  <2>2. /\ client[c].no <= client'[c].no
        /\ client[c].no \in Nat /\ client'[c].no \in Nat
    BY <1>2
  <2>3. QED  BY <1>6, <2>1, <2>2
<1>9. Attachments'
  <2> SUFFICES ASSUME NEW t \in Sockets
               PROVE  /\ \A i \in DOMAIN up'[t] : up'[t][i].on = t
                      /\ \A q \in attachment[t], i \in DOMAIN up'[t] : q.no <= up'[t][i].no
                      /\ \A i, j \in DOMAIN up'[t] : i <= j => up'[t][i].no <= up'[t][j].no
                      /\ link[t] = "unused" => up'[t] = <<>>
    BY DEF PresenceInv, Attachments, Tidy
  <2>1. \A i \in DOMAIN up'[t] : up'[t][i].on = t
    BY <1>7 DEF PresenceInv, Attachments, Tidy
  <2>2. \A q \in attachment[t], i \in DOMAIN up'[t] : q.no <= up'[t][i].no
    BY <1>7, <1>8 DEF PresenceInv, Attachments, Tidy
  <2>3. ASSUME NEW i \in DOMAIN up'[t], NEW j \in DOMAIN up'[t], i <= j
        PROVE  up'[t][i].no <= up'[t][j].no
    <3>1. CASE i \in DOMAIN up[t] /\ j \in DOMAIN up[t]
      BY <1>7, <2>3, <3>1 DEF PresenceInv, Attachments, Tidy
    <3>2. CASE i \in DOMAIN up[t] /\ j \notin DOMAIN up[t]
      BY <1>7, <1>8, <3>2
    <3>3. CASE i \notin DOMAIN up[t]
      BY <1>6, <1>7, <2>3, <3>3
    <3>4. QED  BY <3>1, <3>2, <3>3
  <2>4. link[t] = "unused" => up'[t] = <<>>
    BY <1>7, <1>8 DEF PresenceInv, Attachments, Tidy
  <2>5. QED  BY <2>1, <2>2, <2>3, <2>4
<1>10. Owners'
  <2> SUFFICES ASSUME NEW d \in Clients, NEW t \in Sockets, client[d].socket = t
               PROVE  /\ \A q \in attachment[t] : q.no <= client'[d].no
                      /\ \A i \in DOMAIN up'[t] : up'[t][i].no <= client'[d].no
    BY <1>2, SMTT(20) DEF PresenceInv, Owners
  <2>1. /\ \A q \in attachment[t] : q.no <= client[d].no
        /\ \A i \in DOMAIN up[t] : up[t][i].no <= client[d].no
        /\ t = client[c].socket => d = c
    BY DEF PresenceInv, Owners
  <2>2. \A q \in attachment[t] : q.no <= client'[d].no
    BY <1>2, <1>6, <2>1
  <2>3. \A i \in DOMAIN up'[t] : up'[t][i].no <= client'[d].no
    BY <1>2, <1>6, <1>7, <2>1
  <2>4. QED  BY <2>2, <2>3
<1>11. \A P \in SUBSET Presences : Listed(P) => Behind(P, link', attachment', up', client')
  <2> SUFFICES ASSUME NEW P \in SUBSET Presences, Listed(P), NEW q \in P
               PROVE  /\ link'[q.on] # "unused"
                      /\ \A r \in attachment'[q.on] : q.no <= r.no
                      /\ \A i \in DOMAIN up'[q.on] : q.no <= up'[q.on][i].no
                      /\ \A d \in Clients : client'[d].socket = q.on => q.no <= client'[d].no
    BY DEF Behind
  <2>0. /\ link'[q.on] # "unused"
        /\ \A r \in attachment'[q.on] : q.no <= r.no
    BY <1>1 DEF Listed, Behind
  <2>1. q.on \in Sockets /\ q.no \in Nat
    BY DEF Presences
  <2>2. \A d \in Clients : client'[d].socket = q.on => q.no <= client'[d].no
    BY <1>2, <2>1 DEF Listed, Behind
  <2>3. \A i \in DOMAIN up'[q.on] : q.no <= up'[q.on][i].no
    BY <1>2, <1>7, <2>1, <2>2 DEF Listed, Behind
  <2>4. QED  BY <2>0, <2>2, <2>3
<1>12. Lists' /\ Shows'
  <2>1. \A t \in Sockets : \A i \in DOMAIN down[t] : down[t][i].participants \in SUBSET Presences
    BY ListsAreTyped
  <2>2. \A d \in Clients : client[d].shown \in SUBSET Presences
    BY DEF PresenceInv, PresenceTypeOK, Sessions
  <2>3. Lists'
    BY <1>11, <2>1 DEF PresenceInv, Lists, Listed
  <2>4. Shows'
    BY <1>2, <1>11, <2>2, ZenonT(40) DEF PresenceInv, Shows, Listed
  <2>5. QED  BY <2>3, <2>4
<1>13. QED  BY <1>5, <1>9, <1>10, <1>12 DEF PresenceInv

\* What a session sends is its presence, which is its latest.
LEMMA SendStep ==
  ASSUME PresenceInv, NEW c \in Clients, NEW x \in Sessions, Send(c, x),
         x.socket = client[c].socket, x.shown = client[c].shown,
         x.no = client[c].no, x.local = client[c].local
  PROVE  PresenceInv'
<1> DEFINE y == [x EXCEPT !.timer = FALSE]
<1>1. /\ client' = [client EXCEPT ![c] = y] /\ UNCHANGED <<link, attachment, down>>
      /\ y \in Sessions /\ y.socket = x.socket /\ y.shown = x.shown
      /\ y.no = x.no /\ y.local = x.local
  BY DEF Send, Become, Sessions
<1>2. client[c].no \in Nat /\ \A q \in x.local : q.no = x.no
  BY DEF PresenceInv, PresenceTypeOK, Sessions, Owners
<1> HIDE DEF y
<1>3. \/ up' = up
      \/ /\ y.socket \in Sockets
         /\ \E p \in Presences : /\ p.on = y.socket /\ p.no = y.no
                                 /\ up' = [up EXCEPT ![y.socket] = Append(@, p)]
  <2>1. CASE x.connected /\ x.local # {} /\ link[x.socket] = "open" /\ x.socket \in Sockets
    <3>1. PICK q \in x.local : q = CHOOSE p \in x.local : TRUE
      BY <2>1
    <3>2. q \in [by : Clients, as : Nat, no : Nat]
      BY DEF Sessions
    <3>3. OnSocket(x.socket, q) \in Presences /\ OnSocket(x.socket, q).on = x.socket
          /\ OnSocket(x.socket, q).no = x.no
      BY <1>2, <2>1, <3>2 DEF OnSocket, Presences
    <3>4. up' = [up EXCEPT ![x.socket] = Append(@, OnSocket(x.socket, q))]
      BY <2>1, <3>1 DEF Send
    <3>5. QED  BY <1>1, <2>1, <3>3, <3>4
  <2>2. CASE ~(x.connected /\ x.local # {} /\ link[x.socket] = "open")
    BY <2>2 DEF Send
  <2>3. CASE x.socket \notin Sockets
    <3>1. \A m : [up EXCEPT ![x.socket] = m] = up
      BY <2>3 DEF PresenceInv, PresenceTypeOK
    <3>2. up' = up
      BY <3>1 DEF Send
    <3>3. QED  BY <3>2
  <2>4. QED  BY <2>1, <2>2, <2>3
<1>4. /\ y.socket = client[c].socket /\ y.shown = client[c].shown
      /\ client[c].no <= y.no /\ \A q \in y.local : q.no = y.no
  BY <1>1, <1>2
<1>5. QED  BY <1>1, <1>3, <1>4, OwnStep

\* The actions of a session that keep its socket.
LEMMA StayStep ==
  ASSUME PresenceInv, NEW c \in Clients,
         \/ Start(c) \/ Restart(c) \/ SetPresence(c) \/ Timer(c) \/ ReplaceReplica(c) \/ Mount(c)
  PROVE  PresenceInv'
<1> DEFINE old == client[c]
<1>1. old \in Sessions /\ old.no \in Nat /\ old.replica \in Nat
  BY DEF PresenceInv, PresenceTypeOK, Sessions
<1>2. CASE Start(c)
  <2> DEFINE x == [old EXCEPT !.starting = FALSE]
  <2>1. x \in Sessions /\ Send(c, x) /\ x.socket = old.socket /\ x.shown = old.shown
        /\ x.no = old.no /\ x.local = old.local
    BY <1>1, <1>2 DEF Start, Sessions
  <2> HIDE DEF x
  <2>2. QED  BY <2>1, SendStep
<1>3. CASE Restart(c) \/ Timer(c)
  <2>1. Send(c, old)
    BY <1>3 DEF Restart, Timer
  <2>2. QED  BY <1>1, <2>1, SendStep
<1>4. CASE ReplaceReplica(c)
  <2> DEFINE m == old.mounting \/ old.local # {}
             x == [old EXCEPT !.replica = @ + 1, !.mounting = m]
  <2>1. m \in BOOLEAN
    OBVIOUS
  <2>2. Send(c, [old EXCEPT !.replica = @ + 1, !.mounting = @ \/ client[c].local # {}])
    BY <1>4 DEF ReplaceReplica
  <2>3. Send(c, x)
    BY <1>1, <2>2 DEF Sessions
  <2> HIDE DEF m
  <2>4. old.replica + 1 \in Nat
    BY <1>1
  <2>5. x \in Sessions /\ x.socket = old.socket /\ x.shown = old.shown
        /\ x.no = old.no /\ x.local = old.local
    <3> HIDE DEF old
    <3>1. QED  BY <1>1, <2>1, <2>4 DEF Sessions
  <2> HIDE DEF x
  <2>6. QED  BY <2>5, <2>3, SendStep
<1>5. CASE SetPresence(c) \/ Mount(c)
  <2> DEFINE p == [by |-> c, as |-> old.replica, no |-> old.no + 1]
             x == WithPresence(c)
  <2>1. client' = [client EXCEPT ![c] = x] /\ UNCHANGED <<link, attachment, up, down>>
    BY <1>5 DEF SetPresence, Mount, Become
  <2>2. x = [old EXCEPT !.no = @ + 1, !.timer = TRUE, !.mounting = FALSE, !.local = {p}]
    BY DEF WithPresence
  <2>3. p \in [by : Clients, as : Nat, no : Nat] /\ p.no = old.no + 1
    BY <1>1
  <2> HIDE DEF p, x
  <2>4. /\ x \in Sessions /\ x.socket = old.socket /\ x.shown = old.shown
        /\ x.no = old.no + 1 /\ x.local = {p}
    BY <1>1, <2>2, <2>3 DEF Sessions
  <2>5. old.no <= x.no /\ \A q \in x.local : q.no = x.no
    BY <1>1, <2>3, <2>4
  <2>6. QED  BY <2>1, <2>4, <2>5, OwnStep
<1>6. QED  BY <1>2, <1>3, <1>4, <1>5

\* The connection ends, or the session.
LEMMA LeaveStep ==
  ASSUME PresenceInv, NEW c \in Clients, NEW x \in Sessions,
         client' = [client EXCEPT ![c] = x], UNCHANGED <<attachment, up, down>>,
         x.socket = NoSocket, x.shown = {}, x.no = client[c].no, x.local = client[c].local,
         link' \in [Sockets -> {"unused", "accepted", "open", "left", "closed"}],
         \A s \in Sockets : link[s] # "unused" <=> link'[s] # "unused"
  PROVE  PresenceInv'
<1>1. \A d \in Clients : /\ client'[d].no = client[d].no /\ client'[d].local = client[d].local
                         /\ d # c => client'[d] = client[d]
      /\ client'[c] = x
  BY DEF PresenceInv, PresenceTypeOK
<1>2. \A d \in Clients, s \in Sockets : client'[d].socket = s => d # c /\ client[d].socket = s
  BY <1>1, PresenceAssumption
<1>3. PresenceTypeOK'
  BY DEF PresenceInv, PresenceTypeOK
<1>4. Attachments'
  <2> SUFFICES ASSUME NEW t \in Sockets
               PROVE  Tidy(t, attachment[t], up[t], link'[t])
    BY DEF Attachments
  <2>1. Tidy(t, attachment[t], up[t], link[t])
    BY DEF PresenceInv, Attachments
  <2>2. QED  BY <2>1 DEF Tidy
<1>5. Owners'
  <2>1. \A d \in Clients : \A q \in client'[d].local : q.no = client'[d].no
    BY <1>1 DEF PresenceInv, Owners
  <2>2. ASSUME NEW d \in Clients, NEW s \in Sockets, client'[d].socket = s
        PROVE  /\ link'[s] # "unused"
               /\ \A p \in attachment[s] : p.no <= client'[d].no
               /\ \A i \in DOMAIN up[s] : up[s][i].no <= client'[d].no
               /\ \A e \in Clients : client'[e].socket = s => d = e
    <3>1. client[d].socket = s /\ client'[d].no = client[d].no
      BY <1>1, <1>2, <2>2
    <3>2. \A e \in Clients : client'[e].socket = s => client[e].socket = s
      BY <1>2
    <3>3. QED  BY <3>1, <3>2 DEF PresenceInv, Owners
  <2>3. QED  BY <2>1, <2>2 DEF Owners
<1>6. \A P \in SUBSET Presences : Listed(P) => Behind(P, link', attachment', up', client')
  <2> SUFFICES ASSUME NEW P \in SUBSET Presences, Listed(P), NEW q \in P
               PROVE  /\ link'[q.on] # "unused"
                      /\ \A r \in attachment'[q.on] : q.no <= r.no
                      /\ \A i \in DOMAIN up'[q.on] : q.no <= up'[q.on][i].no
                      /\ \A d \in Clients : client'[d].socket = q.on => q.no <= client'[d].no
    BY DEF Behind
  <2>1. q.on \in Sockets
    BY DEF Presences
  <2>2. QED  BY <1>1, <1>2, <2>1, ZenonT(40) DEF Listed, Behind
<1>7. Lists'
  <2>1. \A t \in Sockets : \A i \in DOMAIN down[t] : down[t][i].participants \in SUBSET Presences
    BY ListsAreTyped
  <2>2. QED  BY <1>6, <2>1 DEF PresenceInv, Lists, Listed
<1>8. Shows'
  <2>1. \A d \in Clients : client[d].shown \in SUBSET Presences
    BY DEF PresenceInv, PresenceTypeOK, Sessions
  <2>2. Behind({}, link', attachment', up', client') /\ Follows({}, {})
    BY DEF Behind, Follows
  <2>3. ASSUME NEW d \in Clients
        PROVE  /\ Behind(client'[d].shown, link', attachment', up', client')
               /\ Follows(client'[d].shown, client'[d].shown)
               /\ client'[d].socket = NoSocket => client'[d].shown = {}
               /\ \A s \in Sockets : client'[d].socket = s =>
                    \A i \in DOMAIN down[s] : Follows(client'[d].shown, down[s][i].participants)
    <3>1. CASE d = c
      <4>1. client'[d].shown = {} /\ \A s \in Sockets : client'[d].socket # s
        BY <1>1, <1>2, <3>1
      <4>2. QED  BY <2>2, <4>1
    <3>2. CASE d # c
      BY <1>1, <1>6, <2>1, <3>2, ZenonT(40) DEF PresenceInv, Shows, Listed
    <3>3. QED  BY <3>1, <3>2
  <2>4. QED  BY <2>3 DEF Shows, Listed
<1>9. QED  BY <1>3, <1>4, <1>5, <1>7, <1>8 DEF PresenceInv

\* The connection breaks, is closed or goes silent.
LEMMA DisconnectStep ==
  ASSUME PresenceInv, NEW c \in Clients, Disconnect(c)
  PROVE  PresenceInv'
<1> DEFINE x == Disconnected(client[c])
<1>1. client[c] \in Sessions
  BY DEF PresenceInv, PresenceTypeOK
<1>2. /\ x \in Sessions /\ x.socket = NoSocket /\ x.shown = {}
      /\ x.no = client[c].no /\ x.local = client[c].local
  BY <1>1 DEF Disconnected, Sessions
<1>3. client' = [client EXCEPT ![c] = x] /\ UNCHANGED <<attachment, up, down>>
  BY DEF Disconnect, Become
<1>4. client[c].socket \in Sockets
  BY <1>1 DEF Disconnect, Sessions
<1>5. /\ link' \in [Sockets -> {"unused", "accepted", "open", "left", "closed"}]
      /\ \A s \in Sockets : link[s] # "unused" <=> link'[s] # "unused"
  BY <1>4 DEF Disconnect, Left, PresenceInv, PresenceTypeOK, Owners
<1> HIDE DEF x
<1>6. QED  BY <1>2, <1>3, <1>5, LeaveStep

\* The session ends.
LEMMA DestroyStep ==
  ASSUME PresenceInv, NEW c \in Clients, Destroy(c)
  PROVE  PresenceInv'
<1> DEFINE x == [Disconnected(client[c]) EXCEPT !.ended = TRUE, !.timer = FALSE]
<1>1. client[c] \in Sessions
  BY DEF PresenceInv, PresenceTypeOK
<1>2. /\ x \in Sessions /\ x.socket = NoSocket /\ x.shown = {}
      /\ x.no = client[c].no /\ x.local = client[c].local
  BY <1>1 DEF Disconnected, Sessions
<1>3. client' = [client EXCEPT ![c] = x] /\ UNCHANGED <<attachment, up, down>>
  BY DEF Destroy, Become
<1>4. /\ link' \in [Sockets -> {"unused", "accepted", "open", "left", "closed"}]
      /\ \A s \in Sockets : link[s] # "unused" <=> link'[s] # "unused"
  <2>1. CASE client[c].socket = NoSocket
    BY <2>1 DEF Destroy, PresenceInv, PresenceTypeOK
  <2>2. CASE client[c].socket # NoSocket
    <3>1. client[c].socket \in Sockets
      BY <1>1, <2>2 DEF Sessions
    <3>2. QED  BY <2>2, <3>1 DEF Destroy, Left, PresenceInv, PresenceTypeOK, Owners
  <2>3. QED  BY <2>1, <2>2
<1> HIDE DEF x
<1>5. QED  BY <1>2, <1>3, <1>4, LeaveStep

\* A new connection is in no list.
LEMMA OpenStep ==
  ASSUME PresenceInv, NEW c \in Clients, Open(c)
  PROVE  PresenceInv'
<1>1. PICK s \in Sockets : /\ link[s] = "unused"
                           /\ link' = [link EXCEPT ![s] = "accepted"]
                           /\ client' = [client EXCEPT ![c] = [client[c] EXCEPT !.socket = s]]
  <2>1. PICK s \in Unused : s = CHOOSE t \in Unused : TRUE
    BY DEF Open
  <2>2. QED  BY <2>1 DEF Open, Become, Unused
<1>2. attachment' = attachment /\ up' = up /\ down' = down
  BY DEF Open
<1>3. client[c] \in Sessions /\ client[c].socket = NoSocket /\ client[c].shown = {}
  BY DEF Open, Away, PresenceInv, PresenceTypeOK, Shows
<1>4. \A d \in Clients : /\ client'[d].no = client[d].no /\ client'[d].local = client[d].local
                         /\ client'[d].shown = client[d].shown
                         /\ client'[d].socket = IF d = c THEN s ELSE client[d].socket
  BY <1>1, <1>3 DEF PresenceInv, PresenceTypeOK, Sessions
<1>5. \A t \in Sockets : link'[t] = IF t = s THEN "accepted" ELSE link[t]
  BY <1>1 DEF PresenceInv, PresenceTypeOK
<1>6. attachment[s] = {} /\ up[s] = <<>> /\ DOMAIN up[s] = {}
      /\ \A d \in Clients : client[d].socket # s
  BY <1>1 DEF PresenceInv, Attachments, Tidy, Owners
<1>7. PresenceTypeOK'
  <2>1. [client[c] EXCEPT !.socket = s] \in Sessions
    BY <1>3 DEF Sessions
  <2>2. QED  BY <1>1, <1>2, <2>1 DEF PresenceInv, PresenceTypeOK
<1>8. Attachments'
  <2> SUFFICES ASSUME NEW t \in Sockets
               PROVE  Tidy(t, attachment[t], up[t], link'[t])
    BY <1>2 DEF Attachments
  <2>1. Tidy(t, attachment[t], up[t], link[t])
    BY DEF PresenceInv, Attachments
  <2>2. QED  BY <1>5, <2>1 DEF Tidy
<1>9. Owners'
  <2>1. \A d \in Clients : \A q \in client'[d].local : q.no = client'[d].no
    BY <1>4 DEF PresenceInv, Owners
  <2>2. ASSUME NEW d \in Clients, NEW t \in Sockets, client'[d].socket = t
        PROVE  /\ link'[t] # "unused"
               /\ \A p \in attachment[t] : p.no <= client'[d].no
               /\ \A i \in DOMAIN up[t] : up[t][i].no <= client'[d].no
               /\ \A e \in Clients : client'[e].socket = t => d = e
    <3>1. CASE t = s
      BY <1>4, <1>5, <1>6, <2>2, <3>1
    <3>2. CASE t # s
      <4>1. client[d].socket = t /\ \A e \in Clients : client'[e].socket = t => client[e].socket = t
        BY <1>4, <2>2, <3>2
      <4>2. QED  BY <1>4, <1>5, <3>2, <4>1 DEF PresenceInv, Owners
    <3>3. QED  BY <3>1, <3>2
  <2>3. QED  BY <1>2, <2>1, <2>2 DEF Owners
<1>10. \A P \in SUBSET Presences : Listed(P) => Behind(P, link', attachment', up', client')
  <2> SUFFICES ASSUME NEW P \in SUBSET Presences, Listed(P), NEW q \in P
               PROVE  /\ link'[q.on] # "unused"
                      /\ \A r \in attachment'[q.on] : q.no <= r.no
                      /\ \A i \in DOMAIN up'[q.on] : q.no <= up'[q.on][i].no
                      /\ \A d \in Clients : client'[d].socket = q.on => q.no <= client'[d].no
    BY DEF Behind
  <2>1. q.on \in Sockets /\ q.on # s
    BY <1>1 DEF Presences, Listed, Behind
  <2>2. QED  BY <1>2, <1>4, <1>5, <2>1 DEF Listed, Behind
<1>11. Lists'
  BY <1>2, <1>10, ListsAreTyped DEF PresenceInv, Lists, Listed
<1>12. Shows'
  <2>1. \A d \in Clients : client[d].shown \in SUBSET Presences
    BY DEF PresenceInv, PresenceTypeOK, Sessions
  <2>2. \A P : Follows({}, P)
    BY DEF Follows
  <2>3. ASSUME NEW d \in Clients
        PROVE  /\ Behind(client'[d].shown, link', attachment', up', client')
               /\ Follows(client'[d].shown, client'[d].shown)
               /\ client'[d].socket = NoSocket => client'[d].shown = {}
               /\ \A t \in Sockets : client'[d].socket = t =>
                    \A i \in DOMAIN down[t] : Follows(client'[d].shown, down[t][i].participants)
    <3>1. CASE d = c
      BY <1>3, <1>4, <1>10, <2>1, <2>2, <3>1 DEF PresenceInv, Shows, Listed
    <3>2. CASE d # c
      BY <1>4, <1>10, <2>1, <3>2 DEF PresenceInv, Shows, Listed
    <3>3. QED  BY <3>1, <3>2
  <2>4. QED  BY <1>2, <2>3 DEF Shows, Listed
<1>13. QED  BY <1>7, <1>8, <1>9, <1>11, <1>12 DEF PresenceInv

\* What is received follows what was shown, and comes before what is still to be received.
LEMMA ReceiveStep ==
  ASSUME PresenceInv, NEW c \in Clients, Receive(c)
  PROVE  PresenceInv' /\ Follows(client[c].shown, client'[c].shown)
<1> DEFINE s == client[c].socket
           M == [kind : {"ready", "presence"}, participants : SUBSET Presences]
           message == Head(down[s])
           rest == Tail(down[s])
           P == message.participants
<1>1. client[c] \in Sessions /\ s \in Sockets /\ down[s] \in Seq(M) /\ down[s] # <<>>
  <2>1. client[c] \in Sessions /\ down \in [Sockets -> Seq(M)]
    BY DEF PresenceInv, PresenceTypeOK
  <2>2. s # NoSocket /\ down[s] # <<>>
    BY DEF Receive
  <2>3. s \in Sockets
    BY <2>1, <2>2 DEF Sessions
  <2>4. QED  BY <2>1, <2>2, <2>3
<1>2. message \in M /\ P \in SUBSET Presences
  <2>1. \A q \in Seq(M) : q # <<>> => Head(q) \in M
    BY HeadTailProperties
  <2>2. message \in M
    BY <1>1, <2>1
  <2>3. QED  BY <2>2
<1>3. PICK x \in Sessions :
        /\ client' = [client EXCEPT ![c] = x]
        /\ x.socket = s /\ x.no = client[c].no /\ x.local = client[c].local
        /\ x.shown \in {client[c].shown, P}
  <2> DEFINE Q == {p \in P : ~Own(c, p)}
             x == [client[c] EXCEPT !.connected = TRUE, !.starting = TRUE]
             y == [client[c] EXCEPT !.shown = P, !.others = Q]
  <2>1. Q \in SUBSET Presences
    BY <1>2
  <2>2. client' \in {[client EXCEPT ![c] = x], [client EXCEPT ![c] = y]}
    BY DEF Receive, Become
  <2> HIDE DEF Q, P, s
  <2>3. /\ x \in Sessions /\ x.socket = client[c].socket /\ x.no = client[c].no
        /\ x.local = client[c].local /\ x.shown = client[c].shown
    BY <1>1 DEF Sessions
  <2>4. /\ y \in Sessions /\ y.socket = client[c].socket /\ y.no = client[c].no
        /\ y.local = client[c].local /\ y.shown = P
    BY <1>1, <1>2, <2>1 DEF Sessions
  <2> HIDE DEF x, y
  <2>5. QED  BY <2>2, <2>3, <2>4 DEF s
<1>4. UNCHANGED <<link, attachment, up>> /\ down' = [down EXCEPT ![s] = rest]
  BY DEF Receive
<1>5. /\ P = down[s][1].participants /\ 1 \in DOMAIN down[s] /\ rest \in Seq(M)
      /\ \A i \in DOMAIN rest : /\ i \in Nat /\ i >= 1 /\ i + 1 \in DOMAIN down[s]
                                /\ rest[i] = down[s][i + 1]
  BY <1>1
<1> HIDE DEF M, rest, P, s, message
<1>6. \A i, j \in DOMAIN down[s] :
        i <= j => Follows(down[s][i].participants, down[s][j].participants)
  BY <1>1 DEF PresenceInv, Lists
<1>7. /\ \A i \in DOMAIN rest : Follows(P, rest[i].participants)
      /\ \A i, j \in DOMAIN rest : i <= j => Follows(rest[i].participants, rest[j].participants)
      /\ Follows(P, P) /\ Listed(P)
      /\ \A i \in DOMAIN rest : Listed(rest[i].participants)
      /\ Follows(client[c].shown, P)
      /\ \A i \in DOMAIN rest : Follows(client[c].shown, rest[i].participants)
  <2>1. ASSUME NEW i \in DOMAIN rest
        PROVE  /\ Follows(P, rest[i].participants)
               /\ Listed(rest[i].participants)
               /\ Follows(client[c].shown, rest[i].participants)
    <3>1. i + 1 \in DOMAIN down[s] /\ 1 <= i + 1 /\ rest[i] = down[s][i + 1]
      BY <1>5
    <3>2. Follows(P, down[s][i + 1].participants)
      BY <1>5, <1>6, <3>1
    <3>3. Listed(down[s][i + 1].participants)
      BY <1>1, <3>1 DEF PresenceInv, Lists
    <3>4. Follows(client[c].shown, down[s][i + 1].participants)
      BY <1>1, <3>1 DEF PresenceInv, Shows, s
    <3>5. QED  BY <3>1, <3>2, <3>3, <3>4
  <2>2. ASSUME NEW i \in DOMAIN rest, NEW j \in DOMAIN rest, i <= j
        PROVE  Follows(rest[i].participants, rest[j].participants)
    <3>1. i + 1 \in DOMAIN down[s] /\ j + 1 \in DOMAIN down[s] /\ i + 1 <= j + 1
      BY <1>5, <2>2
    <3>2. QED  BY <1>5, <1>6, <3>1
  <2>3. Follows(P, P) /\ Listed(P)
    BY <1>1, <1>5, <1>6 DEF PresenceInv, Lists
  <2>4. Follows(client[c].shown, P)
    BY <1>1, <1>5 DEF PresenceInv, Shows, s
  <2>5. QED  BY <2>1, <2>2, <2>3, <2>4
<1>8. \A d \in Clients : /\ client'[d].socket = client[d].socket /\ client'[d].no = client[d].no
                         /\ client'[d].local = client[d].local
                         /\ client'[d].shown = IF d = c THEN x.shown ELSE client[d].shown
  BY <1>3 DEF PresenceInv, PresenceTypeOK, s
<1>9. \A t \in Sockets : down'[t] = IF t = s THEN rest ELSE down[t]
  BY <1>1, <1>4 DEF PresenceInv, PresenceTypeOK
<1>10. PresenceTypeOK'
  <2>1. down \in [Sockets -> Seq(M)]
    BY DEF M, PresenceInv, PresenceTypeOK
  <2>2. down' \in [Sockets -> Seq(M)]
    BY <1>4, <1>5, <2>1
  <2>3. QED  BY <1>3, <1>4, <2>2 DEF M, PresenceInv, PresenceTypeOK
<1>11. Attachments' /\ Owners'
  BY <1>4, <1>8, SMTT(20) DEF PresenceInv, Attachments, Owners
<1>12. \A Q : Listed(Q) => Behind(Q, link', attachment', up', client')
  BY <1>4, <1>8 DEF Listed, Behind
<1>13. Lists'
  <2> SUFFICES ASSUME NEW t \in Sockets
               PROVE  /\ \A i \in DOMAIN down'[t] : Listed(down'[t][i].participants)
                      /\ \A i, j \in DOMAIN down'[t] :
                           i <= j => Follows(down'[t][i].participants, down'[t][j].participants)
    BY <1>12 DEF Lists, Listed
  <2>1. CASE t = s
    BY <1>7, <1>9, <2>1
  <2>2. CASE t # s
    BY <1>9, <2>2 DEF PresenceInv, Lists
  <2>3. QED  BY <2>1, <2>2
<1>14. Shows'
  <2>1. ASSUME NEW d \in Clients
        PROVE  /\ Listed(client'[d].shown)
               /\ Follows(client'[d].shown, client'[d].shown)
               /\ client'[d].socket = NoSocket => client'[d].shown = {}
               /\ \A t \in Sockets : client'[d].socket = t =>
                    \A i \in DOMAIN down'[t] : Follows(client'[d].shown, down'[t][i].participants)
    <3>1. CASE d = c
      <4>1. client'[d].socket = s /\ s # NoSocket /\ client'[d].shown = x.shown
        BY <1>1, <1>8, <3>1, PresenceAssumption DEF s
      <4>2. Listed(x.shown) /\ Follows(x.shown, x.shown)
            /\ \A i \in DOMAIN rest : Follows(x.shown, rest[i].participants)
        BY <1>3, <1>7 DEF PresenceInv, Shows
      <4>3. QED  BY <1>9, <4>1, <4>2
    <3>2. CASE d # c
      <4>1. client[d].socket # s
        BY <1>1, <3>2 DEF PresenceInv, Owners, s
      <4>2. QED  BY <1>8, <1>9, <3>2, <4>1 DEF PresenceInv, Shows
    <3>3. QED  BY <3>1, <3>2
  <2>2. QED  BY <1>12, <2>1 DEF Shows, Listed
<1>15. Follows(client[c].shown, client'[c].shown)
  BY <1>3, <1>7, <1>8 DEF PresenceInv, Shows
<1>16. QED  BY <1>10, <1>11, <1>13, <1>14, <1>15 DEF PresenceInv

\* Nobody is connected yet.
LEMMA Initially == Init => PresenceInv
<1> SUFFICES ASSUME Init
             PROVE  PresenceInv
  OBVIOUS
<1> USE DEF Init
<1>1. NewClient \in Sessions /\ NewClient.shown = {} /\ NewClient.local = {}
      /\ NewClient.socket = NoSocket
  BY DEF NewClient, Sessions
<1>2. PresenceTypeOK
  BY <1>1 DEF PresenceTypeOK
<1>3. \A c \in Clients : client[c] = NewClient
  OBVIOUS
<1>4. Attachments
  BY DEF Attachments, Tidy
<1>5. Owners
  BY <1>1, <1>3, PresenceAssumption DEF Owners
<1>6. Lists
  BY DEF Lists
<1>7. Shows
  BY <1>1, <1>3, PresenceAssumption DEF Shows, Listed, Behind, Follows
<1>8. QED  BY <1>2, <1>4, <1>5, <1>6, <1>7 DEF PresenceInv

\* Only Receive changes what is shown on a connection, and what it shows follows.
LEMMA ShownFollows ==
  ASSUME PresenceInv, PresenceNext, NEW c \in Clients, client[c].socket = client'[c].socket
  PROVE  Follows(client[c].shown, client'[c].shown)
<1>1. Follows(client[c].shown, client[c].shown)
  BY DEF PresenceInv, Shows
<1>2. CASE client' = client
  BY <1>1, <1>2
<1>3. ASSUME NEW d \in Clients, NEW x, client' = [client EXCEPT ![d] = x],
             x.shown \in {client[d].shown, {}}
      PROVE  Follows(client[c].shown, client'[c].shown)
  <2>1. Follows(client[c].shown, {})
    BY DEF Follows
  <2>2. client'[c].shown \in {client[c].shown, {}}
    BY <1>3 DEF PresenceInv, PresenceTypeOK
  <2>3. QED  BY <1>1, <2>1, <2>2
<1>4. ASSUME NEW d \in Clients, NEW x \in Sessions, Send(d, x), x.shown = client[d].shown
      PROVE  Follows(client[c].shown, client'[c].shown)
  <2> DEFINE y == [x EXCEPT !.timer = FALSE]
  <2>1. y.shown = x.shown
    BY DEF Sessions
  <2>2. client' = [client EXCEPT ![d] = y]
    BY <1>4 DEF Send, Become
  <2> HIDE DEF y
  <2>3. QED  BY <1>3, <1>4, <2>1, <2>2
<1>5. CASE RoomNext \/ Crash
  BY <1>2, <1>5 DEF RoomNext, Greet, StorePresence, Close, Crash
<1>6. CASE SessionNext
  <2> SUFFICES ASSUME NEW d \in Clients,
                      \/ Open(d) \/ Start(d) \/ Restart(d) \/ SetPresence(d) \/ Timer(d)
                      \/ ReplaceReplica(d) \/ Mount(d) \/ Receive(d) \/ Lose(d)
                      \/ NoticeClose(d) \/ Destroy(d)
               PROVE  Follows(client[c].shown, client'[c].shown)
    BY <1>6 DEF SessionNext
  <2> DEFINE old == client[d]
  <2>0. old \in Sessions
    BY DEF PresenceInv, PresenceTypeOK
  <2>1. CASE Open(d)
    <3> DEFINE x(s) == [old EXCEPT !.socket = s]
    <3>1. \E s : client' = [client EXCEPT ![d] = x(s)]
      BY <2>1 DEF Open, Become
    <3>2. \A s : x(s).shown = old.shown
      BY <2>0 DEF Sessions
    <3> HIDE DEF x
    <3>3. QED  BY <1>3, <3>1, <3>2
  <2>2. CASE Start(d)
    <3>1. Send(d, [old EXCEPT !.starting = FALSE])
      BY <2>2 DEF Start
    <3>2. /\ [old EXCEPT !.starting = FALSE] \in Sessions
          /\ [old EXCEPT !.starting = FALSE].shown = old.shown
      BY <2>0 DEF Sessions
    <3>3. QED  BY <1>4, <3>1, <3>2
  <2>3. CASE Restart(d) \/ Timer(d)
    BY <1>4, <2>0, <2>3 DEF Restart, Timer
  <2>4. CASE ReplaceReplica(d)
    <3> DEFINE y == [[old EXCEPT !.replica = @ + 1, !.mounting = @ \/ client[d].local # {}]
                       EXCEPT !.timer = FALSE]
    <3>1. client' = [client EXCEPT ![d] = y]
      BY <2>4 DEF ReplaceReplica, Send, Become
    <3>2. y.shown = old.shown
      BY <2>0 DEF Sessions
    <3> HIDE DEF y
    <3>3. QED  BY <1>3, <3>1, <3>2
  <2>5. CASE SetPresence(d) \/ Mount(d)
    <3>1. client' = [client EXCEPT ![d] = WithPresence(d)]
      BY <2>5 DEF SetPresence, Mount, Become
    <3>2. WithPresence(d).shown = old.shown
      BY <2>0 DEF WithPresence, Sessions
    <3>3. QED  BY <1>3, <3>1, <3>2
  <2>6. CASE Receive(d)
    <3>1. Follows(client[d].shown, client'[d].shown)
      BY <2>6, ReceiveStep
    <3>2. CASE d = c
      BY <3>1, <3>2
    <3>3. CASE d # c
      <4>1. client'[c] = client[c]
        BY <2>6, <3>3 DEF Receive, Become, PresenceInv, PresenceTypeOK
      <4>2. QED  BY <1>1, <4>1
    <3>4. QED  BY <3>2, <3>3
  <2>7. CASE Lose(d) \/ NoticeClose(d)
    <3>1. client' = [client EXCEPT ![d] = Disconnected(old)] /\ Disconnected(old).shown = {}
      BY <2>0, <2>7 DEF Lose, NoticeClose, Disconnect, Become, Disconnected, Sessions
    <3>2. QED  BY <1>3, <3>1
  <2>8. CASE Destroy(d)
    <3> DEFINE y == [Disconnected(old) EXCEPT !.ended = TRUE, !.timer = FALSE]
    <3>1. client' = [client EXCEPT ![d] = y] /\ y.shown = {}
      BY <2>0, <2>8 DEF Destroy, Become, Disconnected, Sessions
    <3> HIDE DEF y
    <3>2. QED  BY <1>3, <3>1
  <2>9. QED  BY <2>1, <2>2, <2>3, <2>4, <2>5, <2>6, <2>7, <2>8
<1>7. QED  BY <1>5, <1>6 DEF PresenceNext

\* The lists stay in order, whatever happens.
LEMMA Inductive == PresenceInv /\ [PresenceNext]_vars => PresenceInv'
<1> SUFFICES ASSUME PresenceInv, [PresenceNext]_vars
             PROVE  PresenceInv'
  OBVIOUS
<1>1. CASE UNCHANGED vars
  <2>1. /\ link' = link /\ attachment' = attachment /\ up' = up
        /\ down' = down /\ client' = client
    BY <1>1 DEF vars
  <2>2. PresenceTypeOK'
    BY <2>1 DEF PresenceInv, PresenceTypeOK
  <2>3. Attachments'
    BY <2>1 DEF PresenceInv, Attachments
  <2>4. Owners'
    BY <2>1 DEF PresenceInv, Owners
  <2>5. Lists'
    BY <2>1 DEF PresenceInv, Lists, Listed
  <2>6. Shows'
    BY <2>1 DEF PresenceInv, Shows, Listed
  <2>7. QED  BY <2>2, <2>3, <2>4, <2>5, <2>6 DEF PresenceInv
<1>2. CASE RoomNext
  BY <1>2, GreetStep, StoreStep, CloseStep DEF RoomNext
<1>3. CASE Crash
  BY <1>3, CrashStep
<1>4. CASE SessionNext
  BY <1>4, OpenStep, StayStep, ReceiveStep, DisconnectStep, DestroyStep
     DEF SessionNext, Lose, NoticeClose
<1>5. QED  BY <1>1, <1>2, <1>3, <1>4 DEF PresenceNext

-----------------------------------------------------------------------------
\* Every reachable state of the presences has the declared types, and every list is in
\* order: each on its way to a client follows those before it and is behind what its
\* sockets hold and are still to be sent.
THEOREM PresenceIsOrdered == PresenceSpec => []PresenceInv
BY Initially, Inductive, PTL DEF PresenceSpec

\* What is shown of a connection is never followed by what came on it before, for any
\* participants, sockets, resets and replaced replicas.
THEOREM NoOlderPresence == PresenceSpec => NeverOlder
<1>1. PresenceInv /\ [PresenceNext]_vars =>
        [\A c \in Clients :
           client[c].socket = client'[c].socket =>
             \A p \in client[c].shown, q \in client'[c].shown : p.on = q.on => p.no <= q.no]_vars
  BY ShownFollows DEF Follows
<1>2. QED  BY <1>1, PresenceIsOrdered, PTL DEF PresenceSpec, NeverOlder
-----------------------------------------------------------------------------
(* What everybody is shown when nothing is on its way *)

\* What the room holds of its connections.
Current == UNION {attachment[t] : t \in Attached}

\* A client that is open to the room was told this, or the last list on its way is it.
LatestIsTold ==
  \A s \in Sockets : link[s] = "open" =>
    IF down[s] = <<>> THEN \A c \in Clients : client[c].socket = s => client[c].shown = Current
    ELSE down[s][Len(down[s])] = [kind |-> "presence", participants |-> Current]

\* A client with nothing left to send has sent its presence on its connection.
SentOf(local, s) == {OnSocket(s, p) : p \in local}
Sent(c, s) == SentOf(client[c].local, s)
LastSent(s) == IF up[s] = <<>> THEN attachment[s] ELSE {up[s][Len(up[s])]}
LatestIsSent ==
  \A c \in Clients, s \in Sockets :
    client[c].socket = s /\ link[s] = "open" =>
      /\ client[c].local = {} => up[s] = <<>> /\ attachment[s] = {}
      /\ client[c].connected /\ ~client[c].starting /\ ~client[c].timer => LastSent(s) = Sent(c, s)

\* The connections that the room holds for open are those of clients, and a client that
\* was not greeted on its connection is not connected.
Connections ==
  /\ \A s \in Sockets : link[s] \in {"accepted", "open"} => \E c \in Clients : client[c].socket = s
  /\ \A s \in Sockets : link[s] \in {"unused", "accepted"} =>
       /\ attachment[s] = {} /\ up[s] = <<>>
       /\ \A i \in DOMAIN down[s] : down[s][i].kind # "ready"
       /\ \A c \in Clients : client[c].socket = s => ~client[c].connected
  /\ \A c \in Clients : client[c].socket = NoSocket => ~client[c].connected
  /\ \A c \in Clients : client[c].ended => client[c].socket = NoSocket

\* A presence names a replica its author has had; who is not among the others was
\* recognized by the replica of that moment.
FormerOf(p, cl) == p.as <= cl[p.by].replica
Former(p) == FormerOf(p, client)
LocalIsOwn ==
  \A c \in Clients : \A p \in client[c].local :
    /\ p.by = c /\ p.as <= client[c].replica
    /\ client[c].local = {p}
    /\ ~client[c].mounting => p.as = client[c].replica
Recognized ==
  \A c \in Clients :
    /\ \A p \in client[c].shown : Former(p) /\ (p.by # c => p \in client[c].others)
    /\ \A p \in client[c].others : p.by = c => p.as < client[c].replica
ListsAreFormer ==
  \A s \in Sockets :
    /\ \A p \in attachment[s] : Former(p)
    /\ \A i \in DOMAIN up[s] : Former(up[s][i])
    /\ \A i \in DOMAIN down[s] : \A p \in down[s][i].participants : Former(p)

QuietInv ==
  LatestIsTold /\ LatestIsSent /\ Connections /\ LocalIsOwn /\ Recognized /\ ListsAreFormer

Message == [kind : {"ready", "presence"}, participants : SUBSET Presences]

\* The last of a queue: of one that is extended, and of one that is taken from.
LEMMA LastOfMore ==
  ASSUME NEW M, NEW q \in Seq(M), NEW m \in M, NEW n \in M
  PROVE  /\ Append(q, m) # <<>> /\ Append(q, m)[Len(Append(q, m))] = m
         /\ q \o <<m, n>> # <<>> /\ (q \o <<m, n>>)[Len(q \o <<m, n>>)] = n
<1>1. Append(q, m) # <<>> /\ Append(q, m)[Len(Append(q, m))] = m
  OBVIOUS
<1>2. <<m, n>> \in Seq(M) /\ Len(<<m, n>>) = 2 /\ <<m, n>>[2] = n
  OBVIOUS
<1>3. ASSUME NEW r \in Seq(M), Len(r) = 2
      PROVE  q \o r # <<>> /\ (q \o r)[Len(q \o r)] = r[2]
  <2>1. Len(q \o r) = Len(q) + 2 /\ Len(q) \in Nat
    BY <1>3, ConcatProperties
  <2>2. (q \o r)[Len(q) + 2] = r[2]
    BY <1>3, <2>1, ConcatProperties
  <2>3. QED  BY <2>1, <2>2
<1>4. QED  BY <1>1, <1>2, <1>3

LEMMA LastOfRest ==
  ASSUME NEW M, NEW q \in Seq(M), q # <<>>
  PROVE  /\ Tail(q) \in Seq(M) /\ 1 \in DOMAIN q /\ Len(q) \in DOMAIN q /\ Head(q) = q[1]
         /\ Tail(q) = <<>> => q[Len(q)] = Head(q)
         /\ Tail(q) # <<>> => Tail(q)[Len(Tail(q))] = q[Len(q)]
         /\ \A i \in DOMAIN Tail(q) : i + 1 \in DOMAIN q /\ Tail(q)[i] = q[i + 1]
<1>1. /\ Len(q) \in Nat \ {0} /\ DOMAIN q = 1 .. Len(q) /\ Head(q) = q[1]
      /\ Tail(q) \in Seq(M) /\ Len(Tail(q)) = Len(q) - 1
      /\ \A i \in 1 .. Len(q) - 1 : Tail(q)[i] = q[i + 1]
  OBVIOUS
<1>2. DOMAIN Tail(q) = 1 .. Len(q) - 1
  BY <1>1
<1>3. CASE Tail(q) = <<>>
  <2>1. Len(q) = 1
    BY <1>1, <1>3
  <2>2. QED  BY <1>1, <1>2, <1>3, <2>1
<1>4. CASE Tail(q) # <<>>
  <2>1. Len(q) - 1 \in 1 .. Len(q) - 1
    BY <1>1, <1>4
  <2>2. Tail(q)[Len(q) - 1] = q[Len(q)]
    BY <1>1, <2>1
  <2>3. QED  BY <1>1, <1>2, <1>4, <2>2
<1>5. QED  BY <1>3, <1>4

\* Types, as they are needed one at a time.
LEMMA PresenceTypes ==
  ASSUME PresenceInv
  PROVE  /\ \A s \in Sockets : /\ attachment[s] \in SUBSET Presences /\ up[s] \in Seq(Presences)
                               /\ down[s] \in Seq(Message)
         /\ \A c \in Clients : client[c] \in Sessions
         /\ \A p \in Presences : p.by \in Clients /\ p.as \in Nat /\ p.on \in Sockets
BY DEF PresenceInv, PresenceTypeOK, Message, Presences

\* A step of the room: what it attaches comes from the queue, what it tells is attached,
\* and who stays open is told all.
LEMMA RoomQuiet ==
  ASSUME PresenceInv, PresenceInv', QuietInv, client' = client,
         \A t \in Sockets :
           /\ \/ link'[t] = link[t]
              \/ link[t] = "accepted" /\ link'[t] = "open"
              \/ link'[t] = "closed"
           /\ attachment'[t] \subseteq attachment[t] \cup {up[t][i] : i \in DOMAIN up[t]}
           /\ \A i \in DOMAIN up'[t] : \E j \in DOMAIN up[t] : up'[t][i] = up[t][j]
           /\ up[t] = <<>> /\ attachment[t] = {} => up'[t] = <<>> /\ attachment'[t] = {}
           /\ \A i \in DOMAIN down'[t] :
                \/ \E j \in DOMAIN down[t] : down'[t][i] = down[t][j]
                \/ /\ down'[t][i].participants \subseteq UNION {attachment'[s] : s \in Sockets}
                   /\ link'[t] = "open" \/ down'[t][i].kind = "presence"
           /\ link'[t] = "open" =>
                /\ LastSent(t)' = LastSent(t)
                /\ \/ /\ down'[t] # <<>>
                      /\ down'[t][Len(down'[t])] = [kind |-> "presence", participants |-> Current']
                   \/ link[t] = "open" /\ down'[t] = down[t] /\ Current' = Current
  PROVE  QuietInv'
<1>1. LatestIsTold'
  <2> SUFFICES ASSUME NEW s \in Sockets, link'[s] = "open"
               PROVE  IF down'[s] = <<>>
                      THEN \A c \in Clients : client[c].socket = s => client[c].shown = Current'
                      ELSE down'[s][Len(down'[s])] = [kind |-> "presence", participants |-> Current']
    BY DEF LatestIsTold
  <2>1. CASE /\ down'[s] # <<>>
             /\ down'[s][Len(down'[s])] = [kind |-> "presence", participants |-> Current']
    BY <2>1
  <2>2. CASE link[s] = "open" /\ down'[s] = down[s] /\ Current' = Current
    BY <2>2 DEF QuietInv, LatestIsTold
  <2>3. QED  BY <2>1, <2>2
<1>2. LatestIsSent'
  <2> SUFFICES ASSUME NEW c \in Clients, NEW s \in Sockets,
                      client'[c].socket = s, link'[s] = "open"
               PROVE  /\ client'[c].local = {} => up'[s] = <<>> /\ attachment'[s] = {}
                      /\ client'[c].connected /\ ~client'[c].starting /\ ~client'[c].timer
                           => LastSent(s)' = SentOf(client'[c].local, s)
    BY DEF LatestIsSent, Sent
  <2>0. client'[c] = client[c] /\ Sent(c, s) = SentOf(client'[c].local, s)
    BY DEF Sent
  <2>1. CASE link[s] = "open"
    <3>1. /\ client[c].local = {} => up[s] = <<>> /\ attachment[s] = {}
          /\ client[c].connected /\ ~client[c].starting /\ ~client[c].timer
               => LastSent(s) = Sent(c, s)
      BY <2>0, <2>1 DEF QuietInv, LatestIsSent
    <3>2. /\ up[s] = <<>> /\ attachment[s] = {} => up'[s] = <<>> /\ attachment'[s] = {}
          /\ LastSent(s)' = LastSent(s)
      OBVIOUS
    <3>3. QED  BY <2>0, <3>1, <3>2
  <2>2. CASE link[s] = "accepted"
    <3>1. /\ attachment[s] = {} /\ up[s] = <<>>
          /\ ~client[c].connected
      BY <2>0, <2>2 DEF QuietInv, Connections
    <3>2. up'[s] = <<>> /\ attachment'[s] = {}
      BY <3>1
    <3>3. QED  BY <2>0, <3>1, <3>2
  <2>3. link[s] = "open" \/ link[s] = "accepted"
    OBVIOUS
  <2>4. QED  BY <2>1, <2>2, <2>3
<1>3. Connections'
  <2>1. \A s \in Sockets : link'[s] \in {"accepted", "open"} => link[s] \in {"accepted", "open"}
    OBVIOUS
  <2>2. ASSUME NEW s \in Sockets, link'[s] \in {"unused", "accepted"}
        PROVE  /\ attachment'[s] = {} /\ up'[s] = <<>>
               /\ \A i \in DOMAIN down'[s] : down'[s][i].kind # "ready"
               /\ \A c \in Clients : client[c].socket = s => ~client[c].connected
    <3>1. link[s] = link'[s]
      BY <2>2
    <3>2. QED  BY <2>2, <3>1 DEF QuietInv, Connections
  <2>3. QED  BY <2>1, <2>2 DEF QuietInv, Connections
<1>4. LocalIsOwn' /\ Recognized'
  BY DEF QuietInv, LocalIsOwn, Recognized, Former, FormerOf
<1>5. ListsAreFormer'
  <2>1. \A t \in Sockets : \A p \in attachment'[t] : Former(p)
    BY DEF QuietInv, ListsAreFormer
  <2>2. \A t \in Sockets : \A i \in DOMAIN up'[t] : Former(up'[t][i])
    BY DEF QuietInv, ListsAreFormer
  <2>3. \A t \in Sockets : \A i \in DOMAIN down'[t] : \A p \in down'[t][i].participants : Former(p)
    <3> SUFFICES ASSUME NEW t \in Sockets, NEW i \in DOMAIN down'[t],
                        NEW p \in down'[t][i].participants
                 PROVE  Former(p)
      OBVIOUS
    <3>1. CASE \E j \in DOMAIN down[t] : down'[t][i] = down[t][j]
      BY <3>1 DEF QuietInv, ListsAreFormer
    <3>2. CASE down'[t][i].participants \subseteq UNION {attachment'[s] : s \in Sockets}
      BY <2>1, <3>2
    <3>3. QED  BY <3>1, <3>2
  <2>4. \A p : Former(p)' = Former(p)
    BY DEF Former, FormerOf
  <2>5. QED  BY <2>1, <2>2, <2>3, <2>4 DEF ListsAreFormer
<1>6. QED  BY <1>1, <1>2, <1>3, <1>4, <1>5 DEF QuietInv

LEMMA GreetQuiet ==
  ASSUME PresenceInv, QuietInv, NEW s \in Sockets, Greet(s)
  PROVE  QuietInv'
<1> DEFINE list == RoomPresence(attachment, Attached)
<1>1. PresenceInv'
  BY GreetStep
<1>2. /\ link[s] = "accepted" /\ attachment' = attachment /\ up' = up /\ client' = client
      /\ link' = [link EXCEPT ![s] = "open"]
      /\ down' = [down EXCEPT ![s] = @ \o <<Ready, list>>]
  BY DEF Greet
<1>3. /\ link'[s] = "open" /\ down'[s] = down[s] \o <<Ready, list>>
      /\ \A t \in Sockets : t # s => link'[t] = link[t] /\ down'[t] = down[t]
  BY <1>2 DEF PresenceInv, PresenceTypeOK
<1>4. list = [kind |-> "presence", participants |-> Current] /\ Current \subseteq UNION {attachment[t] : t \in Sockets}
  BY DEF RoomPresence, Current, Attached
<1>5. Attached' = Attached
  BY <1>2, <1>3 DEF Attached
<1>6. Current' = Current
  BY <1>2, <1>5 DEF Current
<1>7. Ready \in Message /\ list \in Message /\ down[s] \in Seq(Message)
      /\ Ready.participants = {}
  <2>1. Current \in SUBSET Presences
    BY <1>4, PresenceTypes
  <2>2. down[s] \in Seq(Message)
    BY PresenceTypes
  <2> HIDE DEF list
  <2>3. QED  BY <1>4, <2>1, <2>2 DEF Message, Ready
<1> HIDE DEF list
<1>8. /\ down'[s] # <<>> /\ down'[s][Len(down'[s])] = list
      /\ \A i \in DOMAIN down'[s] :
           \/ i \in DOMAIN down[s] /\ down'[s][i] = down[s][i]
           \/ i \notin DOMAIN down[s] /\ down'[s][i] \in {Ready, list}
  BY <1>3, <1>7, AppendedTwo, LastOfMore
<1>9. list.participants = Current
  BY <1>4
<1>10. \A t \in Sockets : LastSent(t)' = LastSent(t)
  BY <1>2 DEF LastSent
<1>11. ASSUME NEW t \in Sockets
       PROVE  /\ \/ link'[t] = link[t]
                 \/ link[t] = "accepted" /\ link'[t] = "open"
                 \/ link'[t] = "closed"
              /\ attachment'[t] \subseteq attachment[t] \cup {up[t][i] : i \in DOMAIN up[t]}
              /\ \A i \in DOMAIN up'[t] : \E j \in DOMAIN up[t] : up'[t][i] = up[t][j]
              /\ up[t] = <<>> /\ attachment[t] = {} => up'[t] = <<>> /\ attachment'[t] = {}
              /\ \A i \in DOMAIN down'[t] :
                   \/ \E j \in DOMAIN down[t] : down'[t][i] = down[t][j]
                   \/ /\ down'[t][i].participants \subseteq UNION {attachment'[r] : r \in Sockets}
                      /\ link'[t] = "open" \/ down'[t][i].kind = "presence"
              /\ link'[t] = "open" =>
                   /\ LastSent(t)' = LastSent(t)
                   /\ \/ /\ down'[t] # <<>>
                         /\ down'[t][Len(down'[t])] = [kind |-> "presence", participants |-> Current']
                      \/ link[t] = "open" /\ down'[t] = down[t] /\ Current' = Current
  <2>1. CASE t = s
    BY <1>2, <1>3, <1>4, <1>6, <1>7, <1>8, <1>9, <1>10, <2>1
  <2>2. CASE t # s
    BY <1>2, <1>3, <1>6, <1>10, <2>2
  <2>3. QED  BY <2>1, <2>2
<1>12. QED  BY <1>1, <1>2, <1>11, RoomQuiet

LEMMA StoreQuiet ==
  ASSUME PresenceInv, QuietInv, NEW s \in Sockets, StorePresence(s)
  PROVE  QuietInv'
<1> DEFINE list == RoomPresence(attachment', Attached)
<1>1. PresenceInv'
  BY StoreStep
<1>2. /\ link[s] \in {"open", "left"} /\ link' = link /\ client' = client /\ up[s] # <<>>
      /\ attachment' = [attachment EXCEPT ![s] = {Head(up[s])}]
      /\ up' = [up EXCEPT ![s] = Tail(@)]
      /\ down' = [t \in Sockets |-> IF t \in Reached THEN Append(down[t], list) ELSE down[t]]
  BY DEF StorePresence
<1>3. /\ attachment'[s] = {Head(up[s])} /\ up'[s] = Tail(up[s])
      /\ \A t \in Sockets : t # s => attachment'[t] = attachment[t] /\ up'[t] = up[t]
  BY <1>2 DEF PresenceInv, PresenceTypeOK
<1>4. up[s] \in Seq(Presences)
  BY PresenceTypes
<1>5. /\ 1 \in DOMAIN up[s] /\ Head(up[s]) = up[s][1]
      /\ Tail(up[s]) = <<>> => up[s][Len(up[s])] = Head(up[s])
      /\ Tail(up[s]) # <<>> => Tail(up[s])[Len(Tail(up[s]))] = up[s][Len(up[s])]
      /\ \A i \in DOMAIN Tail(up[s]) : i + 1 \in DOMAIN up[s] /\ Tail(up[s])[i] = up[s][i + 1]
  BY <1>2, <1>4, LastOfRest
<1>6. Attached' = Attached
  BY <1>2 DEF Attached
<1>7. list = [kind |-> "presence", participants |-> Current']
      /\ Current' \subseteq UNION {attachment'[t] : t \in Sockets}
  BY <1>6 DEF RoomPresence, Current, Attached
<1>8. list \in Message
  <2>1. \A t \in Sockets : attachment'[t] \in SUBSET Presences
    BY <1>1 DEF PresenceInv, PresenceTypeOK
  <2>2. Current' \in SUBSET Presences
    BY <1>7, <2>1
  <2>3. QED  BY <1>7, <2>2 DEF Message
<1>9. list.participants = Current' /\ list.kind = "presence"
  BY <1>7
<1> HIDE DEF list
<1>10. \A t \in Sockets : LastSent(t)' = LastSent(t)
  <2>1. LastSent(s)' = LastSent(s)
    BY <1>2, <1>3, <1>5 DEF LastSent
  <2>2. QED  BY <1>3, <2>1 DEF LastSent
<1>11. ASSUME NEW t \in Sockets
       PROVE  /\ \A i \in DOMAIN down'[t] :
                   \/ \E j \in DOMAIN down[t] : down'[t][i] = down[t][j]
                   \/ down'[t][i] = list
              /\ link'[t] = "open" => down'[t] # <<>> /\ down'[t][Len(down'[t])] = list
  <2>1. down[t] \in Seq(Message)
    BY PresenceTypes
  <2>2. CASE t \in Reached
    BY <1>2, <1>8, <2>1, <2>2, Appended, LastOfMore
  <2>3. CASE t \notin Reached
    <3>1. link'[t] # "open"
      BY <1>2, <2>3 DEF Reached, Attached
    <3>2. QED  BY <1>2, <2>3, <3>1
  <2>4. QED  BY <2>2, <2>3
<1>12. ASSUME NEW t \in Sockets
       PROVE  /\ attachment'[t] \subseteq attachment[t] \cup {up[t][i] : i \in DOMAIN up[t]}
              /\ \A i \in DOMAIN up'[t] : \E j \in DOMAIN up[t] : up'[t][i] = up[t][j]
              /\ up[t] = <<>> /\ attachment[t] = {} => up'[t] = <<>> /\ attachment'[t] = {}
  <2>1. CASE t = s
    BY <1>2, <1>3, <1>5, <2>1
  <2>2. CASE t # s
    BY <1>3, <2>2
  <2>3. QED  BY <2>1, <2>2
<1>13. QED  BY <1>1, <1>2, <1>7, <1>9, <1>10, <1>11, <1>12, RoomQuiet

LEMMA CloseQuiet ==
  ASSUME PresenceInv, QuietInv, NEW s \in Sockets, Close(s)
  PROVE  QuietInv'
<1> DEFINE list == RoomPresence(attachment, Attached \ {s})
<1>1. PresenceInv'
  BY CloseStep
<1>2. /\ client' = client
      /\ link' = [link EXCEPT ![s] = "closed"]
      /\ attachment' = [attachment EXCEPT ![s] = {}]
      /\ up' = [up EXCEPT ![s] = <<>>]
      /\ down' = [t \in Sockets |->
                    CASE t = s -> <<>> [] t \in Reached -> Append(down[t], list) [] OTHER -> down[t]]
      /\ link[s] = "left"
  BY DEF Close
<1>3. /\ link'[s] = "closed" /\ attachment'[s] = {} /\ up'[s] = <<>> /\ down'[s] = <<>>
      /\ \A t \in Sockets : t # s =>
           /\ link'[t] = link[t] /\ attachment'[t] = attachment[t] /\ up'[t] = up[t]
           /\ down'[t] = IF t \in Reached THEN Append(down[t], list) ELSE down[t]
  <2>1. /\ link'[s] = "closed" /\ attachment'[s] = {} /\ up'[s] = <<>>
        /\ \A t \in Sockets : t # s =>
             link'[t] = link[t] /\ attachment'[t] = attachment[t] /\ up'[t] = up[t]
    BY <1>2 DEF PresenceInv, PresenceTypeOK
  <2> HIDE DEF list
  <2>2. \A t \in Sockets :
          down'[t] = CASE t = s -> <<>> [] t \in Reached -> Append(down[t], list) [] OTHER -> down[t]
    BY <1>2
  <2>3. down'[s] = <<>>
    BY <1>2, <2>2 DEF Reached
  <2>4. \A t \in Sockets : t # s =>
          down'[t] = IF t \in Reached THEN Append(down[t], list) ELSE down[t]
    BY <2>2
  <2>5. QED  BY <2>1, <2>3, <2>4
<1>4. Attached' = Attached \ {s}
  BY <1>3 DEF Attached
<1>5. list = [kind |-> "presence", participants |-> Current']
      /\ Current' \subseteq UNION {attachment'[t] : t \in Sockets}
  <2>1. \A t \in Attached \ {s} : attachment'[t] = attachment[t]
    BY <1>3 DEF Attached
  <2>2. UNION {attachment[t] : t \in Attached \ {s}} = UNION {attachment'[t] : t \in Attached \ {s}}
    BY <2>1
  <2>3. Attached \ {s} \subseteq Sockets
    BY DEF Attached
  <2>4. QED  BY <1>4, <2>2, <2>3 DEF RoomPresence, Current
<1>6. list \in Message
  <2>1. \A t \in Sockets : attachment'[t] \in SUBSET Presences
    BY <1>1 DEF PresenceInv, PresenceTypeOK
  <2>2. Current' \in SUBSET Presences
    BY <1>5, <2>1
  <2>3. QED  BY <1>5, <2>2 DEF Message
<1>7. list.participants = Current' /\ list.kind = "presence"
  BY <1>5
<1> HIDE DEF list
<1>8. ASSUME NEW t \in Sockets, t # s
      PROVE  /\ \A i \in DOMAIN down'[t] :
                   \/ \E j \in DOMAIN down[t] : down'[t][i] = down[t][j]
                   \/ down'[t][i] = list
             /\ link'[t] = "open" => down'[t] # <<>> /\ down'[t][Len(down'[t])] = list
  <2>1. down[t] \in Seq(Message)
    BY PresenceTypes
  <2>2. CASE t \in Reached
    <3>1. down'[t] = Append(down[t], list)
      BY <1>3, <1>8, <2>2
    <3>2. QED  BY <1>6, <2>1, <3>1, Appended, LastOfMore
  <2>3. CASE t \notin Reached
    <3>1. link'[t] # "open"
      BY <1>3, <1>8, <2>3 DEF Reached, Attached
    <3>2. QED  BY <1>3, <1>8, <2>3, <3>1
  <2>4. QED  BY <2>2, <2>3
<1>9. \A t \in Sockets : t # s => LastSent(t)' = LastSent(t)
  BY <1>3 DEF LastSent
<1>10. ASSUME NEW t \in Sockets
       PROVE  /\ \/ link'[t] = link[t]
                 \/ link[t] = "accepted" /\ link'[t] = "open"
                 \/ link'[t] = "closed"
              /\ attachment'[t] \subseteq attachment[t] \cup {up[t][i] : i \in DOMAIN up[t]}
              /\ \A i \in DOMAIN up'[t] : \E j \in DOMAIN up[t] : up'[t][i] = up[t][j]
              /\ up[t] = <<>> /\ attachment[t] = {} => up'[t] = <<>> /\ attachment'[t] = {}
              /\ \A i \in DOMAIN down'[t] :
                   \/ \E j \in DOMAIN down[t] : down'[t][i] = down[t][j]
                   \/ /\ down'[t][i].participants \subseteq UNION {attachment'[r] : r \in Sockets}
                      /\ link'[t] = "open" \/ down'[t][i].kind = "presence"
              /\ link'[t] = "open" =>
                   /\ LastSent(t)' = LastSent(t)
                   /\ \/ /\ down'[t] # <<>>
                         /\ down'[t][Len(down'[t])] = [kind |-> "presence", participants |-> Current']
                      \/ link[t] = "open" /\ down'[t] = down[t] /\ Current' = Current
  <2>1. CASE t = s
    BY <1>3, <2>1
  <2>2. CASE t # s
    BY <1>3, <1>5, <1>7, <1>8, <1>9, <2>2
  <2>3. QED  BY <2>1, <2>2
<1>11. QED  BY <1>1, <1>2, <1>10, RoomQuiet

LEMMA CrashQuiet ==
  ASSUME PresenceInv, QuietInv, Crash
  PROVE  QuietInv'
<1>1. PresenceInv'
  BY CrashStep
<1>2. /\ client' = client
      /\ link' = [s \in Sockets |-> IF s \in Attached THEN "closed" ELSE link[s]]
      /\ \A t \in Sockets : attachment'[t] = {} /\ up'[t] = <<>> /\ down'[t] = <<>>
  BY DEF Crash
<1>3. \A t \in Sockets : /\ link'[t] \in {link[t], "closed"} /\ link'[t] # "open"
                         /\ DOMAIN up'[t] = {} /\ DOMAIN down'[t] = {}
  BY <1>2 DEF Attached
<1>4. QED  BY <1>1, <1>2, <1>3, RoomQuiet

\* A presence that was of a replica of its author is still one.
LEMMA FormerStays ==
  ASSUME PresenceInv, PresenceInv',
         \A d \in Clients : client[d].replica <= client'[d].replica
  PROVE  \A p \in Presences : Former(p) => FormerOf(p, client')
<1>1. \A d \in Clients : client[d].replica \in Nat /\ client'[d].replica \in Nat
  <2>1. \A x \in Sessions : x.replica \in Nat
    BY DEF Sessions
  <2>2. QED  BY <2>1 DEF PresenceInv, PresenceTypeOK
<1>2. QED  BY <1>1, PresenceTypes DEF Former, FormerOf

\* A step that leaves the room, what is on its way and everybody's replicas as they are.
LEMMA ListsStay ==
  ASSUME PresenceInv, PresenceInv', QuietInv, attachment' = attachment,
         \A d \in Clients : client[d].replica <= client'[d].replica,
         \A s \in Sockets :
           /\ \A i \in DOMAIN up'[s] : \/ \E j \in DOMAIN up[s] : up'[s][i] = up[s][j]
                                      \/ FormerOf(up'[s][i], client')
           /\ \A i \in DOMAIN down'[s] : \E j \in DOMAIN down[s] : down'[s][i] = down[s][j]
  PROVE  ListsAreFormer'
<1>1. \A p \in Presences : Former(p) => FormerOf(p, client')
  BY FormerStays
<1>2. \A s \in Sockets : /\ \A p \in attachment[s] : p \in Presences
                         /\ \A i \in DOMAIN up[s] : up[s][i] \in Presences
                         /\ \A i \in DOMAIN down[s] : \A p \in down[s][i].participants : p \in Presences
  <2>1. \A m \in Message : m.participants \in SUBSET Presences
    BY DEF Message
  <2>2. \A q \in Seq(Message) : \A i \in DOMAIN q : q[i] \in Message
    OBVIOUS
  <2>3. \A q \in Seq(Presences) : \A i \in DOMAIN q : q[i] \in Presences
    OBVIOUS
  <2> HIDE DEF Message
  <2>4. \A s \in Sockets : \A i \in DOMAIN down[s] : down[s][i] \in Message
    BY <2>2, PresenceTypes
  <2>5. QED  BY <2>1, <2>3, <2>4, PresenceTypes
<1>3. \A s \in Sockets : /\ \A p \in attachment[s] : FormerOf(p, client')
                         /\ \A i \in DOMAIN up[s] : FormerOf(up[s][i], client')
                         /\ \A i \in DOMAIN down[s] : \A p \in down[s][i].participants : FormerOf(p, client')
  <2>1. \A s \in Sockets : /\ \A p \in attachment[s] : Former(p)
                           /\ \A i \in DOMAIN up[s] : Former(up[s][i])
                           /\ \A i \in DOMAIN down[s] : \A p \in down[s][i].participants : Former(p)
    BY DEF QuietInv, ListsAreFormer
  <2>2. \A s \in Sockets : \A i \in DOMAIN up[s] : FormerOf(up[s][i], client')
    BY <1>1, <1>2, <2>1
  <2>3. QED  BY <1>1, <1>2, <2>1, <2>2
<1>4. \A s \in Sockets : \A i \in DOMAIN up'[s] : FormerOf(up'[s][i], client')
  BY <1>3
<1>5. \A s \in Sockets : \A i \in DOMAIN down'[s] : \A p \in down'[s][i].participants : FormerOf(p, client')
  BY <1>3
<1>6. QED  BY <1>3, <1>4, <1>5 DEF ListsAreFormer, Former

\* The room holds what it held.
LEMMA CurrentStays ==
  ASSUME link' = link, attachment' = attachment
  PROVE  Attached' = Attached /\ Current' = Current
<1>1. Attached' = Attached
  BY DEF Attached
<1>2. QED  BY <1>1 DEF Current

\* SessionPresence.send, within whatever else the session does.
LEMMA SendQuiet ==
  ASSUME PresenceInv, PresenceInv', QuietInv, NEW c \in Clients, NEW x \in Sessions, Send(c, x),
         x.socket = client[c].socket, x.connected = client[c].connected,
         x.shown = client[c].shown, x.others = client[c].others, x.local = client[c].local,
         x.ended = client[c].ended, client[c].replica <= x.replica,
         \/ x.replica = client[c].replica /\ x.mounting = client[c].mounting
         \/ x.mounting \/ x.local = {}
  PROVE  QuietInv'
<1> DEFINE y == [x EXCEPT !.timer = FALSE]
           s == x.socket
           p == CHOOSE q \in x.local : TRUE
<1>1. /\ y.socket = s /\ y.connected = x.connected /\ y.shown = x.shown /\ y.others = x.others
      /\ y.local = x.local /\ y.ended = x.ended /\ y.replica = x.replica
      /\ y.mounting = x.mounting
  BY DEF Sessions
<1>2. /\ client' = [client EXCEPT ![c] = y]
      /\ link' = link /\ attachment' = attachment /\ down' = down
      /\ up' = IF x.connected /\ x.local # {} /\ link[s] = "open"
               THEN [up EXCEPT ![s] = Append(@, OnSocket(s, p))] ELSE up
  BY DEF Send, Become
<1> HIDE DEF y
<1>3. client'[c] = y /\ \A d \in Clients : d # c => client'[d] = client[d]
  BY <1>2 DEF PresenceInv, PresenceTypeOK
<1>4. /\ \A d \in Clients : /\ client'[d].socket = client[d].socket
                            /\ client'[d].connected = client[d].connected
                            /\ client'[d].shown = client[d].shown
                            /\ client'[d].others = client[d].others
                            /\ client'[d].local = client[d].local
                            /\ client'[d].ended = client[d].ended
      /\ client'[c].replica = x.replica /\ client'[c].mounting = x.mounting
  BY <1>1, <1>3
<1>5. \A d \in Clients : /\ client[d].replica \in Nat /\ client'[d].replica \in Nat
                         /\ client[d].replica <= client'[d].replica
  <2>1. \A z \in Sessions : z.replica \in Nat
    BY DEF Sessions
  <2>2. \A d \in Clients : client[d] \in Sessions /\ client'[d] \in Sessions
    BY DEF PresenceInv, PresenceTypeOK
  <2>3. QED  BY <1>3, <1>4, <2>1, <2>2
\* Everybody has one connection, and one presence at most.
<1>6. /\ \A d \in Clients : client[d].socket = s /\ s \in Sockets => d = c
      /\ x.connected => s \in Sockets
  <2>1. s \in Sockets \cup {NoSocket}
    BY DEF Sessions
  <2>2. QED  BY <2>1 DEF PresenceInv, Owners, QuietInv, Connections
<1>7. x.local # {} => /\ x.local = {p} /\ p.by = c /\ p.as \in Nat /\ p.no \in Nat
                      /\ p.as <= client[c].replica
  <2>1. x.local # {} => p \in x.local
    OBVIOUS
  <2>2. p \in x.local => p.as \in Nat /\ p.no \in Nat
    BY DEF Sessions
  <2>3. p \in x.local => x.local = {p} /\ p.by = c /\ p.as <= client[c].replica
    BY DEF QuietInv, LocalIsOwn
  <2>4. QED  BY <2>1, <2>2, <2>3
<1>8. x.local # {} /\ s \in Sockets => /\ OnSocket(s, p) \in Presences
                                       /\ FormerOf(OnSocket(s, p), client')
  <2>1. x.local # {} => p.as <= client'[c].replica
    BY <1>5, <1>7
  <2>2. QED  BY <1>7, <2>1 DEF OnSocket, Presences, FormerOf
<1> HIDE DEF p
<1>9. ASSUME NEW t \in Sockets
      PROVE  /\ t # s \/ link[t] # "open" \/ x.local = {} => up'[t] = up[t]
             /\ x.connected /\ x.local # {} /\ t = s /\ link[t] = "open" =>
                  up'[t] = Append(up[t], OnSocket(s, p))
  BY <1>2 DEF PresenceInv, PresenceTypeOK
<1>10. ASSUME NEW t \in Sockets
       PROVE  \A i \in DOMAIN up'[t] : \/ \E j \in DOMAIN up[t] : up'[t][i] = up[t][j]
                                       \/ FormerOf(up'[t][i], client')
  <2>0. up[t] \in Seq(Presences)
    BY PresenceTypes
  <2>1. CASE up'[t] = up[t]
    BY <2>1
  <2>2. CASE x.local # {} /\ t = s /\ up'[t] = Append(up[t], OnSocket(s, p))
    BY <1>8, <2>0, <2>2, Appended
  <2>3. QED  BY <1>2, <1>9, <2>1, <2>2
<1>11. LatestIsTold'
  BY <1>2, <1>4, CurrentStays DEF QuietInv, LatestIsTold
<1>12. LatestIsSent'
  <2> SUFFICES ASSUME NEW d \in Clients, NEW t \in Sockets,
                      client'[d].socket = t, link'[t] = "open"
               PROVE  /\ client'[d].local = {} => up'[t] = <<>> /\ attachment'[t] = {}
                      /\ client'[d].connected /\ ~client'[d].starting /\ ~client'[d].timer =>
                           (IF up'[t] = <<>> THEN attachment'[t] ELSE {up'[t][Len(up'[t])]})
                             = SentOf(client'[d].local, t)
    BY DEF LatestIsSent, LastSent, Sent
  <2>0. /\ client[d].socket = t /\ link[t] = "open" /\ attachment'[t] = attachment[t]
        /\ client'[d].local = client[d].local /\ client'[d].connected = client[d].connected
        /\ Sent(d, t) = SentOf(client[d].local, t)
    BY <1>2, <1>4 DEF Sent
  <2>1. /\ client[d].local = {} => up[t] = <<>> /\ attachment[t] = {}
        /\ client[d].connected /\ ~client[d].starting /\ ~client[d].timer =>
             (IF up[t] = <<>> THEN attachment[t] ELSE {up[t][Len(up[t])]}) = Sent(d, t)
    BY <2>0 DEF QuietInv, LatestIsSent, LastSent
  <2>2. CASE d # c
    <3>1. up'[t] = up[t]
      BY <1>6, <1>9, <2>0, <2>2
    <3>2. QED  BY <1>3, <2>0, <2>1, <2>2, <3>1
  <2>3. CASE d = c /\ x.local = {}
    <3>1. up'[t] = <<>> /\ attachment[t] = {}
      BY <1>9, <2>0, <2>1, <2>3
    <3>2. Sent(d, t) = {}
      BY <2>3 DEF Sent, SentOf
    <3>3. QED  BY <2>0, <2>3, <3>1, <3>2
  <2>4. CASE d = c /\ x.local # {} /\ x.connected
    <3>1. up'[t] = Append(up[t], OnSocket(t, p)) /\ up[t] \in Seq(Presences)
      BY <1>9, <2>0, <2>4, PresenceTypes
    <3>2. up'[t] # <<>> /\ up'[t][Len(up'[t])] = OnSocket(t, p)
      BY <1>8, <2>4, <3>1, LastOfMore
    <3>3. Sent(d, t) = {OnSocket(t, p)}
      BY <1>7, <2>4 DEF Sent, SentOf
    <3>4. QED  BY <2>0, <2>4, <3>2, <3>3
  <2>5. CASE d = c /\ x.local # {} /\ ~x.connected
    BY <2>0, <2>5
  <2>6. QED  BY <2>2, <2>3, <2>4, <2>5
<1>13. Connections'
  <2>1. \A t \in Sockets : link[t] \in {"unused", "accepted"} => up'[t] = up[t]
    BY <1>9
  <2>2. QED  BY <1>2, <1>4, <2>1 DEF QuietInv, Connections
<1>14. LocalIsOwn'
  <2> SUFFICES ASSUME NEW d \in Clients, NEW q \in client[d].local
               PROVE  /\ q.by = d /\ q.as <= client'[d].replica
                      /\ client[d].local = {q}
                      /\ ~client'[d].mounting => q.as = client'[d].replica
    BY <1>4 DEF LocalIsOwn
  <2>1. /\ q.by = d /\ q.as <= client[d].replica /\ client[d].local = {q}
        /\ ~client[d].mounting => q.as = client[d].replica
    BY DEF QuietInv, LocalIsOwn
  <2>2. CASE d # c
    BY <1>3, <2>1, <2>2
  <2>3. CASE d = c
    <3>1. q.as \in Nat
      BY <2>3 DEF Sessions
    <3>2. q.as <= client'[d].replica
      BY <1>5, <2>1, <3>1
    <3>3. ~client'[d].mounting => q.as = client'[d].replica
      BY <1>4, <2>1, <2>3
    <3>4. QED  BY <2>1, <3>2, <3>3
  <2>4. QED  BY <2>2, <2>3
<1>15. Recognized'
  <2>1. \A d \in Clients : \A q \in client[d].shown :
          FormerOf(q, client') /\ (q.by # d => q \in client[d].others)
    <3>1. \A d \in Clients : client[d].shown \subseteq Presences
      <4>1. \A z \in Sessions : z.shown \in SUBSET Presences
        BY DEF Sessions
      <4>2. QED  BY <4>1, PresenceTypes
    <3>2. QED  BY <1>5, <3>1, FormerStays DEF QuietInv, Recognized
  <2>2. \A d \in Clients : \A q \in client[d].others : q.by = d => q.as < client'[d].replica
    <3> SUFFICES ASSUME NEW d \in Clients, NEW q \in client[d].others, q.by = d
                 PROVE  q.as < client'[d].replica
      OBVIOUS
    <3>1. q.as < client[d].replica
      BY DEF QuietInv, Recognized
    <3>2. q.as \in Nat
      <4>1. \A z \in Sessions : z.others \in SUBSET Presences
        BY DEF Sessions
      <4>2. QED  BY <4>1, PresenceTypes
    <3>3. QED  BY <1>5, <3>1, <3>2
  <2>3. QED  BY <1>4, <2>1, <2>2 DEF Recognized, Former
<1>16. ListsAreFormer'
  BY <1>2, <1>5, <1>10, ListsStay
<1>17. QED  BY <1>11, <1>12, <1>13, <1>14, <1>15, <1>16 DEF QuietInv

\* Another presence is set, to be sent a little later.
LEMMA SetQuiet ==
  ASSUME PresenceInv, PresenceInv', QuietInv, NEW c \in Clients,
         client' = [client EXCEPT ![c] = WithPresence(c)],
         UNCHANGED <<link, attachment, up, down>>
  PROVE  QuietInv'
<1> DEFINE old == client[c]
           y == WithPresence(c)
           p == [by |-> c, as |-> old.replica, no |-> old.no + 1]
<1>1. old \in Sessions
  BY PresenceTypes
<1>2. /\ y.socket = old.socket /\ y.connected = old.connected /\ y.shown = old.shown
      /\ y.others = old.others /\ y.ended = old.ended /\ y.replica = old.replica
      /\ y.timer = TRUE /\ y.local = {p} /\ y.mounting = FALSE
  BY <1>1 DEF WithPresence, Sessions
<1>3. p.by = c /\ p.as = old.replica /\ old.replica \in Nat
  BY <1>1 DEF Sessions
<1> HIDE DEF y, p
<1>4. client'[c] = y /\ \A d \in Clients : d # c => client'[d] = client[d]
  BY DEF y, PresenceInv, PresenceTypeOK
<1>5. \A d \in Clients : /\ client'[d].socket = client[d].socket
                         /\ client'[d].connected = client[d].connected
                         /\ client'[d].shown = client[d].shown
                         /\ client'[d].others = client[d].others
                         /\ client'[d].ended = client[d].ended
                         /\ client'[d].replica = client[d].replica
  BY <1>2, <1>4
<1>6. link' = link /\ attachment' = attachment /\ up' = up /\ down' = down
  OBVIOUS
<1>7. LatestIsTold'
  BY <1>5, <1>6, CurrentStays DEF QuietInv, LatestIsTold
<1>8. LatestIsSent'
  <2> SUFFICES ASSUME NEW d \in Clients, NEW t \in Sockets,
                      client'[d].socket = t, link'[t] = "open"
               PROVE  /\ client'[d].local = {} => up'[t] = <<>> /\ attachment'[t] = {}
                      /\ client'[d].connected /\ ~client'[d].starting /\ ~client'[d].timer =>
                           (IF up'[t] = <<>> THEN attachment'[t] ELSE {up'[t][Len(up'[t])]})
                             = SentOf(client'[d].local, t)
    BY DEF LatestIsSent, LastSent, Sent
  <2>1. CASE d = c
    BY <1>2, <1>4, <2>1
  <2>2. CASE d # c
    <3>1. client'[d] = client[d] /\ link[t] = "open" /\ client[d].socket = t
      BY <1>4, <1>6, <2>2
    <3>2. /\ client[d].local = {} => up[t] = <<>> /\ attachment[t] = {}
          /\ client[d].connected /\ ~client[d].starting /\ ~client[d].timer =>
               (IF up[t] = <<>> THEN attachment[t] ELSE {up[t][Len(up[t])]})
                 = SentOf(client[d].local, t)
      BY <3>1 DEF QuietInv, LatestIsSent, LastSent, Sent
    <3>3. QED  BY <1>6, <3>1, <3>2
  <2>3. QED  BY <2>1, <2>2
<1>9. Connections'
  BY <1>5, <1>6 DEF QuietInv, Connections
<1>10. LocalIsOwn'
  <2> SUFFICES ASSUME NEW d \in Clients, NEW q \in client'[d].local
               PROVE  /\ q.by = d /\ q.as <= client'[d].replica
                      /\ client'[d].local = {q}
                      /\ ~client'[d].mounting => q.as = client'[d].replica
    BY DEF LocalIsOwn
  <2>1. CASE d = c
    BY <1>2, <1>3, <1>4, <2>1
  <2>2. CASE d # c
    BY <1>4, <2>2 DEF QuietInv, LocalIsOwn
  <2>3. QED  BY <2>1, <2>2
<1>11. Recognized' /\ ListsAreFormer'
  <2>1. \A q \in Presences : Former(q) => FormerOf(q, client')
    BY <1>5, PresenceTypes DEF Former, FormerOf
  <2>2. Recognized'
    <3>1. \A d \in Clients : client[d].shown \subseteq Presences
      <4>1. \A z \in Sessions : z.shown \in SUBSET Presences
        BY DEF Sessions
      <4>2. QED  BY <4>1, PresenceTypes
    <3>2. QED  BY <1>5, <2>1, <3>1 DEF QuietInv, Recognized, Former
  <2>3. \A d \in Clients : client[d].replica <= client'[d].replica
    <3>1. \A z \in Sessions : z.replica \in Nat
      BY DEF Sessions
    <3>2. QED  BY <1>5, <3>1, PresenceTypes
  <2>4. QED  BY <1>6, <2>2, <2>3, ListsStay
<1>12. QED  BY <1>7, <1>8, <1>9, <1>10, <1>11 DEF QuietInv

\* A frame is read.
LEMMA ReceiveQuiet ==
  ASSUME PresenceInv, PresenceInv', QuietInv, NEW c \in Clients, Receive(c)
  PROVE  QuietInv'
<1> DEFINE old == client[c]
           s == old.socket
           message == Head(down[s])
           x == IF message.kind = "ready"
                THEN [old EXCEPT !.connected = TRUE, !.starting = TRUE]
                ELSE [old EXCEPT !.shown = message.participants,
                                 !.others = {p \in message.participants : ~Own(c, p)}]
<1>1. /\ old \in Sessions /\ s \in Sockets /\ s # NoSocket /\ down[s] # <<>>
      /\ client' = [client EXCEPT ![c] = x]
      /\ down' = [down EXCEPT ![s] = Tail(@)]
      /\ link' = link /\ attachment' = attachment /\ up' = up
  <2>1. s \in Sockets \cup {NoSocket} /\ old \in Sessions
    BY PresenceTypes DEF Sessions
  <2>2. QED  BY <2>1 DEF Receive, Become
<1>2. /\ x.socket = s /\ x.local = old.local /\ x.ended = old.ended /\ x.replica = old.replica
      /\ x.mounting = old.mounting /\ x.timer = old.timer
      /\ message.kind = "ready" => /\ x.connected = TRUE /\ x.starting = TRUE
                                   /\ x.shown = old.shown /\ x.others = old.others
      /\ message.kind # "ready" =>
           /\ x.connected = old.connected /\ x.starting = old.starting
           /\ x.shown = message.participants
           /\ x.others = {p \in message.participants : ~Own(c, p)}
  BY <1>1 DEF Sessions
<1> HIDE DEF x
<1>3. client'[c] = x /\ \A d \in Clients : d # c => client'[d] = client[d]
  BY <1>1 DEF PresenceInv, PresenceTypeOK
<1>4. down'[s] = Tail(down[s]) /\ \A t \in Sockets : t # s => down'[t] = down[t]
  BY <1>1 DEF PresenceInv, PresenceTypeOK
<1>5. /\ down[s] \in Seq(Message) /\ 1 \in DOMAIN down[s] /\ message = down[s][1]
      /\ Tail(down[s]) = <<>> => down[s][Len(down[s])] = message
      /\ Tail(down[s]) # <<>> => Tail(down[s])[Len(Tail(down[s]))] = down[s][Len(down[s])]
      /\ \A i \in DOMAIN Tail(down[s]) : i + 1 \in DOMAIN down[s] /\ Tail(down[s])[i] = down[s][i + 1]
  <2>1. down[s] \in Seq(Message)
    BY <1>1, PresenceTypes
  <2>2. QED  BY <1>1, <2>1, LastOfRest
<1>6. message \in Message /\ message.participants \in SUBSET Presences
  <2>1. \A q \in Seq(Message) : \A i \in DOMAIN q : q[i] \in Message
    OBVIOUS
  <2>2. \A m \in Message : m.participants \in SUBSET Presences
    BY DEF Message
  <2>3. QED  BY <1>5, <2>1, <2>2
<1> HIDE DEF message
<1>7. \A d \in Clients : /\ client'[d].socket = client[d].socket
                         /\ client'[d].local = client[d].local
                         /\ client'[d].ended = client[d].ended
                         /\ client'[d].replica = client[d].replica
                         /\ client'[d].mounting = client[d].mounting
                         /\ client'[d].timer = client[d].timer
  BY <1>2, <1>3
<1>8. \A d \in Clients : client[d].socket = s => d = c
  BY <1>1 DEF PresenceInv, Owners
<1>9. Current' = Current
  BY <1>1, CurrentStays
<1>10. \A t \in Sockets : \A i \in DOMAIN down'[t] : \E j \in DOMAIN down[t] : down'[t][i] = down[t][j]
  <2> SUFFICES ASSUME NEW t \in Sockets, NEW i \in DOMAIN down'[t]
               PROVE  \E j \in DOMAIN down[t] : down'[t][i] = down[t][j]
    OBVIOUS
  <2>1. CASE t = s
    <3>1. i + 1 \in DOMAIN down[s] /\ down'[t][i] = down[s][i + 1]
      BY <1>4, <1>5, <2>1
    <3>2. QED  BY <2>1, <3>1
  <2>2. CASE t # s
    BY <1>4, <2>2
  <2>3. QED  BY <2>1, <2>2
<1>11. LatestIsTold'
  <2> SUFFICES ASSUME NEW t \in Sockets, link[t] = "open"
               PROVE  IF down'[t] = <<>>
                      THEN \A d \in Clients : client[d].socket = t => client'[d].shown = Current
                      ELSE down'[t][Len(down'[t])] = [kind |-> "presence", participants |-> Current]
    BY <1>1, <1>7, <1>9 DEF LatestIsTold
  <2>1. IF down[t] = <<>>
        THEN \A d \in Clients : client[d].socket = t => client[d].shown = Current
        ELSE down[t][Len(down[t])] = [kind |-> "presence", participants |-> Current]
    BY DEF QuietInv, LatestIsTold
  <2>2. CASE t # s
    <3>1. \A d \in Clients : client[d].socket = t => d # c
      BY <2>2
    <3>2. QED  BY <1>3, <1>4, <2>1, <2>2, <3>1
  <2>3. CASE t = s /\ Tail(down[s]) # <<>>
    BY <1>1, <1>4, <1>5, <2>1, <2>3
  <2>4. CASE t = s /\ Tail(down[s]) = <<>>
    <3>1. message = [kind |-> "presence", participants |-> Current]
      BY <1>1, <1>5, <2>1, <2>4
    <3>2. message.kind # "ready" /\ message.participants = Current
      BY <3>1
    <3>3. client'[c].shown = Current
      BY <1>2, <1>3, <3>2
    <3>4. QED  BY <1>4, <1>8, <2>4, <3>3
  <2>5. QED  BY <2>2, <2>3, <2>4
<1>12. LatestIsSent'
  <2> SUFFICES ASSUME NEW d \in Clients, NEW t \in Sockets,
                      client'[d].socket = t, link'[t] = "open"
               PROVE  /\ client'[d].local = {} => up'[t] = <<>> /\ attachment'[t] = {}
                      /\ client'[d].connected /\ ~client'[d].starting /\ ~client'[d].timer =>
                           (IF up'[t] = <<>> THEN attachment'[t] ELSE {up'[t][Len(up'[t])]})
                             = SentOf(client'[d].local, t)
    BY DEF LatestIsSent, LastSent, Sent
  <2>1. /\ client[d].local = {} => up[t] = <<>> /\ attachment[t] = {}
        /\ client[d].connected /\ ~client[d].starting /\ ~client[d].timer =>
             (IF up[t] = <<>> THEN attachment[t] ELSE {up[t][Len(up[t])]})
               = SentOf(client[d].local, t)
    BY <1>1, <1>7 DEF QuietInv, LatestIsSent, LastSent, Sent
  <2>2. CASE d = c /\ message.kind = "ready"
    BY <1>1, <1>2, <1>3, <1>7, <2>1, <2>2
  <2>3. CASE d = c /\ message.kind # "ready"
    BY <1>1, <1>2, <1>3, <2>1, <2>3
  <2>4. CASE d # c
    BY <1>1, <1>3, <2>1, <2>4
  <2>5. QED  BY <2>2, <2>3, <2>4
<1>13. Connections'
  <2>1. message.kind = "ready" => link[s] \notin {"unused", "accepted"}
    BY <1>1, <1>5 DEF QuietInv, Connections
  <2>2. \A t \in Sockets : \A i \in DOMAIN down'[t] : \E j \in DOMAIN down[t] : down'[t][i] = down[t][j]
    BY <1>10
  <2>3. \A d \in Clients : client'[d].connected =>
          client[d].connected \/ (d = c /\ message.kind = "ready")
    <3>1. \A d \in Clients : d # c => client'[d].connected = client[d].connected
      BY <1>3
    <3>2. message.kind # "ready" => client'[c].connected = client[c].connected
      BY <1>2, <1>3
    <3>3. QED  BY <3>1, <3>2, Zenon
  <2>4. \A t \in Sockets : link[t] \in {"unused", "accepted"} =>
          /\ attachment[t] = {} /\ up[t] = <<>>
          /\ \A i \in DOMAIN down'[t] : down'[t][i].kind # "ready"
          /\ \A d \in Clients : client[d].socket = t => ~client'[d].connected
    BY <2>1, <2>2, <2>3 DEF QuietInv, Connections
  <2>5. \A d \in Clients : client[d].socket = NoSocket => ~client'[d].connected
    BY <1>1, <2>3 DEF QuietInv, Connections
  <2>6. /\ \A t \in Sockets : link[t] \in {"accepted", "open"} => \E d \in Clients : client[d].socket = t
        /\ \A d \in Clients : client[d].ended => client[d].socket = NoSocket
    BY DEF QuietInv, Connections
  <2>7. QED  BY <1>1, <1>7, <2>4, <2>5, <2>6 DEF Connections
<1>14. LocalIsOwn'
  BY <1>7 DEF QuietInv, LocalIsOwn
<1>15. Recognized'
  <2>0. \A p : Former(p) <=> p.as <= client[p.by].replica
    BY DEF Former, FormerOf
  <2>1. \A p \in Presences : Former(p) => FormerOf(p, client')
    BY <1>7, PresenceTypes DEF Former, FormerOf
  <2> SUFFICES ASSUME NEW d \in Clients
               PROVE  /\ \A p \in client'[d].shown :
                           FormerOf(p, client') /\ (p.by # d => p \in client'[d].others)
                      /\ \A p \in client'[d].others : p.by = d => p.as < client'[d].replica
    BY DEF Recognized, Former
  <2>2. /\ \A p \in client[d].shown : Former(p) /\ (p.by # d => p \in client[d].others)
        /\ \A p \in client[d].others : p.by = d => p.as < client[d].replica
        /\ client[d].shown \in SUBSET Presences
    <3>1. \A z \in Sessions : z.shown \in SUBSET Presences
      BY DEF Sessions
    <3>2. client[d].shown \in SUBSET Presences
      BY <3>1, PresenceTypes
    <3>3. QED  BY <3>2 DEF QuietInv, Recognized
  <2>3. CASE d # c \/ message.kind = "ready"
    <3>1. client'[d].shown = client[d].shown /\ client'[d].others = client[d].others
      BY <1>2, <1>3, <2>3
    <3>2. QED  BY <1>7, <2>1, <2>2, <3>1
  <2>4. CASE d = c /\ message.kind # "ready"
    <3>1. /\ client'[d].shown = message.participants
          /\ client'[d].others = {p \in message.participants : ~Own(c, p)}
      BY <1>2, <1>3, <2>4
    <3>2. \A p \in message.participants : Former(p) /\ p \in Presences
      BY <1>1, <1>5, <1>6 DEF QuietInv, ListsAreFormer
    <3>3. \A p \in Presences : p.as \in Nat
      BY DEF Presences
    <3>4. client[c].replica \in Nat
      BY <1>1 DEF Sessions
    <3>5. \A p \in message.participants : ~Own(c, p) /\ p.by = c => p.as < client[c].replica
      BY <2>0, <3>2, <3>3, <3>4 DEF Own
    <3>6. \A p \in message.participants : p.by # c => ~Own(c, p)
      BY DEF Own
    <3>7. QED  BY <1>7, <2>1, <2>4, <3>1, <3>2, <3>5, <3>6
  <2>5. QED  BY <2>3, <2>4
<1>16. ListsAreFormer'
  <2>1. \A d \in Clients : client[d].replica <= client'[d].replica
    <3>1. \A z \in Sessions : z.replica \in Nat
      BY DEF Sessions
    <3>2. QED  BY <1>7, <3>1, PresenceTypes
  <2>2. \A t \in Sockets : \A i \in DOMAIN down'[t] : \E j \in DOMAIN down[t] : down'[t][i] = down[t][j]
    BY <1>10
  <2>3. QED  BY <1>1, <2>1, <2>2, ListsStay
<1>17. QED  BY <1>11, <1>12, <1>13, <1>14, <1>15, <1>16 DEF QuietInv

\* A session leaves its connection, which the room keeps until it is told.
LEMMA LeaveQuiet ==
  ASSUME PresenceInv, PresenceInv', QuietInv, NEW c \in Clients, NEW x \in Sessions,
         client' = [client EXCEPT ![c] = x], UNCHANGED <<attachment, up, down>>,
         x.socket = NoSocket, x.connected = FALSE, x.shown = {}, x.others = {},
         x.local = client[c].local, x.replica = client[c].replica, x.mounting = client[c].mounting,
         \A t \in Sockets :
           link'[t] = IF t = client[c].socket /\ link[t] # "closed" THEN "left" ELSE link[t]
  PROVE  QuietInv'
<1>1. attachment' = attachment /\ up' = up /\ down' = down
  OBVIOUS
<1>2. client'[c] = x /\ \A d \in Clients : d # c => client'[d] = client[d]
  BY DEF PresenceInv, PresenceTypeOK
<1>3. \A d \in Clients : /\ client'[d].local = client[d].local
                         /\ client'[d].replica = client[d].replica
                         /\ client'[d].mounting = client[d].mounting
  BY <1>2
<1>4. \A d \in Clients, t \in Sockets :
        client'[d].socket = t => d # c /\ client'[d] = client[d] /\ client[d].socket = t
  BY <1>2, PresenceAssumption
<1>5. /\ \A t \in Sockets : link'[t] \in {"unused", "accepted", "open"} =>
           link[t] = link'[t] /\ client[c].socket # t
      /\ Attached' = Attached
  <2>1. \A t \in Sockets : client[c].socket = t => link[t] # "unused"
    BY DEF PresenceInv, Owners
  <2>2. \A t \in Sockets : link[t] \in {"unused", "accepted", "open", "left", "closed"}
    BY DEF PresenceInv, PresenceTypeOK
  <2>3. \A t \in Sockets : link'[t] \in {"unused", "accepted", "open"} =>
          link[t] = link'[t] /\ client[c].socket # t
    <3> SUFFICES ASSUME NEW t \in Sockets, link'[t] \in {"unused", "accepted", "open"}
                 PROVE  link[t] = link'[t] /\ client[c].socket # t
      OBVIOUS
    <3>1. link'[t] = IF t = client[c].socket /\ link[t] # "closed" THEN "left" ELSE link[t]
      OBVIOUS
    <3>2. QED  BY <3>1
  <2>4. \A t \in Sockets : link'[t] \in {"accepted", "open", "left"} <=> link[t] \in {"accepted", "open", "left"}
    BY <2>1, <2>2
  <2>5. QED  BY <2>3, <2>4 DEF Attached
<1>6. Current' = Current
  BY <1>1, <1>5 DEF Current
<1>7. LatestIsTold'
  <2> SUFFICES ASSUME NEW t \in Sockets, link'[t] = "open"
               PROVE  IF down[t] = <<>>
                      THEN \A d \in Clients : client'[d].socket = t => client'[d].shown = Current
                      ELSE down[t][Len(down[t])] = [kind |-> "presence", participants |-> Current]
    BY <1>1, <1>6 DEF LatestIsTold
  <2>1. IF down[t] = <<>>
        THEN \A d \in Clients : client[d].socket = t => client[d].shown = Current
        ELSE down[t][Len(down[t])] = [kind |-> "presence", participants |-> Current]
    BY <1>5 DEF QuietInv, LatestIsTold
  <2>2. QED  BY <1>4, <2>1
<1>8. LatestIsSent'
  <2> SUFFICES ASSUME NEW d \in Clients, NEW t \in Sockets,
                      client'[d].socket = t, link'[t] = "open"
               PROVE  /\ client'[d].local = {} => up'[t] = <<>> /\ attachment'[t] = {}
                      /\ client'[d].connected /\ ~client'[d].starting /\ ~client'[d].timer =>
                           (IF up'[t] = <<>> THEN attachment'[t] ELSE {up'[t][Len(up'[t])]})
                             = SentOf(client'[d].local, t)
    BY DEF LatestIsSent, LastSent, Sent
  <2>1. client'[d] = client[d] /\ client[d].socket = t /\ link[t] = "open"
    BY <1>4, <1>5
  <2>2. /\ client[d].local = {} => up[t] = <<>> /\ attachment[t] = {}
        /\ client[d].connected /\ ~client[d].starting /\ ~client[d].timer =>
             (IF up[t] = <<>> THEN attachment[t] ELSE {up[t][Len(up[t])]})
               = SentOf(client[d].local, t)
    BY <2>1 DEF QuietInv, LatestIsSent, LastSent, Sent
  <2>3. QED  BY <1>1, <2>1, <2>2
<1>9. Connections'
  <2>1. \A t \in Sockets : link'[t] \in {"accepted", "open"} => \E d \in Clients : client'[d].socket = t
    <3> SUFFICES ASSUME NEW t \in Sockets, link'[t] \in {"accepted", "open"}
                 PROVE  \E d \in Clients : client'[d].socket = t
      OBVIOUS
    <3>1. link[t] = link'[t] /\ client[c].socket # t
      BY <1>5
    <3>2. PICK d \in Clients : client[d].socket = t
      BY <3>1 DEF QuietInv, Connections
    <3>3. QED  BY <1>2, <3>1, <3>2
  <2>2. ASSUME NEW t \in Sockets, link'[t] \in {"unused", "accepted"}
        PROVE  /\ attachment'[t] = {} /\ up'[t] = <<>>
               /\ \A i \in DOMAIN down'[t] : down'[t][i].kind # "ready"
               /\ \A d \in Clients : client'[d].socket = t => ~client'[d].connected
    <3>1. link[t] \in {"unused", "accepted"}
      BY <1>5, <2>2
    <3>2. QED  BY <1>1, <1>4, <3>1 DEF QuietInv, Connections
  <2>3. \A d \in Clients : client'[d].socket = NoSocket => ~client'[d].connected
    BY <1>2 DEF QuietInv, Connections
  <2>4. \A d \in Clients : client'[d].ended => client'[d].socket = NoSocket
    BY <1>2 DEF QuietInv, Connections
  <2>5. QED  BY <2>1, <2>2, <2>3, <2>4 DEF Connections
<1>10. LocalIsOwn'
  BY <1>3 DEF QuietInv, LocalIsOwn
<1>11. Recognized'
  <2>1. \A p \in Presences : Former(p) => FormerOf(p, client')
    BY <1>3, PresenceTypes DEF Former, FormerOf
  <2>2. \A d \in Clients : client[d].shown \subseteq Presences
    <3>1. \A z \in Sessions : z.shown \in SUBSET Presences
      BY DEF Sessions
    <3>2. QED  BY <3>1, PresenceTypes
  <2> SUFFICES ASSUME NEW d \in Clients
               PROVE  /\ \A p \in client'[d].shown :
                           FormerOf(p, client') /\ (p.by # d => p \in client'[d].others)
                      /\ \A p \in client'[d].others : p.by = d => p.as < client'[d].replica
    BY DEF Recognized, Former
  <2>3. CASE d = c
    BY <1>2, <2>3
  <2>4. CASE d # c
    BY <1>2, <2>1, <2>2, <2>4 DEF QuietInv, Recognized
  <2>5. QED  BY <2>3, <2>4
<1>12. ListsAreFormer'
  <2>1. \A d \in Clients : client[d].replica <= client'[d].replica
    <3>1. \A z \in Sessions : z.replica \in Nat
      BY DEF Sessions
    <3>2. QED  BY <1>3, <3>1, PresenceTypes
  <2>2. QED  BY <1>1, <2>1, ListsStay
<1>13. QED  BY <1>7, <1>8, <1>9, <1>10, <1>11, <1>12 DEF QuietInv

\* A session takes a connection that nobody has used.
LEMMA OpenQuiet ==
  ASSUME PresenceInv, PresenceInv', QuietInv, NEW c \in Clients, Open(c)
  PROVE  QuietInv'
<1>1. PICK s \in Sockets : /\ link[s] = "unused"
                           /\ link' = [link EXCEPT ![s] = "accepted"]
                           /\ client' = [client EXCEPT ![c] = [client[c] EXCEPT !.socket = s]]
  <2>1. PICK s \in Unused : s = CHOOSE t \in Unused : TRUE
    BY DEF Open
  <2>2. QED  BY <2>1 DEF Open, Become, Unused
<1>2. attachment' = attachment /\ up' = up /\ down' = down
  BY DEF Open
<1>3. client[c] \in Sessions /\ client[c].socket = NoSocket /\ ~client[c].ended
      /\ ~client[c].connected /\ client[c].shown = {}
  BY DEF Open, Away, Present, PresenceInv, PresenceTypeOK, Shows, QuietInv, Connections
<1> DEFINE x == [client[c] EXCEPT !.socket = s]
<1>4. /\ x.socket = s /\ x.connected = client[c].connected /\ x.shown = client[c].shown
      /\ x.others = client[c].others /\ x.ended = client[c].ended /\ x.local = client[c].local
      /\ x.replica = client[c].replica /\ x.mounting = client[c].mounting
  BY <1>3 DEF Sessions
<1> HIDE DEF x
<1>5. client'[c] = x /\ \A d \in Clients : d # c => client'[d] = client[d]
  BY <1>1 DEF x, PresenceInv, PresenceTypeOK
<1>6. \A d \in Clients : /\ client'[d].connected = client[d].connected
                         /\ client'[d].shown = client[d].shown
                         /\ client'[d].others = client[d].others
                         /\ client'[d].ended = client[d].ended
                         /\ client'[d].local = client[d].local
                         /\ client'[d].replica = client[d].replica
                         /\ client'[d].mounting = client[d].mounting
  BY <1>4, <1>5
<1>7. \A t \in Sockets : link'[t] = IF t = s THEN "accepted" ELSE link[t]
  BY <1>1 DEF PresenceInv, PresenceTypeOK
<1>8. attachment[s] = {} /\ up[s] = <<>> /\ \A d \in Clients : client[d].socket # s
  BY <1>1 DEF PresenceInv, Attachments, Tidy, Owners
<1>9. Current' = Current
  <2>1. Attached' = Attached \cup {s}
    BY <1>7 DEF Attached
  <2>2. QED  BY <1>2, <1>8, <2>1 DEF Current
<1>10. \A d \in Clients, t \in Sockets :
         t # s /\ client'[d].socket = t => client'[d] = client[d] /\ client[d].socket = t
  BY <1>4, <1>5
<1>11. LatestIsTold'
  <2> SUFFICES ASSUME NEW t \in Sockets, link'[t] = "open"
               PROVE  IF down[t] = <<>>
                      THEN \A d \in Clients : client'[d].socket = t => client'[d].shown = Current
                      ELSE down[t][Len(down[t])] = [kind |-> "presence", participants |-> Current]
    BY <1>2, <1>9 DEF LatestIsTold
  <2>1. t # s /\ link[t] = "open"
    BY <1>7
  <2>2. IF down[t] = <<>>
        THEN \A d \in Clients : client[d].socket = t => client[d].shown = Current
        ELSE down[t][Len(down[t])] = [kind |-> "presence", participants |-> Current]
    BY <2>1 DEF QuietInv, LatestIsTold
  <2>3. QED  BY <1>10, <2>1, <2>2
<1>12. LatestIsSent'
  <2> SUFFICES ASSUME NEW d \in Clients, NEW t \in Sockets,
                      client'[d].socket = t, link'[t] = "open"
               PROVE  /\ client'[d].local = {} => up'[t] = <<>> /\ attachment'[t] = {}
                      /\ client'[d].connected /\ ~client'[d].starting /\ ~client'[d].timer =>
                           (IF up'[t] = <<>> THEN attachment'[t] ELSE {up'[t][Len(up'[t])]})
                             = SentOf(client'[d].local, t)
    BY DEF LatestIsSent, LastSent, Sent
  <2>0. t # s /\ link[t] = "open"
    BY <1>7
  <2>1. client'[d] = client[d] /\ client[d].socket = t
    BY <1>10, <2>0
  <2>2. /\ client[d].local = {} => up[t] = <<>> /\ attachment[t] = {}
        /\ client[d].connected /\ ~client[d].starting /\ ~client[d].timer =>
             (IF up[t] = <<>> THEN attachment[t] ELSE {up[t][Len(up[t])]})
               = SentOf(client[d].local, t)
    BY <2>0, <2>1 DEF QuietInv, LatestIsSent, LastSent, Sent
  <2>3. QED  BY <1>2, <2>1, <2>2
<1>13. Connections'
  <2>1. \A t \in Sockets : link'[t] \in {"accepted", "open"} => \E d \in Clients : client'[d].socket = t
    <3> SUFFICES ASSUME NEW t \in Sockets, link'[t] \in {"accepted", "open"}
                 PROVE  \E d \in Clients : client'[d].socket = t
      OBVIOUS
    <3>1. CASE t = s
      BY <1>4, <1>5, <3>1
    <3>2. CASE t # s
      <4>1. PICK d \in Clients : client[d].socket = t
        BY <1>7, <3>2 DEF QuietInv, Connections
      <4>2. d # c
        BY <1>3, <4>1, PresenceAssumption
      <4>3. QED  BY <1>5, <4>1, <4>2
    <3>3. QED  BY <3>1, <3>2
  <2>2. ASSUME NEW t \in Sockets, link'[t] \in {"unused", "accepted"}
        PROVE  /\ attachment'[t] = {} /\ up'[t] = <<>>
               /\ \A i \in DOMAIN down'[t] : down'[t][i].kind # "ready"
               /\ \A d \in Clients : client'[d].socket = t => ~client'[d].connected
    <3>1. link[t] \in {"unused", "accepted"}
      BY <1>1, <1>7, <2>2
    <3>2. CASE t = s
      <4>1. \A d \in Clients : client'[d].socket = s => d = c
        BY <1>5, <1>8
      <4>2. QED  BY <1>2, <1>3, <1>6, <3>1, <3>2, <4>1 DEF QuietInv, Connections
    <3>3. CASE t # s
      BY <1>2, <1>10, <3>1, <3>3 DEF QuietInv, Connections
    <3>4. QED  BY <3>2, <3>3
  <2>3. \A d \in Clients : client'[d].socket = NoSocket => ~client'[d].connected
    BY <1>3, <1>5, <1>6 DEF QuietInv, Connections
  <2>4. \A d \in Clients : client'[d].ended => client'[d].socket = NoSocket
    BY <1>3, <1>5, <1>6 DEF QuietInv, Connections
  <2>5. QED  BY <2>1, <2>2, <2>3, <2>4 DEF Connections
<1>14. LocalIsOwn'
  BY <1>6 DEF QuietInv, LocalIsOwn
<1>15. Recognized'
  <2>1. \A p \in Presences : Former(p) => FormerOf(p, client')
    BY <1>6, PresenceTypes DEF Former, FormerOf
  <2>2. \A d \in Clients : client[d].shown \subseteq Presences
    <3>1. \A z \in Sessions : z.shown \in SUBSET Presences
      BY DEF Sessions
    <3>2. QED  BY <3>1, PresenceTypes
  <2>3. QED  BY <1>6, <2>1, <2>2 DEF QuietInv, Recognized, Former
<1>16. ListsAreFormer'
  <2>1. \A d \in Clients : client[d].replica <= client'[d].replica
    <3>1. \A z \in Sessions : z.replica \in Nat
      BY DEF Sessions
    <3>2. QED  BY <1>6, <3>1, PresenceTypes
  <2>2. QED  BY <1>2, <2>1, ListsStay
<1>17. QED  BY <1>11, <1>12, <1>13, <1>14, <1>15, <1>16 DEF QuietInv

\* Nobody has a connection, and nothing is attached.
LEMMA InitiallyQuiet == Init => QuietInv
<1> SUFFICES ASSUME Init
             PROVE  QuietInv
  OBVIOUS
<1>1. /\ NewClient.socket = NoSocket /\ NewClient.connected = FALSE /\ NewClient.ended = FALSE
      /\ NewClient.local = {} /\ NewClient.shown = {} /\ NewClient.others = {}
  BY DEF NewClient
<1>2. /\ \A c \in Clients : client[c] = NewClient
      /\ \A s \in Sockets : /\ link[s] = "unused" /\ attachment[s] = {}
                            /\ up[s] = <<>> /\ down[s] = <<>>
  BY DEF Init
<1>3. LatestIsTold /\ LatestIsSent
  BY <1>2 DEF LatestIsTold, LatestIsSent
<1>4. Connections
  BY <1>1, <1>2, PresenceAssumption DEF Connections
<1>5. LocalIsOwn /\ Recognized
  BY <1>1, <1>2 DEF LocalIsOwn, Recognized
<1>6. ListsAreFormer
  BY <1>2 DEF ListsAreFormer
<1>7. QED  BY <1>3, <1>4, <1>5, <1>6 DEF QuietInv

\* What each step of a session does, as the lemmas above need it.
LEMMA SessionQuiet ==
  ASSUME PresenceInv, PresenceInv', QuietInv, SessionNext
  PROVE  QuietInv'
<1> SUFFICES ASSUME NEW c \in Clients,
                    \/ Open(c) \/ Start(c) \/ Restart(c) \/ SetPresence(c) \/ Timer(c)
                    \/ ReplaceReplica(c) \/ Mount(c) \/ Receive(c) \/ Lose(c)
                    \/ NoticeClose(c) \/ Destroy(c)
             PROVE  QuietInv'
  BY DEF SessionNext
<1> DEFINE old == client[c]
<1>0. old \in Sessions
  BY PresenceTypes
<1>1. CASE Open(c)
  BY <1>1, OpenQuiet
<1>2. CASE Start(c)
  <2> DEFINE x == [old EXCEPT !.starting = FALSE]
  <2>1. Send(c, x)
    BY <1>2 DEF Start
  <2>2. /\ x \in Sessions /\ x.socket = old.socket /\ x.connected = old.connected
        /\ x.shown = old.shown /\ x.others = old.others /\ x.local = old.local
        /\ x.ended = old.ended /\ x.replica = old.replica /\ old.replica \in Nat
        /\ x.mounting = old.mounting
    BY <1>0 DEF Sessions
  <2> HIDE DEF x
  <2>3. old.replica <= x.replica
    BY <2>2
  <2>4. QED  BY <2>1, <2>2, <2>3, SendQuiet
<1>3. CASE Restart(c) \/ Timer(c)
  <2>1. Send(c, old)
    BY <1>3 DEF Restart, Timer
  <2>2. old.replica <= old.replica
    BY <1>0 DEF Sessions
  <2>3. QED  BY <1>0, <2>1, <2>2, SendQuiet
<1>4. CASE ReplaceReplica(c)
  <2> DEFINE m == old.mounting \/ old.local # {}
             x == [old EXCEPT !.replica = @ + 1, !.mounting = m]
  <2>1. Send(c, x) /\ m \in BOOLEAN
    BY <1>4 DEF ReplaceReplica
  <2>2. m \/ old.local = {}
    OBVIOUS
  <2> HIDE DEF m
  <2>3. /\ x \in Sessions /\ x.socket = old.socket /\ x.connected = old.connected
        /\ x.shown = old.shown /\ x.others = old.others /\ x.local = old.local
        /\ x.ended = old.ended /\ x.replica = old.replica + 1 /\ old.replica \in Nat
        /\ x.mounting = m
    <3>1. old.replica \in Nat /\ old.replica + 1 \in Nat
      BY <1>0 DEF Sessions
    <3> HIDE DEF old
    <3>2. QED  BY <1>0, <2>1, <3>1 DEF Sessions
  <2> HIDE DEF x
  <2>4. old.replica <= x.replica
    BY <2>3
  <2>5. x.mounting \/ x.local = {}
    BY <2>2, <2>3
  <2>6. QED  BY <2>1, <2>3, <2>4, <2>5, SendQuiet
<1>5. CASE SetPresence(c) \/ Mount(c)
  <2>1. client' = [client EXCEPT ![c] = WithPresence(c)] /\ UNCHANGED <<link, attachment, up, down>>
    BY <1>5 DEF SetPresence, Mount, Become
  <2>2. QED  BY <2>1, SetQuiet
<1>6. CASE Receive(c)
  BY <1>6, ReceiveQuiet
<1>7. CASE Lose(c) \/ NoticeClose(c)
  <2> DEFINE x == Disconnected(old)
  <2>1. /\ x \in Sessions /\ x.socket = NoSocket /\ x.connected = FALSE
        /\ x.shown = {} /\ x.others = {} /\ x.local = old.local
        /\ x.replica = old.replica /\ x.mounting = old.mounting
    BY <1>0 DEF Disconnected, Sessions
  <2>2. /\ client' = [client EXCEPT ![c] = x] /\ UNCHANGED <<attachment, up, down>>
        /\ link' = Left(old.socket)
    BY <1>7 DEF Lose, NoticeClose, Disconnect, Become
  <2>3. \A t \in Sockets :
          link'[t] = IF t = old.socket /\ link[t] # "closed" THEN "left" ELSE link[t]
    BY <2>2 DEF Left, PresenceInv, PresenceTypeOK
  <2> HIDE DEF x
  <2>4. QED  BY <2>1, <2>2, <2>3, LeaveQuiet
<1>8. CASE Destroy(c)
  <2> DEFINE x == [Disconnected(old) EXCEPT !.ended = TRUE, !.timer = FALSE]
  <2>1. /\ x \in Sessions /\ x.socket = NoSocket /\ x.connected = FALSE
        /\ x.shown = {} /\ x.others = {} /\ x.local = old.local
        /\ x.replica = old.replica /\ x.mounting = old.mounting
    BY <1>0 DEF Disconnected, Sessions
  <2>2. /\ client' = [client EXCEPT ![c] = x] /\ UNCHANGED <<attachment, up, down>>
        /\ link' = IF old.socket = NoSocket THEN link ELSE Left(old.socket)
    BY <1>8 DEF Destroy, Become
  <2>3. \A t \in Sockets :
          link'[t] = IF t = old.socket /\ link[t] # "closed" THEN "left" ELSE link[t]
    <3>1. CASE old.socket = NoSocket
      BY <2>2, <3>1, PresenceAssumption
    <3>2. CASE old.socket # NoSocket
      <4>1. link' = Left(old.socket)
        BY <2>2, <3>2
      <4> HIDE DEF x
      <4>2. QED  BY <4>1 DEF Left, PresenceInv, PresenceTypeOK
    <3>3. QED  BY <3>1, <3>2
  <2> HIDE DEF x
  <2>4. QED  BY <2>1, <2>2, <2>3, LeaveQuiet
<1>9. QED  BY <1>1, <1>2, <1>3, <1>4, <1>5, <1>6, <1>7, <1>8

\* Whatever happens, what is shown, told and sent stays what QuietInv says.
LEMMA QuietInductive ==
  PresenceInv /\ PresenceInv' /\ QuietInv /\ [PresenceNext]_vars => QuietInv'
<1> SUFFICES ASSUME PresenceInv, PresenceInv', QuietInv, [PresenceNext]_vars
             PROVE  QuietInv'
  OBVIOUS
<1>1. CASE UNCHANGED vars
  <2>1. /\ link' = link /\ attachment' = attachment /\ up' = up
        /\ down' = down /\ client' = client
    BY <1>1 DEF vars
  <2>2. /\ Current' = Current
        /\ \A t \in Sockets : LastSent(t)' = LastSent(t)
    BY <2>1, CurrentStays DEF LastSent
  <2>3. LatestIsTold'
    BY <2>1, <2>2 DEF QuietInv, LatestIsTold
  <2>4. LatestIsSent'
    BY <2>1, <2>2 DEF QuietInv, LatestIsSent, Sent, LastSent
  <2>5. Connections'
    BY <2>1 DEF QuietInv, Connections
  <2>6. LocalIsOwn' /\ Recognized' /\ ListsAreFormer'
    BY <2>1 DEF QuietInv, LocalIsOwn, Recognized, ListsAreFormer, Former, FormerOf
  <2>7. QED  BY <2>3, <2>4, <2>5, <2>6 DEF QuietInv
<1>2. CASE RoomNext
  BY <1>2, GreetQuiet, StoreQuiet, CloseQuiet DEF RoomNext
<1>3. CASE Crash
  BY <1>3, CrashQuiet
<1>4. CASE SessionNext
  BY <1>4, SessionQuiet
<1>5. QED  BY <1>1, <1>2, <1>3, <1>4 DEF PresenceNext

\* When nothing is on its way, the last list told is shown, and it is made of what
\* everybody who is there has sent last.
LEMMA QuietShows ==
  PresenceInv /\ QuietInv => QuietShowsEveryone
<1> SUFFICES ASSUME PresenceInv, QuietInv, Quiet
             PROVE  \A c \in Present :
                      /\ client[c].shown = UNION {Sent(d, client[d].socket) : d \in Present}
                      /\ \A p \in client[c].shown : p \in client[c].others <=> p.by # c
  BY DEF QuietShowsEveryone, Sent, SentOf
<1>1. ASSUME NEW d \in Present
      PROVE  /\ d \in Clients /\ client[d].socket \in Sockets
             /\ link[client[d].socket] = "open"
             /\ attachment[client[d].socket] = Sent(d, client[d].socket)
             /\ client[d].shown = Current
  <2>1. /\ d \in Clients /\ client[d].connected /\ link[client[d].socket] = "open"
        /\ ~client[d].starting /\ ~client[d].timer
    BY DEF Present, Quiet
  <2>2. client[d].socket \in Sockets
    <3>1. client[d].socket # NoSocket
      BY <2>1 DEF QuietInv, Connections
    <3>2. \A z \in Sessions : z.socket \in Sockets \cup {NoSocket}
      BY DEF Sessions
    <3>3. QED  BY <2>1, <3>1, <3>2, PresenceTypes
  <2>3. up[client[d].socket] = <<>> /\ down[client[d].socket] = <<>>
    BY <2>2 DEF Quiet
  <2>4. attachment[client[d].socket] = Sent(d, client[d].socket)
    BY <2>1, <2>2, <2>3 DEF QuietInv, LatestIsSent, LastSent
  <2>5. client[d].shown = Current
    BY <2>1, <2>2, <2>3 DEF QuietInv, LatestIsTold
  <2>6. QED  BY <2>1, <2>2, <2>4, <2>5
<1>2. ASSUME NEW t \in Attached
      PROVE  \E d \in Present : client[d].socket = t
  <2>1. t \in Sockets /\ link[t] = "open"
    BY DEF Attached, Quiet
  <2>2. PICK d \in Clients : client[d].socket = t
    BY <2>1 DEF QuietInv, Connections
  <2>3. ~client[d].ended
    BY <2>1, <2>2, PresenceAssumption DEF QuietInv, Connections
  <2>4. QED  BY <2>2, <2>3 DEF Present
<1>3. Current = UNION {Sent(d, client[d].socket) : d \in Present}
  <2>1. ASSUME NEW p \in Current
        PROVE  \E d \in Present : p \in Sent(d, client[d].socket)
    <3>1. PICK t \in Attached : p \in attachment[t]
      BY DEF Current
    <3>2. PICK d \in Present : client[d].socket = t
      BY <1>2
    <3>3. QED  BY <1>1, <3>1, <3>2
  <2>2. ASSUME NEW d \in Present, NEW p \in Sent(d, client[d].socket)
        PROVE  p \in Current
    <3>1. client[d].socket \in Attached /\ p \in attachment[client[d].socket]
      BY <1>1 DEF Attached
    <3>2. QED  BY <3>1 DEF Current
  <2>3. QED  BY <2>1, <2>2
<1>4. ASSUME NEW c \in Present, NEW p \in Current
      PROVE  p \in client[c].others <=> p.by # c
  <2>1. c \in Clients /\ client[c].shown = Current /\ ~client[c].mounting
    BY <1>1 DEF Present, Quiet
  <2>2. p.by # c => p \in client[c].others
    BY <2>1 DEF QuietInv, Recognized
  <2>3. ASSUME p.by = c, p \in client[c].others
        PROVE  FALSE
    <3>1. PICK d \in Present : p \in Sent(d, client[d].socket)
      BY <1>3
    <3>2. PICK q \in client[d].local : p = OnSocket(client[d].socket, q)
      BY <3>1 DEF Sent, SentOf
    <3>3. p.by = q.by /\ p.as = q.as
      BY <3>2 DEF OnSocket
    <3>4. q.by = d
      BY <1>1, <3>2 DEF QuietInv, LocalIsOwn
    <3>5. q.as = client[c].replica
      BY <2>1, <2>3, <3>2, <3>3, <3>4 DEF QuietInv, LocalIsOwn
    <3>6. p.as < client[c].replica
      BY <2>1, <2>3 DEF QuietInv, Recognized
    <3>7. client[c].replica \in Nat
      <4>1. \A z \in Sessions : z.replica \in Nat
        BY DEF Sessions
      <4>2. QED  BY <2>1, <4>1, PresenceTypes
    <3>8. QED  BY <3>3, <3>5, <3>6, <3>7
  <2>4. QED  BY <2>2, <2>3
<1>5. QED  BY <1>1, <1>3, <1>4

\* When nothing is on its way, everybody who is there is shown the present presence of
\* everybody who is there and of nobody else, and among the others nobody finds
\* themselves: for any clients, connections lost, resets and replaced replicas.
THEOREM EveryoneIsShown == PresenceSpec => []QuietShowsEveryone
<1>1. PresenceSpec => [](PresenceInv /\ QuietInv)
  BY Initially, InitiallyQuiet, Inductive, QuietInductive, PTL DEF PresenceSpec
<1>2. QED  BY <1>1, QuietShows, PTL
=============================================================================
