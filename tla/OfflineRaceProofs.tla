-------------------------- MODULE OfflineRaceProofs --------------------------
(***************************************************************************)
(* What holds of the capture-then-replay race for any prints, frames, ids, *)
(* crashes and reruns.                                                     *)
(*                                                                         *)
(* The inductive invariant OfflineInv joins the arbiter's own to: the two  *)
(* files hold records stamped in order and no later than the clock; the    *)
(* frames still to replay are in order; the registry names each id once    *)
(* and, while it has counted no conflict, as every arm that defined it     *)
(* does; the loaded trades were labelled by it; and the pairs so far are   *)
(* of the public trades already visited, nearest first.  The folds of the  *)
(* decoder, the loader and the readers are taken turn by turn: acc[n] is   *)
(* what there is after n turns (DataInduction).                            *)
(***************************************************************************)
EXTENDS OfflineRace, ArmArbiterProofs

-----------------------------------------------------------------------------
(* The reference data. *)

Names == Markets \cup Ids

Instrument == [id : Ids, sym : Markets, usable : BOOLEAN]
Registry   == [instruments : Seq(Instrument), conflicts : Nat]
Event      == [of : Prints, id : Ids, market : Names]
Decoding   == [registry : Registry, events : Seq(Event)]

\* What an arm may send.
Messages(c) == {Message(c, item) : item \in Items}
AnyMessage  == UNION {Messages(c) : c \in Channels}

\* A message carries an id its arm uses, and a definition also the market of that id.
LEMMA MessageFacts ==
  ASSUME idOf \in IdMaps, NEW c \in Channels, NEW m \in Messages(c)
  PROVE  /\ m.id \in Ids
         /\ \/ m.kind = "def" /\ m.sym \in Markets /\ m.id = idOf[c][m.sym]
               /\ m.usable \in BOOLEAN /\ (m.usable => m.sym \in Usable)
            \/ m.kind = "trade" /\ m.of \in Prints /\ m.id = idOf[c][MarketOf[m.of]]
<1>1. PICK item \in Items : m = Message(c, item)
  BY DEF Messages
<1>2. idOf[c] \in [Markets -> Ids]
  BY NamingAssumption
<1>3. CASE item.kind = "def"
  <2>1. item.market \in Markets
    BY <1>3 DEF Items
  <2>2. m = [kind |-> "def", id |-> idOf[c][item.market], sym |-> item.market,
             usable |-> item.market \in Usable]
    BY <1>1, <1>3 DEF Message
  <2>3. m.kind = "def" /\ m.id = idOf[c][m.sym] /\ m.sym = item.market
    BY <2>2
  <2>4. m.usable = (item.market \in Usable)
    BY <2>2, Zenon
  <2>5. m.usable \in BOOLEAN /\ (m.usable => m.sym \in Usable)
    <3>1. (item.market \in Usable) \in BOOLEAN
      OBVIOUS
    <3>2. m.usable \in BOOLEAN
      BY <2>4, <3>1, Zenon
    <3>3. m.usable => m.sym \in Usable
      <4>1. item.market \in Usable => m.sym \in Usable
        BY <2>3
      <4> QED BY <2>4, <4>1, Zenon
    <3> QED BY <3>2, <3>3
  <2> QED BY <1>2, <2>1, <2>3, <2>5
<1>4. CASE item.kind # "def"
  <2>1. item.of \in Prints /\ MarketOf[item.of] \in Markets
    BY <1>4 DEF Items, Markets
  <2>2. m = [kind |-> "trade", id |-> idOf[c][MarketOf[item.of]], of |-> item.of]
    BY <1>1, <1>4 DEF Message
  <2> QED BY <1>2, <2>1, <2>2
<1> QED BY <1>3, <1>4

\* A trade is labelled by the symbol of its id, or by the id.
LEMMA LabelFacts ==
  ASSUME NEW reg \in Registry, NEW id \in Ids
  PROVE  /\ Label(reg, id) \in Names
         /\ \/ Label(reg, id) = id
            \/ \E k \in DOMAIN reg.instruments :
                 reg.instruments[k].id = id /\ reg.instruments[k].sym = Label(reg, id)
<1>1. CASE Named(reg, id) = {}
  BY <1>1 DEF Label, Names
<1>2. CASE Named(reg, id) # {}
  <2>1. PICK k \in Named(reg, id) : Label(reg, id) = reg.instruments[k].sym
    BY <1>2 DEF Label
  <2>2. k \in DOMAIN reg.instruments /\ reg.instruments[k].id = id
    BY DEF Named
  <2>3. reg.instruments \in Seq(Instrument)
    BY DEF Registry
  <2>4. reg.instruments[k] \in Instrument
    BY <2>2, <2>3
  <2> QED BY <2>1, <2>2, <2>4 DEF Names, Instrument
<1> QED BY <1>1, <1>2

\* An update keeps every instrument's id and symbol.
Extends(reg, more) ==
  /\ more.conflicts >= reg.conflicts
  /\ \A k \in DOMAIN reg.instruments :
       /\ k \in DOMAIN more.instruments
       /\ more.instruments[k].id = reg.instruments[k].id
       /\ more.instruments[k].sym = reg.instruments[k].sym

\* A definition is added, replaces the one of its id and symbol, or counts as a conflict.
LEMMA UpdateFacts ==
  ASSUME NEW reg \in Registry, NEW def \in Instrument
  PROVE  /\ Update(reg, def) \in Registry
         /\ Extends(reg, Update(reg, def))
         /\ \/ Named(reg, def.id) = {}
               /\ Update(reg, def) = [reg EXCEPT !.instruments = Append(reg.instruments, def)]
            \/ \E k \in Named(reg, def.id) :
                 \/ reg.instruments[k].sym # def.sym
                    /\ Update(reg, def) = [reg EXCEPT !.conflicts = reg.conflicts + 1]
                 \/ reg.instruments[k].sym = def.sym
                    /\ Update(reg, def) = [reg EXCEPT !.instruments[k] = def]
<1>1. /\ reg.instruments \in Seq(Instrument) /\ reg.conflicts \in Nat
      /\ reg = [instruments |-> reg.instruments, conflicts |-> reg.conflicts]
  BY DEF Registry
<1>2. CASE Named(reg, def.id) = {}
  <2>1. Update(reg, def) = [reg EXCEPT !.instruments = Append(reg.instruments, def)]
    BY <1>2 DEF Update
  <2>2. /\ Append(reg.instruments, def) \in Seq(Instrument)
        /\ \A k \in DOMAIN reg.instruments :
             k \in DOMAIN Append(reg.instruments, def)
             /\ Append(reg.instruments, def)[k] = reg.instruments[k]
    BY <1>1
  <2>3. Update(reg, def) = [instruments |-> Append(reg.instruments, def), conflicts |-> reg.conflicts]
    BY <1>1, <2>1
  <2>4. Update(reg, def) \in Registry
    BY <1>1, <2>2, <2>3 DEF Registry
  <2>5. Extends(reg, Update(reg, def))
    BY <1>1, <2>2, <2>3 DEF Extends
  <2> QED BY <1>2, <2>1, <2>4, <2>5
<1>3. CASE Named(reg, def.id) # {}
  <2>1. PICK k \in Named(reg, def.id) : Update(reg, def) = Redefined(reg, k, def)
    BY <1>3 DEF Update
  <2>2. k \in DOMAIN reg.instruments /\ reg.instruments[k].id = def.id
    BY DEF Named
  <2>3. CASE reg.instruments[k].sym # def.sym
    <3>1. Update(reg, def) = [reg EXCEPT !.conflicts = reg.conflicts + 1]
      BY <2>1, <2>3 DEF Redefined
    <3> QED BY <1>1, <2>3, <3>1 DEF Registry, Extends
  <2>4. CASE reg.instruments[k].sym = def.sym
    <3>1. Update(reg, def) = [reg EXCEPT !.instruments[k] = def]
      BY <2>1, <2>4 DEF Redefined
    <3>2. Update(reg, def).instruments = [reg.instruments EXCEPT ![k] = def]
          /\ Update(reg, def).conflicts = reg.conflicts
          /\ Update(reg, def) = [instruments |-> [reg.instruments EXCEPT ![k] = def],
                                 conflicts |-> reg.conflicts]
      BY <1>1, <3>1
    <3>3. [reg.instruments EXCEPT ![k] = def] \in Seq(Instrument)
      BY <1>1, <2>2
    <3>4. Update(reg, def) \in Registry
      BY <1>1, <3>2, <3>3 DEF Registry
    <3>5. Extends(reg, Update(reg, def))
      BY <1>1, <2>2, <2>4, <3>2 DEF Extends
    <3> QED BY <2>4, <3>1, <3>4, <3>5
  <2> QED BY <2>3, <2>4
<1> QED BY <1>2, <1>3

\* Whoever has a usable axis is a usable market.
LEMMA AxisFacts ==
  ASSUME NEW reg \in Registry,
         \A k \in DOMAIN reg.instruments : reg.instruments[k].usable => reg.instruments[k].sym \in Usable,
         NEW market, HasUsableAxis(reg, market)
  PROVE  market \in Usable
<1> DEFINE under == {k \in DOMAIN reg.instruments : reg.instruments[k].sym = market}
<1>1. under # {} /\ reg.instruments[CHOOSE k \in under : \A l \in under : k <= l].usable
  BY DEF HasUsableAxis
<1>2. under \in SUBSET Nat
  BY DEF Registry
<1>3. PICK k \in under : reg.instruments[k].usable
  <2>1. \E k \in under : \A l \in under : k <= l
    <3> HIDE DEF under
    <3> QED BY <1>1, <1>2, LeastNatural
  <2> QED BY <1>1, <2>1
<1> QED BY <1>3
-----------------------------------------------------------------------------
(* The decoder's fold over the messages of a frame. *)

\* One message: a definition updates the registry, a trade becomes an event.
LEMMA DecodeOneFacts ==
  ASSUME idOf \in IdMaps, NEW c \in Channels, NEW m \in Messages(c), NEW sofar \in Decoding
  PROVE  /\ DecodeOne(sofar, m) \in Decoding
         /\ m.kind = "def" =>
              LET def == [id |-> m.id, sym |-> m.sym, usable |-> m.usable]
              IN  /\ def \in Instrument
                  /\ DecodeOne(sofar, m).registry = Update(sofar.registry, def)
                  /\ DecodeOne(sofar, m).events = sofar.events
         /\ m.kind # "def" =>
              LET event == [of |-> m.of, id |-> m.id, market |-> Label(sofar.registry, m.id)]
              IN  /\ event \in Event
                  /\ DecodeOne(sofar, m).registry = sofar.registry
                  /\ DecodeOne(sofar, m).events = Append(sofar.events, event)
<1>1. sofar.registry \in Registry /\ sofar.events \in Seq(Event)
      /\ sofar = [registry |-> sofar.registry, events |-> sofar.events]
  BY DEF Decoding
<1>2. CASE m.kind = "def"
  <2> DEFINE def == [id |-> m.id, sym |-> m.sym, usable |-> m.usable]
  <2>1. m.id \in Ids /\ m.sym \in Markets /\ m.usable \in BOOLEAN
    BY <1>2, MessageFacts
  <2>2. def \in Instrument
    BY <2>1 DEF Instrument
  <2>3. DecodeOne(sofar, m) = [sofar EXCEPT !.registry = Update(sofar.registry, def)]
    BY <1>2 DEF DecodeOne
  <2> HIDE DEF def
  <2>4. Update(sofar.registry, def) \in Registry
    BY <1>1, <2>2, UpdateFacts
  <2>5. DecodeOne(sofar, m) = [registry |-> Update(sofar.registry, def), events |-> sofar.events]
    BY <1>1, <2>3
  <2>6. DecodeOne(sofar, m) \in Decoding
    BY <1>1, <2>4, <2>5 DEF Decoding
  <2> QED BY <1>2, <2>2, <2>5, <2>6 DEF def
<1>3. CASE m.kind # "def"
  <2> DEFINE event == [of |-> m.of, id |-> m.id, market |-> Label(sofar.registry, m.id)]
  <2>1. m.id \in Ids /\ m.of \in Prints
    BY <1>3, MessageFacts
  <2>2. event \in Event
    BY <1>1, <2>1, LabelFacts DEF Event
  <2>3. DecodeOne(sofar, m) = [sofar EXCEPT !.events = Append(sofar.events, event)]
    BY <1>3 DEF DecodeOne
  <2> HIDE DEF event
  <2>4. DecodeOne(sofar, m) = [registry |-> sofar.registry, events |-> Append(sofar.events, event)]
    BY <1>1, <2>3
  <2>5. DecodeOne(sofar, m) \in Decoding
    BY <1>1, <2>2, <2>4 DEF Decoding
  <2> QED BY <1>3, <2>2, <2>4, <2>5 DEF event
<1> QED BY <1>2, <1>3

Decoded(base, s) == FoldLeft(DecodeOne, base, s)

\* acc[n] is the fold over the first n messages.
DecodesBy(acc, base, s) ==
  /\ acc[0] = base
  /\ \A n \in 1..Len(s) : acc[n] = DecodeOne(acc[n - 1], s[n])
  /\ Decoded(base, s) = acc[Len(s)]

\* The decoder's fold, message by message.
LEMMA DecodeSteps ==
  ASSUME idOf \in IdMaps, NEW c \in Channels, NEW s \in Seq(Messages(c)), NEW base \in Decoding
  PROVE  \E acc : DecodesBy(acc, base, s)
<1> DEFINE L == Len(s)
           st == [q \in Decoding \X (1..L) |-> DecodeOne(q[1], s[q[2]])]
           it == CHOOSE it : it = [u \in SUBSET (1..L) |->
                   IF u = {} THEN base ELSE DecodeOne(it[u \ {Max(u)}], s[Max(u)])]
           acc == [n \in 0..L |-> it[1..n]]
<1>1. Decoded(base, s) = it[1..L]
  <2>1. DOMAIN s = 1..L
    OBVIOUS
  <2> QED BY <2>1, Zenon DEF Decoded, FoldLeft, MapThenFoldSet
<1>2. L \in Nat /\ \A i \in 1..L : s[i] \in Messages(c)
  OBVIOUS
<1> HIDE DEF L
<1>3. \A d \in Decoding, i \in 1..L : DecodeOne(d, s[i]) \in Decoding
  BY <1>2, DecodeOneFacts
<1>4. /\ st \in [Decoding \X (1..L) -> Decoding]
      /\ \A d \in Decoding, i \in 1..L : st[<<d, i>>] = DecodeOne(d, s[i])
  BY <1>3
<1> HIDE DEF st
<1>5. PICK sol \in [SUBSET (1..L) -> Decoding] : FoldsTo(sol, L, base, st)
  <2> HIDE DEF it, acc
  <2> QED BY <1>2, <1>4, FoldRuns
<1>6. sol = [u \in SUBSET (1..L) |-> IF u = {} THEN base ELSE DecodeOne(sol[u \ {Max(u)}], s[Max(u)])]
  <2>1. sol = [u \in SUBSET (1..L) |-> IF u = {} THEN base ELSE st[<<sol[u \ {Max(u)}], Max(u)>>]]
    BY <1>5 DEF FoldsTo
  <2>2. ASSUME NEW u \in SUBSET (1..L), u # {}
        PROVE  st[<<sol[u \ {Max(u)}], Max(u)>>] = DecodeOne(sol[u \ {Max(u)}], s[Max(u)])
    <3>1. Max(u) \in 1..L
      BY <1>2, <2>2, MaxOfPrefix
    <3>2. sol[u \ {Max(u)}] \in Decoding
      OBVIOUS
    <3> QED BY <1>4, <3>1, <3>2
  <2> HIDE DEF it, acc
  <2> QED BY <2>1, <2>2
<1>7. it = [u \in SUBSET (1..L) |-> IF u = {} THEN base ELSE DecodeOne(it[u \ {Max(u)}], s[Max(u)])]
  BY <1>6
<1> HIDE DEF it
<1>8. acc[0] = base
  <2>1. 1..0 = {} /\ {} \in SUBSET (1..L) /\ 0 \in 0..L
    BY <1>2
  <2>2. it[{}] = base
    BY <1>7, <2>1
  <2> QED BY <2>1, <2>2
<1>9. ASSUME NEW n \in 1..L PROVE acc[n] = DecodeOne(acc[n - 1], s[n])
  <2>1. /\ 1..n # {} /\ Max(1..n) = n /\ (1..n) \ {Max(1..n)} = 1..(n - 1)
        /\ n \in 0..L /\ n - 1 \in 0..L /\ 1..n \in SUBSET (1..L)
    BY <1>2, PrefixFacts
  <2>2. it[1..n] = DecodeOne(it[1..(n - 1)], s[n])
    BY <1>7, <2>1
  <2> QED BY <2>1, <2>2
<1>10. L \in 0..L /\ acc[L] = it[1..L]
  BY <1>2
<1> HIDE DEF acc
<1> QED BY <1>1, <1>8, <1>9, <1>10 DEF L, DecodesBy
\* The registry after the definitions in defs, pairs of an arm and an id: it names each id
\* once and, as long as no conflict was counted, as every arm that defined it does.
RegistryOK(reg, defs) ==
  /\ reg \in Registry
  /\ \A k \in DOMAIN reg.instruments : reg.instruments[k].usable => reg.instruments[k].sym \in Usable
  /\ \A k, l \in DOMAIN reg.instruments : reg.instruments[k].id = reg.instruments[l].id => k = l
  /\ reg.conflicts = 0 =>
       \A c \in Channels, m \in Markets : <<c, idOf[c][m]>> \in defs =>
         \E k \in DOMAIN reg.instruments :
           reg.instruments[k].id = idOf[c][m] /\ reg.instruments[k].sym = m

\* A trade of arm c goes by its id, or by the symbol of its id.
EventOK(e, c, reg) ==
  /\ e.id = idOf[c][MarketOf[e.of]]
  /\ \/ e.market = e.id
     \/ \E k \in DOMAIN reg.instruments :
          reg.instruments[k].id = e.id /\ reg.instruments[k].sym = e.market

\* A definition of an arm keeps the registry as good as the arms agree.
LEMMA UpdateKeeps ==
  ASSUME idOf \in IdMaps, NEW reg, NEW defs, RegistryOK(reg, defs),
         NEW c \in Channels, NEW def \in Instrument,
         def.id = idOf[c][def.sym], def.usable => def.sym \in Usable
  PROVE  RegistryOK(Update(reg, def), defs \cup {<<c, def.id>>})
<1> DEFINE new == Update(reg, def)
           more == defs \cup {<<c, def.id>>}
<1>1. /\ reg \in Registry /\ reg.instruments \in Seq(Instrument) /\ reg.conflicts \in Nat
      /\ reg = [instruments |-> reg.instruments, conflicts |-> reg.conflicts]
      /\ def.sym \in Markets
  BY DEF RegistryOK, Registry, Instrument
<1>2. new \in Registry /\ Extends(reg, new)
  BY <1>1, UpdateFacts
<1>3. \A m \in Markets : idOf[c][m] = def.id => m = def.sym
  BY <1>1, NamingAssumption
<1>4. ASSUME Named(reg, def.id) = {},
             new = [reg EXCEPT !.instruments = Append(reg.instruments, def)]
      PROVE  RegistryOK(new, more)
  <2>1. new.instruments = Append(reg.instruments, def) /\ new.conflicts = reg.conflicts
    BY <1>1, <1>4
  <2> DEFINE n == Len(reg.instruments) + 1
  <2>2. /\ DOMAIN new.instruments = (DOMAIN reg.instruments) \cup {n} /\ n \notin DOMAIN reg.instruments
        /\ new.instruments[n] = def
        /\ \A k \in DOMAIN reg.instruments : new.instruments[k] = reg.instruments[k]
    BY <1>1, <2>1
  <2> HIDE DEF n, new
  <2>3. \A k \in DOMAIN reg.instruments : reg.instruments[k].id # def.id
    BY <1>4 DEF Named
  <2>4. \A k \in DOMAIN new.instruments : new.instruments[k].usable => new.instruments[k].sym \in Usable
    BY <2>2 DEF RegistryOK
  <2>5. \A k, l \in DOMAIN new.instruments : new.instruments[k].id = new.instruments[l].id => k = l
    BY <2>2, <2>3 DEF RegistryOK
  <2>6. ASSUME new.conflicts = 0, NEW d \in Channels, NEW m \in Markets, <<d, idOf[d][m]>> \in more
        PROVE  \E k \in DOMAIN new.instruments :
                 new.instruments[k].id = idOf[d][m] /\ new.instruments[k].sym = m
    <3>1. CASE <<d, idOf[d][m]>> \in defs
      BY <2>1, <2>2, <2>6, <3>1 DEF RegistryOK
    <3>2. CASE d = c /\ idOf[d][m] = def.id
      BY <1>3, <2>2, <3>2
    <3> QED BY <2>6, <3>1, <3>2
  <2> QED BY <1>2, <2>4, <2>5, <2>6 DEF RegistryOK, new
<1>5. ASSUME NEW k \in Named(reg, def.id), reg.instruments[k].sym # def.sym,
             new = [reg EXCEPT !.conflicts = reg.conflicts + 1]
      PROVE  RegistryOK(new, more)
  <2>1. new.instruments = reg.instruments /\ new.conflicts # 0
    BY <1>1, <1>5
  <2> HIDE DEF new
  <2> QED BY <1>2, <2>1 DEF RegistryOK, new
<1>6. ASSUME NEW k \in Named(reg, def.id), reg.instruments[k].sym = def.sym,
             new = [reg EXCEPT !.instruments[k] = def]
      PROVE  RegistryOK(new, more)
  <2>1. k \in DOMAIN reg.instruments /\ reg.instruments[k].id = def.id
    BY DEF Named
  <2>2. new.instruments = [reg.instruments EXCEPT ![k] = def] /\ new.conflicts = reg.conflicts
    BY <1>1, <1>6
  <2>3. /\ DOMAIN new.instruments = DOMAIN reg.instruments
        /\ \A l \in DOMAIN reg.instruments :
             new.instruments[l] = IF l = k THEN def ELSE reg.instruments[l]
    BY <1>1, <2>2
  <2> HIDE DEF new
  <2>4. \A l \in DOMAIN new.instruments : new.instruments[l].usable => new.instruments[l].sym \in Usable
    BY <2>3 DEF RegistryOK
  <2>5. \A l \in DOMAIN new.instruments : /\ new.instruments[l].id = reg.instruments[l].id
                                          /\ new.instruments[l].sym = reg.instruments[l].sym
    BY <1>6, <2>1, <2>3
  <2>6. ASSUME new.conflicts = 0, NEW d \in Channels, NEW m \in Markets, <<d, idOf[d][m]>> \in more
        PROVE  \E l \in DOMAIN new.instruments :
                 new.instruments[l].id = idOf[d][m] /\ new.instruments[l].sym = m
    <3>1. CASE <<d, idOf[d][m]>> \in defs
      BY <2>2, <2>3, <2>5, <2>6, <3>1 DEF RegistryOK
    <3>2. CASE d = c /\ idOf[d][m] = def.id
      <4>1. m = def.sym
        BY <1>3, <3>2
      <4> QED BY <1>6, <2>1, <2>3, <2>5, <3>2, <4>1
    <3> QED BY <2>6, <3>1, <3>2
  <2> QED BY <1>2, <2>3, <2>4, <2>5, <2>6 DEF RegistryOK, new
<1>7. \/ Named(reg, def.id) = {} /\ new = [reg EXCEPT !.instruments = Append(reg.instruments, def)]
      \/ \E k \in Named(reg, def.id) :
           \/ reg.instruments[k].sym # def.sym
              /\ new = [reg EXCEPT !.conflicts = reg.conflicts + 1]
           \/ reg.instruments[k].sym = def.sym
              /\ new = [reg EXCEPT !.instruments[k] = def]
  <2> HIDE DEF more
  <2> QED BY <1>1, UpdateFacts
<1> HIDE DEF new, more
<1>8. RegistryOK(new, more)
  <2>1. CASE Named(reg, def.id) = {} /\ new = [reg EXCEPT !.instruments = Append(reg.instruments, def)]
    BY <1>4, <2>1
  <2>2. ASSUME NEW k \in Named(reg, def.id),
               \/ reg.instruments[k].sym # def.sym
                  /\ new = [reg EXCEPT !.conflicts = reg.conflicts + 1]
               \/ reg.instruments[k].sym = def.sym
                  /\ new = [reg EXCEPT !.instruments[k] = def]
        PROVE  RegistryOK(new, more)
    BY <1>5, <1>6, <2>2
  <2> QED BY <1>7, <2>1, <2>2
<1> QED BY <1>8 DEF new, more

\* The definitions among the first n messages of a frame.
DefsIn(c, s, n) == {<<c, s[l].id>> : l \in {l \in 1..n : s[l].kind = "def"}}

\* What the decoder makes of a frame of arm c.
LEMMA DecodeKeeps ==
  ASSUME idOf \in IdMaps, NEW c \in Channels, NEW s \in Seq(Messages(c)),
         NEW reg, NEW defs, RegistryOK(reg, defs), NEW decoded,
         decoded = Decoded([registry |-> reg, events |-> <<>>], s)
  PROVE  /\ decoded \in Decoding
         /\ RegistryOK(decoded.registry, defs \cup DefsIn(c, s, Len(s)))
         /\ decoded.registry.conflicts >= reg.conflicts
         /\ \A k \in DOMAIN decoded.events : EventOK(decoded.events[k], c, decoded.registry)
<1> DEFINE base == [registry |-> reg, events |-> <<>>]
           Ok(d, n) == /\ d \in Decoding
                       /\ RegistryOK(d.registry, defs \cup DefsIn(c, s, n))
                       /\ d.registry.conflicts >= reg.conflicts
                       /\ \A k \in DOMAIN d.events : EventOK(d.events[k], c, d.registry)
<1>1. base \in Decoding /\ reg.conflicts \in Nat
  BY DEF Decoding, RegistryOK, Registry
<1>2. PICK acc : DecodesBy(acc, base, s)
  <2> HIDE DEF base
  <2> QED BY <1>1, DecodeSteps
<1>3. Len(s) \in Nat /\ \A n \in 1..Len(s) : s[n] \in Messages(c)
  OBVIOUS
<1>4. Ok(base, 0)
  <2>1. base.registry = reg /\ base.events = <<>>
    OBVIOUS
  <2>2. defs \cup DefsIn(c, s, 0) = defs
    BY DEF DefsIn
  <2> HIDE DEF base
  <2>3. DOMAIN base.events = {}
    BY <2>1
  <2>4. RegistryOK(base.registry, defs \cup DefsIn(c, s, 0))
    BY <2>1, <2>2
  <2>5. base.registry.conflicts >= reg.conflicts
    BY <1>1, <2>1
  <2> QED BY <1>1, <2>3, <2>4, <2>5
<1>5. ASSUME NEW n \in 0..(Len(s) - 1), Ok(acc[n], n) PROVE Ok(acc[n + 1], n + 1)
  <2> DEFINE d == acc[n]
             e == acc[n + 1]
             m == s[n + 1]
  <2>1. n + 1 \in 1..Len(s) /\ n \in Nat /\ (n + 1) - 1 = n
    BY <1>3
  <2>2. m \in Messages(c) /\ e = DecodeOne(d, m)
    BY <1>2, <1>3, <2>1 DEF DecodesBy
  <2>3. \A l \in 1..(n + 1) : l \in 1..n \/ l = n + 1
    BY <2>1
  <2>4. 1..n \subseteq 1..(n + 1) /\ n + 1 \in 1..(n + 1)
    BY <2>1
  <2>5. /\ m.kind = "def" => DefsIn(c, s, n + 1) = DefsIn(c, s, n) \cup {<<c, m.id>>}
        /\ m.kind # "def" => DefsIn(c, s, n + 1) = DefsIn(c, s, n)
    BY <2>3, <2>4 DEF DefsIn
  <2>6. /\ d \in Decoding
        /\ RegistryOK(d.registry, defs \cup DefsIn(c, s, n))
        /\ d.registry.conflicts >= reg.conflicts
        /\ \A k \in DOMAIN d.events : EventOK(d.events[k], c, d.registry)
    BY <1>5
  <2>7. d.registry \in Registry /\ d.events \in Seq(Event) /\ d.registry.conflicts \in Nat
    BY <2>6 DEF Decoding, Registry
  <2> HIDE DEF d, e, m
  <2>8. e \in Decoding
    BY <2>2, <2>6, DecodeOneFacts
  <2>9. CASE m.kind = "def"
    <3> DEFINE def == [id |-> m.id, sym |-> m.sym, usable |-> m.usable]
    <3>1. /\ def \in Instrument /\ e.registry = Update(d.registry, def) /\ e.events = d.events
      BY <2>2, <2>6, <2>9, DecodeOneFacts
    <3>2. def.id = idOf[c][def.sym] /\ (def.usable => def.sym \in Usable) /\ def.id = m.id
      BY <2>2, <2>9, MessageFacts
    <3> HIDE DEF def
    <3>3. RegistryOK(e.registry, (defs \cup DefsIn(c, s, n)) \cup {<<c, m.id>>})
      <4>1. RegistryOK(Update(d.registry, def), (defs \cup DefsIn(c, s, n)) \cup {<<c, def.id>>})
        BY <2>6, <3>1, <3>2, UpdateKeeps
      <4> QED BY <3>1, <3>2, <4>1
    <3>4. RegistryOK(e.registry, defs \cup DefsIn(c, s, n + 1))
      <4>1. (defs \cup DefsIn(c, s, n)) \cup {<<c, m.id>>} = defs \cup DefsIn(c, s, n + 1)
        BY <2>5, <2>9
      <4> QED BY <3>3, <4>1
    <3>5. Extends(d.registry, e.registry)
      BY <2>7, <3>1, UpdateFacts
    <3>6. e.registry.conflicts >= reg.conflicts
      <4>1. e.registry.conflicts \in Nat /\ e.registry.conflicts >= d.registry.conflicts
        BY <2>8, <3>5 DEF Extends, Decoding, Registry
      <4> QED BY <1>1, <2>6, <2>7, <4>1
    <3>7. \A k \in DOMAIN e.events : EventOK(e.events[k], c, e.registry)
      BY <2>6, <3>1, <3>5 DEF EventOK, Extends
    <3> QED BY <2>8, <3>4, <3>6, <3>7 DEF e
  <2>10. CASE m.kind # "def"
    <3> DEFINE event == [of |-> m.of, id |-> m.id, market |-> Label(d.registry, m.id)]
    <3>1. event \in Event /\ e.registry = d.registry /\ e.events = Append(d.events, event)
      BY <2>2, <2>6, <2>10, DecodeOneFacts
    <3>2. EventOK(event, c, d.registry)
      <4>1. m.id \in Ids /\ m.id = idOf[c][MarketOf[m.of]]
        BY <2>2, <2>10, MessageFacts
      <4> QED BY <2>7, <4>1, LabelFacts DEF EventOK
    <3> HIDE DEF event
    <3>3. /\ DOMAIN e.events = (DOMAIN d.events) \cup {Len(d.events) + 1}
          /\ e.events[Len(d.events) + 1] = event
          /\ \A k \in DOMAIN d.events : e.events[k] = d.events[k]
      BY <2>7, <3>1
    <3>4. \A k \in DOMAIN e.events : EventOK(e.events[k], c, e.registry)
      BY <2>6, <3>1, <3>2, <3>3
    <3> QED BY <2>5, <2>6, <2>8, <2>10, <3>1, <3>4 DEF e
  <2> QED BY <2>9, <2>10
<1> DEFINE Good == {n \in 0..Len(s) : Ok(acc[n], n)}
<1>6. 0 \in Good
  BY <1>2, <1>3, <1>4 DEF DecodesBy
<1>7. \A n \in 0..(Len(s) - 1) : n \in Good => n + 1 \in Good
  <2> SUFFICES ASSUME NEW n \in 0..(Len(s) - 1), Ok(acc[n], n) PROVE n + 1 \in Good
    OBVIOUS
  <2>1. n + 1 \in 0..Len(s)
    BY <1>3
  <2>2. Ok(acc[n + 1], n + 1)
    BY <1>5
  <2> HIDE DEF Ok
  <2> QED BY <2>1, <2>2
<1>8. 0..Len(s) \subseteq Good
  <2> HIDE DEF Good
  <2> QED BY <1>3, <1>6, <1>7, InductTo
<1>9. Ok(acc[Len(s)], Len(s))
  <2> HIDE DEF Ok
  <2> QED BY <1>3, <1>8
<1> QED BY <1>2, <1>9 DEF DecodesBy
-----------------------------------------------------------------------------
(* The trades of a frame, put on their axes. *)

DzTrade == [at : Nat, of : Stamped, market : Usable, own : BOOLEAN]
Loading == [axes : SUBSET Usable, loaded : Seq(DzTrade)]

\* A trade that was loaded has an axis, and its market's unless arms disagree on ids.
LoadedOK(trade, known, conflicts) ==
  /\ trade.market \in known
  /\ trade.own /\ conflicts = 0 => trade.market = MarketOf[trade.of]

LoadOK(load) ==
  /\ load \in Loading
  /\ \A j \in DOMAIN load.loaded : LoadedOK(load.loaded[j], load.axes, registry.conflicts)

LoadContext ==
  /\ idOf \in IdMaps /\ now \in Nat /\ hand.ch \in Channels
  /\ RegistryOK(registry, defined)

\* One trade: its market's axis is learnt, and it is kept only on an axis.
LEMMA LoadOneFacts ==
  ASSUME LoadContext, NEW load \in Loading, NEW e \in Event
  PROVE  /\ LoadOne(load, e) \in Loading
         /\ LoadOK(load) /\ EventOK(e, hand.ch, registry) => LoadOK(LoadOne(load, e))
<1> DEFINE known == Learnt(load.axes, registry, e.market)
           own   == <<hand.ch, e.id>> \in defined
           trade == [at |-> now, of |-> e.of, market |-> e.market, own |-> own]
<1>1. /\ load.axes \in SUBSET Usable /\ load.loaded \in Seq(DzTrade)
      /\ load = [axes |-> load.axes, loaded |-> load.loaded]
  BY DEF Loading
<1>2. /\ registry \in Registry
      /\ \A k \in DOMAIN registry.instruments :
           registry.instruments[k].usable => registry.instruments[k].sym \in Usable
  BY DEF LoadContext, RegistryOK
<1>3. known \in SUBSET Usable /\ load.axes \subseteq known
  BY <1>1, <1>2, AxisFacts DEF Learnt
<1> HIDE DEF known
<1>4. CASE e.of \notin Stamped
  <2>1. LoadOne(load, e) = load
    BY <1>4 DEF LoadOne
  <2> QED BY <2>1
<1>5. CASE e.of \in Stamped /\ e.market \notin known
  <2>1. LoadOne(load, e) = [axes |-> known, loaded |-> load.loaded]
    BY <1>5 DEF LoadOne, known
  <2> HIDE DEF known
  <2>2. LoadOne(load, e) \in Loading
    BY <1>1, <1>3, <2>1 DEF Loading
  <2>3. LoadOK(load) => LoadOK(LoadOne(load, e))
    BY <1>3, <2>1, <2>2 DEF LoadOK, LoadedOK
  <2> QED BY <2>2, <2>3
<1>6. CASE e.of \in Stamped /\ e.market \in known
  <2>1. LoadOne(load, e) = [axes |-> known, loaded |-> Append(load.loaded, trade)]
    BY <1>6 DEF LoadOne, known
  <2> HIDE DEF known
  <2>2. own \in BOOLEAN
    OBVIOUS
  <2>3. /\ trade.own = own /\ trade.at = now /\ trade.of = e.of /\ trade.market = e.market
        /\ trade = [at |-> now, of |-> e.of, market |-> e.market, own |-> own]
    BY Zenon
  <2>4. trade \in DzTrade
    <3>1. now \in Nat /\ e.of \in Stamped /\ e.market \in Usable
      BY <1>3, <1>6 DEF LoadContext
    <3> HIDE DEF own, trade
    <3> QED BY <2>2, <2>3, <3>1 DEF DzTrade
  <2>5. own /\ EventOK(e, hand.ch, registry) /\ registry.conflicts = 0 => e.market = MarketOf[e.of]
    <3> SUFFICES ASSUME own, EventOK(e, hand.ch, registry), registry.conflicts = 0
                 PROVE  e.market = MarketOf[e.of]
      OBVIOUS
    <3>1. e.id = idOf[hand.ch][MarketOf[e.of]] /\ MarketOf[e.of] \in Markets
      BY DEF EventOK, Event, Markets
    <3>2. e.market \in Markets /\ e.id \in Ids /\ e.market # e.id
      BY <1>3, <1>6, OfflineAssumption, NamingAssumption DEF Event
    <3>3. PICK k \in DOMAIN registry.instruments :
            registry.instruments[k].id = e.id /\ registry.instruments[k].sym = e.market
      BY <3>2 DEF EventOK
    <3>4. PICK l \in DOMAIN registry.instruments :
            registry.instruments[l].id = e.id /\ registry.instruments[l].sym = MarketOf[e.of]
      BY <3>1 DEF LoadContext, RegistryOK
    <3>5. k = l
      BY <3>3, <3>4 DEF LoadContext, RegistryOK
    <3> QED BY <3>3, <3>4, <3>5
  <2>6. EventOK(e, hand.ch, registry) => LoadedOK(trade, known, registry.conflicts)
    <3> HIDE DEF own, trade
    <3>1. EventOK(e, hand.ch, registry) /\ trade.own /\ registry.conflicts = 0
            => trade.market = MarketOf[trade.of]
      BY <2>3, <2>5, Zenon
    <3> QED BY <1>6, <2>3, <3>1 DEF LoadedOK
  <2> HIDE DEF own, trade
  <2>7. LoadOne(load, e) \in Loading
    BY <1>1, <1>3, <2>1, <2>4 DEF Loading
  <2>8. /\ DOMAIN Append(load.loaded, trade) = (DOMAIN load.loaded) \cup {Len(load.loaded) + 1}
        /\ Append(load.loaded, trade)[Len(load.loaded) + 1] = trade
        /\ \A j \in DOMAIN load.loaded : Append(load.loaded, trade)[j] = load.loaded[j]
    BY <1>1, <2>4
  <2>9. LoadOK(load) /\ EventOK(e, hand.ch, registry) => LoadOK(LoadOne(load, e))
    <3> SUFFICES ASSUME LoadOK(load), EventOK(e, hand.ch, registry)
                 PROVE  \A j \in DOMAIN Append(load.loaded, trade) :
                          LoadedOK(Append(load.loaded, trade)[j], known, registry.conflicts)
      BY <2>1, <2>7 DEF LoadOK
    <3>1. \A j \in DOMAIN load.loaded : LoadedOK(load.loaded[j], known, registry.conflicts)
      BY <1>3 DEF LoadOK, LoadedOK
    <3> QED BY <2>6, <2>8, <3>1
  <2> QED BY <2>7, <2>9
<1> QED BY <1>4, <1>5, <1>6

Loads(base, s) == FoldLeft(LoadOne, base, s)

LoadsBy(acc, base, s) ==
  /\ acc[0] = base
  /\ \A n \in 1..Len(s) : acc[n] = LoadOne(acc[n - 1], s[n])
  /\ Loads(base, s) = acc[Len(s)]

\* The loader's fold, trade by trade.
LEMMA LoadSteps ==
  ASSUME LoadContext, NEW s \in Seq(Event), NEW base \in Loading
  PROVE  \E acc : LoadsBy(acc, base, s)
<1> DEFINE L == Len(s)
           st == [q \in Loading \X (1..L) |-> LoadOne(q[1], s[q[2]])]
           it == CHOOSE it : it = [u \in SUBSET (1..L) |->
                   IF u = {} THEN base ELSE LoadOne(it[u \ {Max(u)}], s[Max(u)])]
           acc == [n \in 0..L |-> it[1..n]]
<1>1. Loads(base, s) = it[1..L]
  <2>1. DOMAIN s = 1..L
    OBVIOUS
  <2> QED BY <2>1, Zenon DEF Loads, FoldLeft, MapThenFoldSet
<1>2. L \in Nat /\ \A i \in 1..L : s[i] \in Event
  OBVIOUS
<1> HIDE DEF L
<1>3. \A d \in Loading, i \in 1..L : LoadOne(d, s[i]) \in Loading
  BY <1>2, LoadOneFacts
<1>4. /\ st \in [Loading \X (1..L) -> Loading]
      /\ \A d \in Loading, i \in 1..L : st[<<d, i>>] = LoadOne(d, s[i])
  BY <1>3
<1> HIDE DEF st
<1>5. PICK sol \in [SUBSET (1..L) -> Loading] : FoldsTo(sol, L, base, st)
  <2> HIDE DEF it, acc
  <2> QED BY <1>2, <1>4, FoldRuns
<1>6. sol = [u \in SUBSET (1..L) |-> IF u = {} THEN base ELSE LoadOne(sol[u \ {Max(u)}], s[Max(u)])]
  <2>1. sol = [u \in SUBSET (1..L) |-> IF u = {} THEN base ELSE st[<<sol[u \ {Max(u)}], Max(u)>>]]
    BY <1>5 DEF FoldsTo
  <2>2. ASSUME NEW u \in SUBSET (1..L), u # {}
        PROVE  st[<<sol[u \ {Max(u)}], Max(u)>>] = LoadOne(sol[u \ {Max(u)}], s[Max(u)])
    <3>1. Max(u) \in 1..L
      BY <1>2, <2>2, MaxOfPrefix
    <3>2. sol[u \ {Max(u)}] \in Loading
      OBVIOUS
    <3> QED BY <1>4, <3>1, <3>2
  <2> HIDE DEF it, acc
  <2> QED BY <2>1, <2>2
<1>7. it = [u \in SUBSET (1..L) |-> IF u = {} THEN base ELSE LoadOne(it[u \ {Max(u)}], s[Max(u)])]
  BY <1>6
<1> HIDE DEF it
<1>8. acc[0] = base
  <2>1. 1..0 = {} /\ {} \in SUBSET (1..L) /\ 0 \in 0..L
    BY <1>2
  <2>2. it[{}] = base
    BY <1>7, <2>1
  <2> QED BY <2>1, <2>2
<1>9. ASSUME NEW n \in 1..L PROVE acc[n] = LoadOne(acc[n - 1], s[n])
  <2>1. /\ 1..n # {} /\ Max(1..n) = n /\ (1..n) \ {Max(1..n)} = 1..(n - 1)
        /\ n \in 0..L /\ n - 1 \in 0..L /\ 1..n \in SUBSET (1..L)
    BY <1>2, PrefixFacts
  <2>2. it[1..n] = LoadOne(it[1..(n - 1)], s[n])
    BY <1>7, <2>1
  <2> QED BY <2>1, <2>2
<1>10. L \in 0..L /\ acc[L] = it[1..L]
  BY <1>2
<1> HIDE DEF acc
<1> QED BY <1>1, <1>8, <1>9, <1>10 DEF L, LoadsBy

\* The trades of a frame keep the loaded ones well labelled.
LEMMA LoadKeeps ==
  ASSUME LoadContext, NEW s \in Seq(Event), NEW base, LoadOK(base),
         \A k \in DOMAIN s : EventOK(s[k], hand.ch, registry)
  PROVE  LoadOK(Loads(base, s))
<1>1. PICK acc : LoadsBy(acc, base, s)
  BY LoadSteps DEF LoadOK
<1>2. Len(s) \in Nat /\ \A n \in 1..Len(s) : s[n] \in Event /\ EventOK(s[n], hand.ch, registry)
  OBVIOUS
<1> DEFINE Good == {n \in 0..Len(s) : LoadOK(acc[n])}
<1>3. 0 \in Good
  BY <1>1, <1>2 DEF LoadsBy
<1>4. ASSUME NEW n \in 0..(Len(s) - 1), n \in Good PROVE n + 1 \in Good
  <2>1. n + 1 \in 1..Len(s) /\ n + 1 \in 0..Len(s) /\ (n + 1) - 1 = n
    BY <1>2
  <2>2. acc[n + 1] = LoadOne(acc[n], s[n + 1])
    BY <1>1, <2>1 DEF LoadsBy
  <2>3. LoadOK(acc[n]) /\ acc[n] \in Loading
    BY <1>4 DEF LoadOK
  <2>4. LoadOK(acc[n + 1])
    BY <1>2, <2>1, <2>2, <2>3, LoadOneFacts
  <2> QED BY <2>1, <2>4
<1>5. 0..Len(s) \subseteq Good
  <2> HIDE DEF Good
  <2> QED BY <1>2, <1>3, <1>4, InductTo
<1>6. LoadOK(acc[Len(s)])
  BY <1>2, <1>5
<1> QED BY <1>1, <1>6 DEF LoadsBy
-----------------------------------------------------------------------------
(* The two files, and what is read back from them. *)

DzRecord  == UNION {[at : Nat, ch : {c}, msgs : Seq(Messages(c))] : c \in Channels}
PubRecord == [at : Nat, of : Prints]

\* A file of records of R: no payload is one that was cut, or is stamped after t.
LogOf(file, R, t) ==
  /\ file \in Seq((1..3) \X (R \cup {Garbage}))
  /\ \A i \in DOMAIN file : file[i][1] = 3 => file[i][2] \in R /\ file[i][2].at \in 1..t

InOrder(file) ==
  \A i, j \in DOMAIN file :
    i < j /\ file[i][1] = 3 /\ file[j][1] = 3 => file[i][2].at <= file[j][2].at

Reading(R) == [start : Nat \ {0}, got : Seq(R \cup {Garbage})]

\* Every record that was read is that of a payload before the position.
ReadOK(file, read) ==
  /\ \A k \in DOMAIN read.got :
       \/ read.got[k] = Garbage
       \/ \E p \in DOMAIN file : p < read.start /\ file[p][1] = 3 /\ file[p][2] = read.got[k]
  /\ InOrder(file) =>
       \A k, l \in DOMAIN read.got :
         k < l /\ read.got[k] # Garbage /\ read.got[l] # Garbage => read.got[k].at <= read.got[l].at

\* One turn of read_frames keeps what was read among the file's payloads, in order.
LEMMA ReadOneFacts ==
  ASSUME NEW R, NEW file, NEW t, LogOf(file, R, t), NEW g \in Nat, NEW read \in Reading(R)
  PROVE  /\ ReadOne(file, g, read) \in Reading(R)
         /\ ReadOK(file, read) => ReadOK(file, ReadOne(file, g, read))
<1> DEFINE n == Length(file, g, read.start)
           x == Payload(file, read.start)
           new == [start |-> read.start + 2 + n, got |-> Append(read.got, x)]
<1>1. /\ read.start \in Nat \ {0} /\ read.got \in Seq(R \cup {Garbage})
      /\ file \in Seq((1..3) \X (R \cup {Garbage}))
  BY DEF Reading, LogOf
<1>2. CASE read.start + 1 > Len(file) \/ CutShort(file, read.start, n)
  <2>1. ReadOne(file, g, read) = read
    BY <1>2 DEF ReadOne
  <2> QED BY <2>1
<1>3. CASE ~(read.start + 1 > Len(file) \/ CutShort(file, read.start, n))
  <2>1. ReadOne(file, g, read) = new
    BY <1>3 DEF ReadOne
  <2>2. n \in Nat
    BY DEF Length
  <2>3. \/ x = Garbage
        \/ /\ Aligned(file, read.start) /\ read.start + 2 \in DOMAIN file
           /\ file[read.start + 2] = <<3, file[read.start][2]>> /\ x = file[read.start + 2][2]
    BY <1>1 DEF Payload
  <2> HIDE DEF x
  <2>4. x = Garbage \/ (read.start + 2 \in DOMAIN file /\ file[read.start + 2][1] = 3
                        /\ file[read.start + 2][2] = x /\ x \in R /\ n >= 1)
    <3> SUFFICES ASSUME x # Garbage
                 PROVE  read.start + 2 \in DOMAIN file /\ file[read.start + 2][1] = 3
                        /\ file[read.start + 2][2] = x /\ x \in R /\ n >= 1
      OBVIOUS
    <3>1. /\ Aligned(file, read.start) /\ read.start + 2 \in DOMAIN file
          /\ file[read.start + 2] = <<3, file[read.start][2]>> /\ x = file[read.start + 2][2]
      BY <2>3
    <3>2. n >= 1
      BY <3>1 DEF Length
    <3>3. file[read.start + 2][1] = 3
      BY <3>1
    <3> QED BY <3>1, <3>2, <3>3 DEF LogOf
  <2> HIDE DEF n
  <2>5. new \in Reading(R)
    <3>1. read.start + 2 + n \in Nat \ {0}
      BY <1>1, <2>2
    <3>2. Append(read.got, x) \in Seq(R \cup {Garbage})
      BY <1>1, <2>4
    <3> QED BY <3>1, <3>2 DEF Reading
  <2>6. /\ new.got = Append(read.got, x) /\ new.start = read.start + 2 + n
        /\ DOMAIN new.got = (DOMAIN read.got) \cup {Len(read.got) + 1}
        /\ new.got[Len(read.got) + 1] = x
        /\ \A k \in DOMAIN read.got : new.got[k] = read.got[k] /\ k < Len(read.got) + 1
        /\ Len(read.got) \in Nat /\ DOMAIN read.got \subseteq Nat
    <3>1. new.got = Append(read.got, x) /\ new.start = read.start + 2 + n
      OBVIOUS
    <3>2. x \in R \cup {Garbage}
      BY <2>4
    <3> HIDE DEF new
    <3> QED BY <1>1, <3>1, <3>2
  <2> HIDE DEF new
  <2>7. ASSUME ReadOK(file, read), NEW k \in DOMAIN new.got
        PROVE  \/ new.got[k] = Garbage
               \/ \E p \in DOMAIN file : p < new.start /\ file[p][1] = 3 /\ file[p][2] = new.got[k]
    <3>1. CASE k \in DOMAIN read.got
      <4>1. \A p \in DOMAIN file : p < read.start => p < new.start
        BY <1>1, <2>2, <2>6
      <4> QED BY <2>6, <2>7, <3>1, <4>1 DEF ReadOK
    <3>2. CASE k = Len(read.got) + 1
      <4>1. x # Garbage => read.start + 2 < new.start
        BY <1>1, <2>2, <2>4, <2>6
      <4> QED BY <2>4, <2>6, <3>2, <4>1
    <3> QED BY <2>6, <3>1, <3>2
  <2>8. ASSUME ReadOK(file, read), InOrder(file), NEW k \in DOMAIN new.got, NEW l \in DOMAIN new.got,
               k < l, new.got[k] # Garbage, new.got[l] # Garbage
        PROVE  new.got[k].at <= new.got[l].at
    <3>1. k \in DOMAIN read.got
      BY <2>6, <2>8
    <3>2. CASE l \in DOMAIN read.got
      BY <2>6, <2>8, <3>1, <3>2 DEF ReadOK
    <3>3. CASE l = Len(read.got) + 1
      <4>1. PICK p \in DOMAIN file : p < read.start /\ file[p][1] = 3 /\ file[p][2] = new.got[k]
        BY <2>6, <2>8, <3>1 DEF ReadOK
      <4>2. read.start + 2 \in DOMAIN file /\ file[read.start + 2][1] = 3 /\ file[read.start + 2][2] = new.got[l]
        BY <2>4, <2>6, <2>8, <3>3
      <4>3. p < read.start + 2
        BY <1>1, <4>1
      <4> QED BY <2>8, <4>1, <4>2, <4>3 DEF InOrder
    <3> QED BY <2>6, <3>2, <3>3
  <2>9. ReadOK(file, read) => ReadOK(file, new)
    BY <2>7, <2>8 DEF ReadOK
  <2> QED BY <2>1, <2>5, <2>9
<1> QED BY <1>2, <1>3

\* acc[n] is where the reader is after n turns of its loop.
ReadsBy(acc, file, g) ==
  /\ acc[0] = [start |-> 1, got |-> <<>>]
  /\ \A n \in 1..Len(file) : acc[n] = ReadOne(file, g, acc[n - 1])
  /\ ReadFrames(file, g) = acc[Len(file)].got

\* read_frames, turn by turn.
LEMMA ReadSteps ==
  ASSUME NEW R, NEW file, NEW t, LogOf(file, R, t), NEW g \in Nat
  PROVE  \E acc : ReadsBy(acc, file, g)
<1> DEFINE L == Len(file)
           base == [start |-> 1, got |-> <<>>]
           st == [q \in Reading(R) \X (1..L) |-> ReadOne(file, g, q[1])]
           after == CHOOSE after : after = [k \in 0..L |->
                      IF k = 0 THEN [start |-> 1, got |-> <<>>] ELSE ReadOne(file, g, after[k - 1])]
<1>1. ReadFrames(file, g) = after[L].got
  BY Zenon DEF ReadFrames
<1>2. L \in Nat /\ base \in Reading(R)
  BY DEF LogOf, Reading
<1> HIDE DEF L
<1>3. \A d \in Reading(R) : ReadOne(file, g, d) \in Reading(R)
  BY ReadOneFacts
<1>4. /\ st \in [Reading(R) \X (1..L) -> Reading(R)]
      /\ \A d \in Reading(R), i \in 1..L : st[<<d, i>>] = ReadOne(file, g, d)
  BY <1>3
<1> HIDE DEF st
<1>5. PICK f \in [0..L -> Reading(R)] : Recurs(f, L, base, st)
  <2> HIDE DEF after, base
  <2> QED BY <1>2, <1>4, RecursionRuns
<1>6. f = [k \in 0..L |-> IF k = 0 THEN [start |-> 1, got |-> <<>>] ELSE ReadOne(file, g, f[k - 1])]
  <2>1. f = [k \in 0..L |-> IF k = 0 THEN base ELSE st[<<f[k - 1], k>>]]
    BY <1>5 DEF Recurs
  <2>2. ASSUME NEW k \in 0..L, k # 0 PROVE st[<<f[k - 1], k>>] = ReadOne(file, g, f[k - 1])
    <3>1. k \in 1..L /\ k - 1 \in 0..L
      BY <1>2, <2>2
    <3>2. f[k - 1] \in Reading(R)
      BY <3>1
    <3> QED BY <1>4, <3>1, <3>2
  <2> HIDE DEF after
  <2> QED BY <2>1, <2>2
<1>7. after = [k \in 0..L |-> IF k = 0 THEN [start |-> 1, got |-> <<>>] ELSE ReadOne(file, g, after[k - 1])]
  BY <1>6
<1> HIDE DEF after
<1>8. after[0] = base
  BY <1>2, <1>7
<1>9. ASSUME NEW n \in 1..L PROVE after[n] = ReadOne(file, g, after[n - 1])
  <2>1. n \in 0..L /\ n # 0
    BY <1>2
  <2> QED BY <1>7, <2>1
<1> QED BY <1>1, <1>8, <1>9 DEF L, ReadsBy

\* What was read: whole records of the file, in its order, and what is none.
ReadBack(R, file, got) ==
  /\ got \in Seq(R \cup {Garbage})
  /\ \A k \in DOMAIN got :
       \/ got[k] = Garbage
       \/ got[k] \in R /\ \E p \in DOMAIN file : file[p][1] = 3 /\ file[p][2] = got[k]
  /\ InOrder(file) =>
       \A k, l \in DOMAIN got :
         k < l /\ got[k] # Garbage /\ got[l] # Garbage => got[k].at <= got[l].at

\* Everything read is a payload of the file, in its order, or what is none.
LEMMA ReadKeeps ==
  ASSUME NEW R, NEW file, NEW t, LogOf(file, R, t), NEW g \in Nat
  PROVE  ReadBack(R, file, ReadFrames(file, g))
<1> DEFINE got == ReadFrames(file, g)
<1>1. PICK acc : ReadsBy(acc, file, g)
  BY ReadSteps
<1>2. Len(file) \in Nat
  BY DEF LogOf
<1> DEFINE Good == {n \in 0..Len(file) : acc[n] \in Reading(R) /\ ReadOK(file, acc[n])}
<1>3. 0 \in Good
  <2>1. acc[0] = [start |-> 1, got |-> <<>>]
    BY <1>1 DEF ReadsBy
  <2>2. acc[0] \in Reading(R) /\ DOMAIN acc[0].got = {}
    BY <2>1 DEF Reading
  <2> QED BY <1>2, <2>2 DEF ReadOK
<1>4. ASSUME NEW n \in 0..(Len(file) - 1), n \in Good PROVE n + 1 \in Good
  <2>1. n + 1 \in 1..Len(file) /\ n + 1 \in 0..Len(file) /\ (n + 1) - 1 = n
    BY <1>2
  <2>2. acc[n + 1] = ReadOne(file, g, acc[n])
    BY <1>1, <2>1 DEF ReadsBy
  <2>3. acc[n + 1] \in Reading(R) /\ ReadOK(file, acc[n + 1])
    BY <1>4, <2>2, ReadOneFacts
  <2> QED BY <2>1, <2>3
<1>5. 0..Len(file) \subseteq Good
  <2> HIDE DEF Good
  <2> QED BY <1>2, <1>3, <1>4, InductTo
<1>6. acc[Len(file)] \in Reading(R) /\ ReadOK(file, acc[Len(file)]) /\ got = acc[Len(file)].got
  BY <1>1, <1>2, <1>5 DEF ReadsBy
<1>7. got \in Seq(R \cup {Garbage})
  BY <1>6 DEF Reading
<1> HIDE DEF got
<1>8. ReadBack(R, file, got)
  BY <1>6, <1>7 DEF ReadOK, LogOf, ReadBack
<1> QED BY <1>8 DEF got

-----------------------------------------------------------------------------
(* The inductive invariant. *)

\* The ids in use, the clock, and the records in the two files.
FilesOK ==
  /\ idOf \in IdMaps /\ clock \in 1..MaxTime
  /\ LogOf(dzFile, DzRecord, clock) /\ InOrder(dzFile)
  /\ LogOf(pubFile, PubRecord, clock)

\* What each stage has left behind.
StageOK ==
  /\ stage \in {"capture", "load", "match", "report", "failed"}
  /\ stage = "capture" => now = 1
  /\ todo # <<>> => stage = "load"
  /\ hand # Idle => /\ hand.ch \in Channels
                    /\ todo # <<>> /\ Head(todo) # Garbage /\ Head(todo).ch = hand.ch
  /\ stage \notin {"match", "report"} => pubTrades = <<>> /\ matched = <<>> /\ next = 1

\* The frames still to replay are in order, none is stamped before now.
TodoOK(left, t) ==
  /\ left \in Seq(DzRecord \cup {Garbage})
  /\ \A k \in DOMAIN left :
       left[k] # Garbage => left[k] \in DzRecord /\ t <= left[k].at
  /\ \A k, l \in DOMAIN left :
       k < l /\ left[k] # Garbage /\ left[l] # Garbage => left[k].at <= left[l].at

RefOK ==
  /\ RegistryOK(registry, defined)
  /\ events \in Seq(Event)
  /\ \A k \in DOMAIN events : EventOK(events[k], hand.ch, registry)
  /\ LoadOK([axes |-> axes, loaded |-> dzTrades])

PubOK ==
  /\ pubTrades \in Seq(PubRecord)
  /\ \A i \in DOMAIN pubTrades : MarketOf[pubTrades[i].of] \in axes

Couple == [pub : Nat, dz : Nat, delta : Int]

\* The pairs so far, of the public trades before n: each is a couple, no trade is in two,
\* whoever is nearer was taken before, and whom one could have paired with was taken too.
CouplesFit(couples, n) ==
  \A r \in DOMAIN couples :
    /\ couples[r].pub < n /\ couples[r].pub \in DOMAIN pubTrades /\ couples[r].dz \in DOMAIN dzTrades
    /\ Pairable(couples[r].pub, couples[r].dz)

OneToOne(couples) ==
  \A r, q \in DOMAIN couples :
    r # q => couples[r].pub # couples[q].pub /\ couples[r].dz # couples[q].dz

NearestTaken(couples) ==
  \A r \in DOMAIN couples, j \in DOMAIN dzTrades :
    Pairable(couples[r].pub, j) /\ Nearer(couples[r].pub, j, couples[r].dz)
      => \E q \in 1..(r - 1) : couples[q].dz = j

NoneLeft(couples, n) ==
  \A i \in DOMAIN pubTrades, j \in DOMAIN dzTrades :
    i < n /\ Pairable(i, j) => \E r \in DOMAIN couples : couples[r].pub = i \/ couples[r].dz = j

PairsOK(couples, n) ==
  /\ couples \in Seq(Couple)
  /\ CouplesFit(couples, n) /\ OneToOne(couples) /\ NearestTaken(couples) /\ NoneLeft(couples, n)

ReportOK ==
  stage = "report" =>
    /\ next > Len(pubTrades)
    /\ report.n = Len(matched)
    /\ report.discarded.pub = Cardinality(KeyablePublic) - Cardinality(UsedPub)
    /\ report.discarded.dz = Len(dzTrades) - Cardinality(UsedDz)

MatchOK ==
  PubOK /\ next \in 1..(Len(pubTrades) + 1) /\ PairsOK(matched, next) /\ ReportOK

OfflineInv ==
  /\ ArmInv /\ FilesOK /\ StageOK /\ TodoOK(todo, now) /\ RefOK /\ MatchOK

-----------------------------------------------------------------------------
(* The public trades that have an axis. *)

OnTheAxes == {p \in PubRecord : MarketOf[p.of] \in axes}

KeepsBy(acc, s) ==
  /\ acc[0] = <<>>
  /\ \A n \in 1..Len(s) : acc[n] = AddOnAxis(acc[n - 1], s[n])
  /\ OnAxis(s) = acc[Len(s)]

\* The public loader's fold, record by record.
LEMMA KeepSteps ==
  ASSUME NEW s \in Seq(PubRecord)
  PROVE  \E acc \in [0..Len(s) -> Seq(OnTheAxes)] : KeepsBy(acc, s)
<1> DEFINE L == Len(s)
           T == Seq(OnTheAxes)
           st == [q \in T \X (1..L) |-> AddOnAxis(q[1], s[q[2]])]
           it == CHOOSE it : it = [u \in SUBSET (1..L) |->
                   IF u = {} THEN <<>> ELSE AddOnAxis(it[u \ {Max(u)}], s[Max(u)])]
           acc == [n \in 0..L |-> it[1..n]]
<1>1. OnAxis(s) = it[1..L]
  <2>1. DOMAIN s = 1..L
    OBVIOUS
  <2> QED BY <2>1, Zenon DEF OnAxis, FoldLeft, MapThenFoldSet
<1>2. L \in Nat /\ <<>> \in T /\ \A i \in 1..L : s[i] \in PubRecord
  OBVIOUS
<1> HIDE DEF L
<1>3. \A d \in T, i \in 1..L : AddOnAxis(d, s[i]) \in T
  BY <1>2 DEF AddOnAxis, OnTheAxes
<1> HIDE DEF T
<1>4. /\ st \in [T \X (1..L) -> T]
      /\ \A d \in T, i \in 1..L : st[<<d, i>>] = AddOnAxis(d, s[i])
  BY <1>3
<1> HIDE DEF st
<1>5. PICK sol \in [SUBSET (1..L) -> T] : FoldsTo(sol, L, <<>>, st)
  <2> HIDE DEF it, acc
  <2> QED BY <1>2, <1>4, FoldRuns
<1>6. sol = [u \in SUBSET (1..L) |-> IF u = {} THEN <<>> ELSE AddOnAxis(sol[u \ {Max(u)}], s[Max(u)])]
  <2>1. sol = [u \in SUBSET (1..L) |-> IF u = {} THEN <<>> ELSE st[<<sol[u \ {Max(u)}], Max(u)>>]]
    BY <1>5 DEF FoldsTo
  <2>2. ASSUME NEW u \in SUBSET (1..L), u # {}
        PROVE  st[<<sol[u \ {Max(u)}], Max(u)>>] = AddOnAxis(sol[u \ {Max(u)}], s[Max(u)])
    <3>1. Max(u) \in 1..L
      BY <1>2, <2>2, MaxOfPrefix
    <3>2. sol[u \ {Max(u)}] \in T
      OBVIOUS
    <3> QED BY <1>4, <3>1, <3>2
  <2> HIDE DEF it, acc
  <2> QED BY <2>1, <2>2
<1>7. it = [u \in SUBSET (1..L) |-> IF u = {} THEN <<>> ELSE AddOnAxis(it[u \ {Max(u)}], s[Max(u)])]
  BY <1>6
<1> HIDE DEF it
<1>8. acc[0] = <<>>
  <2>1. 1..0 = {} /\ {} \in SUBSET (1..L) /\ 0 \in 0..L
    BY <1>2
  <2>2. it[{}] = <<>>
    BY <1>7, <2>1
  <2> QED BY <2>1, <2>2
<1>9. ASSUME NEW n \in 1..L PROVE acc[n] = AddOnAxis(acc[n - 1], s[n]) /\ n - 1 \in 0..L
  <2>1. /\ 1..n # {} /\ Max(1..n) = n /\ (1..n) \ {Max(1..n)} = 1..(n - 1)
        /\ n \in 0..L /\ n - 1 \in 0..L /\ 1..n \in SUBSET (1..L)
    BY <1>2, PrefixFacts
  <2>2. it[1..n] = AddOnAxis(it[1..(n - 1)], s[n])
    BY <1>7, <2>1
  <2> QED BY <2>1, <2>2
<1>10. L \in 0..L /\ acc[L] = it[1..L]
  BY <1>2
<1>11. acc \in [0..L -> T]
  <2> DEFINE Good == {n \in 0..L : acc[n] \in T}
  <2>1. 0 \in Good
    BY <1>2, <1>8
  <2>2. ASSUME NEW n \in 0..(L - 1), n \in Good PROVE n + 1 \in Good
    <3>1. n + 1 \in 1..L /\ n + 1 \in 0..L /\ (n + 1) - 1 = n
      BY <1>2
    <3>2. acc[n + 1] = AddOnAxis(acc[n], s[n + 1]) /\ acc[n] \in T
      BY <1>9, <2>2, <3>1
    <3> QED BY <1>3, <3>1, <3>2
  <2>3. 0..L \subseteq Good
    <3> HIDE DEF Good
    <3> QED BY <1>2, <2>1, <2>2, InductTo
  <2>4. \A n \in 0..L : acc[n] \in T
    BY <2>3
  <2> QED BY <2>4
<1> HIDE DEF acc
<1> QED BY <1>1, <1>8, <1>9, <1>10, <1>11 DEF L, T, KeepsBy

\* Only trades that have an axis are kept.
LEMMA OnAxisFacts ==
  ASSUME NEW s \in Seq(PubRecord)
  PROVE  /\ OnAxis(s) \in Seq(PubRecord)
         /\ \A i \in DOMAIN OnAxis(s) : MarketOf[OnAxis(s)[i].of] \in axes
<1>1. PICK acc \in [0..Len(s) -> Seq(OnTheAxes)] : KeepsBy(acc, s)
  BY KeepSteps
<1>2. OnAxis(s) \in Seq(OnTheAxes)
  BY <1>1 DEF KeepsBy
<1> QED BY <1>2 DEF OnTheAxes

-----------------------------------------------------------------------------
(* What is written. *)

\* The elements of two sequences put together.
LEMMA Joined ==
  ASSUME NEW S, NEW a \in Seq(S), NEW b \in Seq(S)
  PROVE  /\ a \o b \in Seq(S) /\ DOMAIN (a \o b) = 1..(Len(a) + Len(b))
         /\ \A i \in 1..Len(a) : (a \o b)[i] = a[i]
         /\ \A i \in (Len(a) + 1)..(Len(a) + Len(b)) : (a \o b)[i] = b[i - Len(a)]
OBVIOUS

\* A record written now is of the log, and the last in its order.
LEMMA Appended ==
  ASSUME NEW R, NEW file, NEW t \in Nat, LogOf(file, R, t), NEW r \in R, NEW u \in Nat,
         t <= u, 1 <= u, r.at = u
  PROVE  LogOf(file \o Cells(r), R, u) /\ (InOrder(file) => InOrder(file \o Cells(r)))
<1> DEFINE new == file \o Cells(r)
           Cell == (1..3) \X (R \cup {Garbage})
<1>1. file \in Seq(Cell) /\ Len(file) \in Nat
  BY DEF LogOf
<1>2. /\ Cells(r) \in Seq(Cell) /\ Len(Cells(r)) = 3
      /\ \A i \in 1..3 : Cells(r)[i] = <<i, r>>
  BY DEF Cells
<1>3. /\ new \in Seq(Cell)
      /\ \A i \in DOMAIN new : \/ i \in DOMAIN file /\ new[i] = file[i]
                               \/ i > Len(file) /\ new[i][2] = r
      /\ \A i \in DOMAIN new : i \in Nat /\ (i \in DOMAIN file => i <= Len(file))
      /\ \A i \in DOMAIN new : i > Len(file) /\ new[i][1] = 3 => i = Len(file) + 3
  <2> HIDE DEF Cell
  <2>1. /\ new \in Seq(Cell) /\ DOMAIN new = 1..(Len(file) + 3)
        /\ \A i \in 1..Len(file) : new[i] = file[i]
        /\ \A i \in (Len(file) + 1)..(Len(file) + 3) : new[i] = Cells(r)[i - Len(file)]
    <3> DEFINE x == Cells(r)
    <3>1. x \in Seq(Cell) /\ Len(x) = 3
      BY <1>2
    <3> HIDE DEF x
    <3>2. /\ file \o x \in Seq(Cell) /\ DOMAIN (file \o x) = 1..(Len(file) + Len(x))
          /\ \A i \in 1..Len(file) : (file \o x)[i] = file[i]
          /\ \A i \in (Len(file) + 1)..(Len(file) + Len(x)) : (file \o x)[i] = x[i - Len(file)]
      BY <1>1, <3>1, Joined
    <3> QED BY <3>1, <3>2 DEF x
  <2> HIDE DEF new
  <2>2. \A i \in 1..Len(file) : new[i] = file[i]
    BY <2>1
  <2>3. \A i \in (Len(file) + 1)..(Len(file) + 3) : new[i] = <<i - Len(file), r>>
    <3>1. \A i \in (Len(file) + 1)..(Len(file) + 3) : i - Len(file) \in 1..3
      BY <1>1
    <3> QED BY <1>2, <2>1, <3>1
  <2>4. DOMAIN file = 1..Len(file)
    BY <1>1
  <2>5. \A i \in DOMAIN new : i \in 1..Len(file) \/ i \in (Len(file) + 1)..(Len(file) + 3)
    BY <1>1, <2>1
  <2>6. \A i \in (Len(file) + 1)..(Len(file) + 3) : new[i][1] = i - Len(file) /\ new[i][2] = r
    BY <2>3
  <2> QED BY <1>1, <2>1, <2>2, <2>4, <2>5, <2>6
<1> HIDE DEF new
<1>4. ASSUME NEW i \in DOMAIN new, new[i][1] = 3 PROVE new[i][2] \in R /\ new[i][2].at \in 1..u
  BY <1>3, <1>4 DEF LogOf
<1>5. LogOf(new, R, u)
  BY <1>3, <1>4 DEF LogOf
<1>6. ASSUME InOrder(file), NEW i \in DOMAIN new, NEW j \in DOMAIN new, i < j,
             new[i][1] = 3, new[j][1] = 3
      PROVE  new[i][2].at <= new[j][2].at
  <2>1. CASE j \in DOMAIN file
    <3>1. i \in DOMAIN file /\ new[i] = file[i] /\ new[j] = file[j]
      BY <1>1, <1>3, <1>6, <2>1
    <3> QED BY <1>6, <2>1, <3>1 DEF InOrder
  <2>2. CASE j \notin DOMAIN file
    <3>1. new[j][2] = r
      BY <1>3, <2>2
    <3>2. new[i][2].at \in 1..u
      BY <1>4, <1>6
    <3> QED BY <3>1, <3>2
  <2> QED BY <2>1, <2>2
<1> QED BY <1>5, <1>6 DEF InOrder, new

\* A crash leaves no payload.
LEMMA TornOff ==
  ASSUME NEW R, NEW file, NEW t \in Nat, LogOf(file, R, t), NEW x \in Torn
  PROVE  LogOf(file \o x, R, t) /\ (InOrder(file) => InOrder(file \o x))
<1> DEFINE new == file \o x
           Cell == (1..3) \X (R \cup {Garbage})
<1>1. file \in Seq(Cell) /\ Len(file) \in Nat
  BY DEF LogOf
<1>2. PICK n \in 0..2 : x = [part \in 1..n |-> <<part, Garbage>>]
  BY DEF Torn
<1>3. x \in Seq(Cell) /\ Len(x) = n /\ \A i \in 1..n : x[i] = <<i, Garbage>>
  BY <1>2
<1>4. /\ new \in Seq(Cell)
      /\ \A i \in DOMAIN new : new[i][1] = 3 => i \in DOMAIN file /\ new[i] = file[i]
  <2> HIDE DEF Cell
  <2>1. /\ new \in Seq(Cell) /\ DOMAIN new = 1..(Len(file) + n)
        /\ \A i \in 1..Len(file) : new[i] = file[i]
        /\ \A i \in (Len(file) + 1)..(Len(file) + n) : new[i] = x[i - Len(file)]
    BY <1>1, <1>3, Joined
  <2> HIDE DEF new
  <2>2. \A i \in 1..Len(file) : new[i] = file[i]
    BY <2>1
  <2>3. \A i \in (Len(file) + 1)..(Len(file) + n) : new[i] = <<i - Len(file), Garbage>>
    <3>1. \A i \in (Len(file) + 1)..(Len(file) + n) : i - Len(file) \in 1..n
      BY <1>1
    <3> QED BY <1>3, <2>1, <3>1
  <2>4. DOMAIN file = 1..Len(file)
    BY <1>1
  <2>5. \A i \in (Len(file) + 1)..(Len(file) + n) : new[i][1] = i - Len(file) /\ i - Len(file) # 3
    BY <1>1, <2>3
  <2>6. \A i \in DOMAIN new : i \in 1..Len(file) \/ i \in (Len(file) + 1)..(Len(file) + n)
    BY <1>1, <2>1
  <2> QED BY <2>1, <2>2, <2>4, <2>5, <2>6
<1> HIDE DEF new
<1>5. LogOf(new, R, t)
  BY <1>4 DEF LogOf
<1>6. InOrder(file) => InOrder(new)
  BY <1>4 DEF InOrder
<1> QED BY <1>5, <1>6 DEF new

-----------------------------------------------------------------------------
(* From what holds of the new values to what holds in the new state. *)

\* The records a log may hold depend on the ids in use alone.
LEMMA SameRecords ==
  ASSUME idOf' = idOf
  PROVE  DzRecord' = DzRecord
BY DEF DzRecord, Messages, Message

\* FilesOK of the next state, from facts about the new values.
LEMMA FilesThen ==
  ASSUME idOf' = idOf, idOf \in IdMaps, clock' \in 1..MaxTime,
         LogOf(dzFile', DzRecord, clock'), InOrder(dzFile'), LogOf(pubFile', PubRecord, clock')
  PROVE  FilesOK'
<1>1. DzRecord' = DzRecord
  BY SameRecords
<1>2. LogOf(dzFile, DzRecord, clock)'
  BY <1>1 DEF LogOf
<1>3. InOrder(dzFile)' /\ LogOf(pubFile, PubRecord, clock)'
  BY DEF InOrder, LogOf, PubRecord
<1> QED BY <1>2, <1>3 DEF FilesOK

\* The files are as they were when nothing of them changes.
LEMMA FilesStay ==
  ASSUME FilesOK, UNCHANGED captured
  PROVE  FilesOK'
<1>1. UNCHANGED <<idOf, clock, dzFile, pubFile>>
  BY DEF captured, files
<1> QED BY <1>1, FilesThen DEF FilesOK

\* The same for the frames still to replay,
LEMMA TodoThen ==
  ASSUME idOf' = idOf, TodoOK(todo', now')
  PROVE  TodoOK(todo, now)'
<1>1. DzRecord' = DzRecord
  BY SameRecords
<1> QED BY <1>1 DEF TodoOK

\* for the reference data,
LEMMA RefThen ==
  ASSUME idOf' = idOf, RegistryOK(registry', defined'), events' \in Seq(Event),
         \A k \in DOMAIN events' : EventOK(events'[k], hand'.ch, registry'),
         [axes |-> axes', loaded |-> dzTrades'] \in Loading,
         \A j \in DOMAIN dzTrades' : LoadedOK(dzTrades'[j], axes', registry'.conflicts)
  PROVE  RefOK'
<1>1. RegistryOK(registry, defined)'
  BY DEF RegistryOK
<1>2. LoadOK([axes |-> axes, loaded |-> dzTrades])'
  BY DEF LoadOK, LoadedOK
<1>3. (events \in Seq(Event))'
  OBVIOUS
<1>4. (\A k \in DOMAIN events : EventOK(events[k], hand.ch, registry))'
  BY DEF EventOK
<1> QED BY <1>1, <1>2, <1>3, <1>4 DEF RefOK

\* and where it is left alone;
LEMMA RefStays ==
  ASSUME RefOK, UNCHANGED <<idOf, registry, events, axes, dzTrades, defined>>,
         events # <<>> => hand'.ch = hand.ch
  PROVE  RefOK'
<1>1. \A k \in DOMAIN events' : EventOK(events'[k], hand'.ch, registry')
  BY DEF RefOK
<1>2. \A j \in DOMAIN dzTrades' : LoadedOK(dzTrades'[j], axes', registry'.conflicts)
  BY DEF RefOK, LoadOK
<1>3. [axes |-> axes', loaded |-> dzTrades'] \in Loading
  BY DEF RefOK, LoadOK
<1> QED BY <1>1, <1>2, <1>3, RefThen DEF RefOK

\* for the pairs,
LEMMA PairsThen ==
  ASSUME UNCHANGED <<dzTrades, pubTrades>>, PairsOK(matched', next')
  PROVE  PairsOK(matched, next)'
<1> USE DEF Pairable, SameKey, Distance, EventKey, Nearer
<1>1. CouplesFit(matched, next)' /\ OneToOne(matched)'
  BY DEF PairsOK, CouplesFit, OneToOne
<1>2. NearestTaken(matched)'
  BY DEF PairsOK, NearestTaken
<1>3. NoneLeft(matched, next)'
  BY DEF PairsOK, NoneLeft
<1>4. (matched \in Seq(Couple))'
  BY DEF PairsOK, Couple
<1> QED BY <1>1, <1>2, <1>3, <1>4 DEF PairsOK

\* where nothing is matched or reported,
LEMMA MatchStays ==
  ASSUME MatchOK, UNCHANGED <<stage, axes, dzTrades, result>>
  PROVE  MatchOK'
<1>1. UNCHANGED <<pubTrades, next, matched, report>>
  BY DEF result
<1>2. PubOK'
  BY <1>1 DEF MatchOK, PubOK
<1>3. PairsOK(matched, next)'
  BY <1>1, PairsThen DEF MatchOK
<1>4. ReportOK'
  BY <1>1 DEF MatchOK, ReportOK, KeyablePublic, UsedPub, UsedDz
<1> QED BY <1>1, <1>2, <1>3, <1>4 DEF MatchOK

\* and where a new run starts.
LEMMA NothingMatched ==
  ASSUME pubTrades' = <<>>, matched' = <<>>, next' = 1, stage' # "report"
  PROVE  MatchOK'
<1>1. PubOK'
  BY DEF PubOK
<1>2. PairsOK(matched, next)'
  BY DEF PairsOK, CouplesFit, OneToOne, NearestTaken, NoneLeft
<1> QED BY <1>1, <1>2 DEF MatchOK, ReportOK

-----------------------------------------------------------------------------
(* The steps. *)

\* A step that leaves the arbiter alone keeps its invariant.
LEMMA ArmStays ==
  ASSUME ArmInv, UNCHANGED armVars
  PROVE  ArmInv'
BY StepKeepsInv

\* An arbiter just built has its invariant.
LEMMA NewInv == ArmInit' => ArmInv'
BY InvInit, PTL

\* What CaptureDz writes is a record of the DoubleZero log.
LEMMA FrameIsRecord ==
  ASSUME NEW t \in Nat, NEW c \in Channels, NEW shape \in Shapes
  PROVE  [at |-> t, ch |-> c, msgs |-> [k \in DOMAIN shape |-> Message(c, shape[k])]] \in DzRecord
<1>1. shape \in Seq(Items)
  BY OfflineAssumption
<1>2. \A k \in DOMAIN shape : Message(c, shape[k]) \in Messages(c)
  BY <1>1 DEF Messages
<1>3. [k \in DOMAIN shape |-> Message(c, shape[k])] \in Seq(Messages(c))
  BY <1>1, <1>2
<1>4. [at |-> t, ch |-> c, msgs |-> [k \in DOMAIN shape |-> Message(c, shape[k])]]
        \in [at : Nat, ch : {c}, msgs : Seq(Messages(c))]
  BY <1>3
<1> QED BY <1>4 DEF DzRecord

\* A frame is captured at the clock's reading, behind all others.
LEMMA CaptureDzKeeps ==
  ASSUME OfflineInv, NEW t \in clock..(clock + MaxGap), NEW c \in Channels, NEW shape \in Shapes,
         CaptureDz(c, shape, t)
  PROVE  OfflineInv'
<1> DEFINE frame == [at |-> t, ch |-> c, msgs |-> [k \in DOMAIN shape |-> Message(c, shape[k])]]
<1>1. /\ stage = "capture" /\ t <= MaxTime /\ clock' = t /\ UNCHANGED <<idOf, stage, replay, result>>
      /\ dzFile' = dzFile \o Cells(frame) /\ pubFile' = pubFile
  BY DEF CaptureDz, WriteAt
<1>2. UNCHANGED <<armVars, todo, registry, events, axes, dzTrades, defined>>
  BY <1>1 DEF replay
<1>3. t \in Nat /\ clock \in Nat /\ 1 <= clock /\ clock <= t /\ t \in 1..MaxTime
  BY <1>1, BoundAssumption, OfflineAssumption DEF OfflineInv, FilesOK
<1>4. frame \in DzRecord /\ frame.at = t
  BY <1>3, FrameIsRecord
<1> HIDE DEF frame
<1>5. FilesOK'
  <2>1. LogOf(dzFile', DzRecord, clock') /\ InOrder(dzFile')
    BY <1>1, <1>3, <1>4, Appended DEF OfflineInv, FilesOK
  <2>2. LogOf(pubFile', PubRecord, clock')
    BY <1>1, <1>3 DEF OfflineInv, FilesOK, LogOf
  <2> QED BY <1>1, <1>3, <2>1, <2>2, FilesThen DEF OfflineInv, FilesOK
<1>6. ArmInv'
  BY <1>2, ArmStays DEF OfflineInv
<1>7. now' = now /\ hand' = hand
  BY <1>2 DEF armVars
<1>8. UNCHANGED <<pubTrades, matched, next>>
  BY <1>1 DEF result
<1>9. StageOK'
  BY <1>1, <1>2, <1>7, <1>8 DEF OfflineInv, StageOK
<1>10. TodoOK(todo, now)'
  BY <1>1, <1>2, <1>7, TodoThen DEF OfflineInv
<1>11. RefOK'
  BY <1>1, <1>2, <1>7, RefStays DEF OfflineInv
<1>12. MatchOK'
  BY <1>1, <1>2, MatchStays DEF OfflineInv
<1> QED BY <1>5, <1>6, <1>9, <1>10, <1>11, <1>12 DEF OfflineInv

\* So is a message of the public feed.
LEMMA CapturePublicKeeps ==
  ASSUME OfflineInv, NEW t \in clock..(clock + MaxGap), NEW i \in Prints, CapturePublic(i, t)
  PROVE  OfflineInv'
<1> DEFINE frame == [at |-> t, of |-> i]
<1>1. /\ stage = "capture" /\ t <= MaxTime /\ clock' = t /\ UNCHANGED <<idOf, stage, replay, result>>
      /\ pubFile' = pubFile \o Cells(frame) /\ dzFile' = dzFile
  BY DEF CapturePublic, WriteAt
<1>2. UNCHANGED <<armVars, todo, registry, events, axes, dzTrades, defined>>
  BY <1>1 DEF replay
<1>3. t \in Nat /\ clock \in Nat /\ 1 <= clock /\ clock <= t /\ t \in 1..MaxTime
  BY <1>1, BoundAssumption, OfflineAssumption DEF OfflineInv, FilesOK
<1>4. frame \in PubRecord /\ frame.at = t
  BY <1>3 DEF PubRecord
<1> HIDE DEF frame
<1>5. FilesOK'
  <2>1. LogOf(pubFile', PubRecord, clock')
    BY <1>1, <1>3, <1>4, Appended DEF OfflineInv, FilesOK
  <2>2. LogOf(dzFile', DzRecord, clock') /\ InOrder(dzFile')
    BY <1>1, <1>3 DEF OfflineInv, FilesOK, LogOf
  <2> QED BY <1>1, <1>3, <2>1, <2>2, FilesThen DEF OfflineInv, FilesOK
<1>6. ArmInv'
  BY <1>2, ArmStays DEF OfflineInv
<1>7. now' = now /\ hand' = hand
  BY <1>2 DEF armVars
<1>8. UNCHANGED <<pubTrades, matched, next>>
  BY <1>1 DEF result
<1>9. StageOK'
  BY <1>1, <1>2, <1>7, <1>8 DEF OfflineInv, StageOK
<1>10. TodoOK(todo, now)'
  BY <1>1, <1>2, <1>7, TodoThen DEF OfflineInv
<1>11. RefOK'
  BY <1>1, <1>2, <1>7, RefStays DEF OfflineInv
<1>12. MatchOK'
  BY <1>1, <1>2, MatchStays DEF OfflineInv
<1> QED BY <1>5, <1>6, <1>9, <1>10, <1>11, <1>12 DEF OfflineInv

\* What is to be replayed is what was read back, in its order.
LEMMA EndCaptureKeeps ==
  ASSUME OfflineInv, EndCapture
  PROVE  OfflineInv'
<1>1. /\ stage = "capture" /\ stage' = "load"
      /\ UNCHANGED <<captured, armVars, registry, events, axes, dzTrades, defined, result>>
  BY DEF EndCapture
<1>2. PICK g \in 0..MaxGarbage : todo' = ReadFrames(dzFile, g)
  BY DEF EndCapture
<1>3. idOf' = idOf /\ now' = now /\ hand' = hand /\ UNCHANGED <<pubTrades, matched, next>>
  BY <1>1 DEF captured, armVars, result
<1>4. now = 1 /\ hand = Idle /\ todo = <<>>
  BY <1>1 DEF OfflineInv, StageOK
<1>5. TodoOK(todo', now')
  <2>1. ReadBack(DzRecord, dzFile, todo')
    <3>1. g \in Nat
      BY OfflineAssumption
    <3>2. LogOf(dzFile, DzRecord, clock)
      BY DEF OfflineInv, FilesOK
    <3> QED BY <1>2, <3>1, <3>2, ReadKeeps
  <2>2. \A p \in DOMAIN dzFile : dzFile[p][1] = 3 => 1 <= dzFile[p][2].at
    BY DEF OfflineInv, FilesOK, LogOf
  <2>3. InOrder(dzFile)
    BY DEF OfflineInv, FilesOK
  <2> QED BY <1>3, <1>4, <2>1, <2>2, <2>3 DEF TodoOK, ReadBack
<1>6. StageOK'
  BY <1>1, <1>3, <1>4 DEF OfflineInv, StageOK
<1>7. MatchOK'
  BY <1>1, <1>3, NothingMatched DEF OfflineInv, StageOK
<1>8. RefOK'
  BY <1>1, <1>3, RefStays DEF OfflineInv
<1> QED BY <1>1, <1>3, <1>5, <1>6, <1>7, <1>8, ArmStays, FilesStay, TodoThen DEF OfflineInv

\* The rest of the frames is in order, and none is older than the first.
LEMMA TodoOfTail ==
  ASSUME NEW left, NEW t, TodoOK(left, t), left # <<>>
  PROVE  TodoOK(Tail(left), t)
<1>1. left \in Seq(DzRecord \cup {Garbage})
  BY DEF TodoOK
<1>2. /\ Tail(left) \in Seq(DzRecord \cup {Garbage})
      /\ \A k \in DOMAIN Tail(left) : k + 1 \in DOMAIN left /\ Tail(left)[k] = left[k + 1]
      /\ \A k, l \in DOMAIN Tail(left) : k < l => k + 1 < l + 1
  <2> DEFINE S == DzRecord \cup {Garbage}
  <2>1. left \in Seq(S)
    BY <1>1
  <2> HIDE DEF S
  <2>2. Tail(left) \in Seq(S) /\ DOMAIN Tail(left) = 1..(Len(left) - 1) /\ Len(left) \in Nat
    BY <2>1
  <2>3. \A k \in 1..(Len(left) - 1) : k + 1 \in DOMAIN left /\ Tail(left)[k] = left[k + 1]
    BY <2>1
  <2>4. \A k, l \in 1..(Len(left) - 1) : k < l => k + 1 < l + 1
    BY <2>2
  <2> QED BY <2>2, <2>3, <2>4 DEF S
<1> QED BY <1>2 DEF TodoOK

\* Garbage is passed over.
LEMMA SkipFrameKeeps ==
  ASSUME OfflineInv, SkipFrame
  PROVE  OfflineInv'
<1>1. /\ todo # <<>> /\ hand = Idle /\ Head(todo) = Garbage /\ todo' = Tail(todo)
      /\ UNCHANGED <<captured, stage, armVars, registry, events, axes, dzTrades, defined, result>>
  BY DEF SkipFrame
<1>2. idOf' = idOf /\ now' = now /\ hand' = hand /\ UNCHANGED <<pubTrades, matched, next>>
  BY <1>1 DEF captured, armVars, result
<1>3. TodoOK(todo', now')
  BY <1>1, <1>2, TodoOfTail DEF OfflineInv
<1>4. StageOK'
  BY <1>1, <1>2 DEF OfflineInv, StageOK
<1>5. MatchOK'
  BY <1>1, MatchStays DEF OfflineInv
<1>6. RefOK'
  BY <1>1, <1>2, RefStays DEF OfflineInv
<1> QED BY <1>1, <1>2, <1>3, <1>4, <1>5, <1>6, ArmStays, FilesStay, TodoThen DEF OfflineInv

\* The first frame to replay is a record no older than now, and none is older than it.
LEMMA FrontOfTodo ==
  ASSUME NEW left, NEW t, TodoOK(left, t), left # <<>>, Head(left) # Garbage
  PROVE  /\ Head(left) \in DzRecord /\ t <= Head(left).at /\ TodoOK(left, Head(left).at)
         /\ Head(left).at \in Nat /\ Head(left).ch \in Channels
         /\ Head(left).msgs \in Seq(Messages(Head(left).ch))
<1>1. 1 \in DOMAIN left /\ Head(left) = left[1] /\ \A k \in DOMAIN left : k \in Nat /\ 1 <= k
  <2> DEFINE S == DzRecord \cup {Garbage}
  <2>1. left \in Seq(S)
    BY DEF TodoOK
  <2> HIDE DEF S
  <2> QED BY <2>1
<1>2. left[1] \in DzRecord /\ t <= left[1].at
  BY <1>1 DEF TodoOK
<1>3. /\ left[1].at \in Nat /\ left[1].ch \in Channels
      /\ left[1].msgs \in Seq(Messages(left[1].ch))
  BY <1>2 DEF DzRecord
<1>4. \A k \in DOMAIN left : left[k] # Garbage => left[1].at <= left[k].at
  <2>1. \A k \in DOMAIN left : k = 1 \/ 1 < k
    BY <1>1
  <2> QED BY <1>1, <1>3, <2>1 DEF TodoOK
<1> QED BY <1>1, <1>2, <1>3, <1>4 DEF TodoOK

\* A frame moves the arbiter to its stamp and is decoded against the registry so far.
LEMMA ReplayFrameKeeps ==
  ASSUME OfflineInv, ReplayFrame
  PROVE  OfflineInv'
<1> DEFINE frame == Head(todo)
           decoded == Decode(registry, frame)
           batch == [k \in DOMAIN decoded.events |-> EventKey(decoded.events[k])]
           defs == {<<frame.ch, msg.id>> : msg \in {m \in ToSet(frame.msgs) : m.kind = "def"}}
<1>1. /\ todo # <<>> /\ hand = Idle /\ frame # Garbage
      /\ NoteFrame(frame.ch, batch, frame.at)
      /\ registry' = decoded.registry /\ events' = decoded.events
      /\ defined' = defined \cup defs
      /\ UNCHANGED <<captured, stage, todo, axes, dzTrades, result>>
  BY DEF ReplayFrame
<1>2. decoded = Decoded([registry |-> registry, events |-> <<>>], frame.msgs)
  BY DEF Decode, Decoded
<1>3. defs = DefsIn(frame.ch, frame.msgs, Len(frame.msgs)) /\ frame.msgs \in Seq(Messages(frame.ch))
      /\ frame \in DzRecord /\ now <= frame.at /\ TodoOK(todo, frame.at)
      /\ frame.at \in Nat /\ frame.ch \in Channels
  <2>1. /\ frame \in DzRecord /\ now <= frame.at /\ TodoOK(todo, frame.at)
        /\ frame.at \in Nat /\ frame.ch \in Channels
        /\ frame.msgs \in Seq(Messages(frame.ch))
    BY <1>1, FrontOfTodo DEF OfflineInv
  <2> HIDE DEF frame
  <2>2. DOMAIN frame.msgs = 1..Len(frame.msgs)
    BY <2>1
  <2>3. defs = DefsIn(frame.ch, frame.msgs, Len(frame.msgs))
    BY <2>2 DEF DefsIn, ToSet
  <2> QED BY <2>1, <2>3
<1> HIDE DEF frame, decoded, batch, defs
<1>4. idOf \in IdMaps /\ RegistryOK(registry, defined)
  BY DEF OfflineInv, FilesOK, RefOK
<1>5. /\ decoded \in Decoding
      /\ RegistryOK(decoded.registry, defined \cup defs)
      /\ decoded.registry.conflicts >= registry.conflicts
      /\ \A k \in DOMAIN decoded.events : EventOK(decoded.events[k], frame.ch, decoded.registry)
  BY <1>2, <1>3, <1>4, DecodeKeeps
<1>6. batch \in Seq(Keys)
  <2>1. decoded.events \in Seq(Event)
    BY <1>5 DEF Decoding
  <2>2. ASSUME NEW e \in Event PROVE EventKey(e) \in Keys
    <3>1. e.market \in Ids \cup Markets /\ PrintOf[e.of] \in {PrintOf[i] : i \in Prints}
      BY DEF Event, Names
    <3>2. EventKey(e) \in (Ids \cup Markets) \X {PrintOf[i] : i \in Prints}
      BY <3>1 DEF EventKey
    <3> QED BY <3>2, NamingAssumption
  <2>3. \A k \in DOMAIN decoded.events : decoded.events[k] \in Event
    BY <2>1
  <2>4. \A k \in DOMAIN decoded.events : EventKey(decoded.events[k]) \in Keys
    BY <2>2, <2>3
  <2>5. DOMAIN decoded.events = 1..Len(decoded.events) /\ Len(decoded.events) \in Nat
    BY <2>1
  <2> QED BY <2>4, <2>5 DEF batch
<1>7. ArmInv'
  BY <1>1, <1>3, <1>6, NoteFrameKeepsInv DEF OfflineInv
<1>8. now' = frame.at /\ hand' = [ch |-> frame.ch, todo |-> batch]
  BY <1>1 DEF NoteFrame
<1>9. idOf' = idOf /\ UNCHANGED <<pubTrades, matched, next>>
  BY <1>1 DEF captured, result
<1>10. TodoOK(todo', now')
  BY <1>1, <1>3, <1>8
<1>11. StageOK'
  <2>1. stage = "load"
    BY <1>1 DEF OfflineInv, StageOK
  <2>2. hand'.ch = frame.ch /\ frame = Head(todo')
    BY <1>1, <1>8 DEF frame
  <2> QED BY <1>1, <1>3, <1>9, <2>1, <2>2 DEF OfflineInv, StageOK
<1>12. MatchOK'
  BY <1>1, MatchStays DEF OfflineInv
<1>13. RefOK'
  <2>1. events' \in Seq(Event) /\ RegistryOK(registry', defined')
    BY <1>1, <1>5 DEF Decoding
  <2>2. \A k \in DOMAIN events' : EventOK(events'[k], hand'.ch, registry')
    BY <1>1, <1>5, <1>8
  <2>3. [axes |-> axes', loaded |-> dzTrades'] \in Loading
    BY <1>1 DEF OfflineInv, RefOK, LoadOK
  <2>4. registry'.conflicts = 0 => registry.conflicts = 0
    <3>1. registry.conflicts \in Nat /\ decoded.registry.conflicts \in Nat
      BY <1>4, <1>5 DEF Decoding, RegistryOK, Registry
    <3> QED BY <1>1, <1>5, <3>1
  <2>5. \A j \in DOMAIN dzTrades' : LoadedOK(dzTrades'[j], axes', registry'.conflicts)
    BY <1>1, <2>4 DEF OfflineInv, RefOK, LoadOK, LoadedOK
  <2> QED BY <1>9, <2>1, <2>2, <2>3, <2>5, RefThen
<1> QED BY <1>1, <1>7, <1>9, <1>10, <1>11, <1>12, <1>13, FilesStay, TodoThen DEF OfflineInv

\* A trade of the frame goes to the arbiter.
LEMMA ReplayTradeKeeps ==
  ASSUME OfflineInv, ReplayTrade
  PROVE  OfflineInv'
<1>1. /\ ObserveTrade
      /\ UNCHANGED <<captured, stage, todo, registry, events, axes, dzTrades, defined, result>>
  BY DEF ReplayTrade
<1>2. idOf' = idOf /\ now' = now /\ hand'.ch = hand.ch /\ hand # Idle
      /\ UNCHANGED <<pubTrades, matched, next>>
  BY <1>1 DEF captured, result, ObserveTrade, OfflineInv, ArmInv, ArmTypeOK, Idle
<1>3. ArmInv'
  BY <1>1, ObserveKeepsInv DEF OfflineInv
<1>4. StageOK'
  BY <1>1, <1>2 DEF OfflineInv, StageOK
<1>5. TodoOK(todo', now')
  BY <1>1, <1>2 DEF OfflineInv
<1>6. RefOK'
  BY <1>1, <1>2, RefStays DEF OfflineInv
<1>7. MatchOK'
  BY <1>1, MatchStays DEF OfflineInv
<1> QED BY <1>1, <1>2, <1>3, <1>4, <1>5, <1>6, <1>7, FilesStay, TodoThen DEF OfflineInv

\* The trades of an accepted frame are put on their axes, and the frame is done.
LEMMA ReplayVerdictKeeps ==
  ASSUME OfflineInv, ReplayVerdict
  PROVE  OfflineInv'
<1> DEFINE load == Loads([axes |-> axes, loaded |-> dzTrades], events)
<1>1. /\ todo # <<>> /\ Accepts /\ todo' = Tail(todo) /\ events' = <<>>
      /\ UNCHANGED <<captured, stage, registry, defined, result>>
      /\ \/ axes' = load.axes /\ dzTrades' = load.loaded
         \/ UNCHANGED <<axes, dzTrades>>
  <2>1. LoadEvents => axes' = load.axes /\ dzTrades' = load.loaded
    BY Zenon DEF LoadEvents, Loads
  <2> HIDE DEF load
  <2> QED BY <2>1 DEF ReplayVerdict
<1> HIDE DEF load
<1>2. idOf' = idOf /\ now' = now /\ hand' = Idle /\ hand.ch \in Channels /\ stage = "load"
      /\ UNCHANGED <<pubTrades, matched, next>>
  BY <1>1 DEF captured, result, Accepts, OfflineInv, ArmInv, ArmTypeOK, Arms, StageOK
<1>3. ArmInv'
  BY <1>1, AcceptsKeepsInv DEF OfflineInv
<1>4. TodoOK(todo', now')
  BY <1>1, <1>2, TodoOfTail DEF OfflineInv
<1>5. StageOK'
  BY <1>1, <1>2 DEF OfflineInv, StageOK
<1>6. MatchOK'
  BY <1>1, <1>2, NothingMatched DEF OfflineInv, StageOK
<1>7. LoadOK(load)
  <2>1. LoadContext
    BY <1>2 DEF OfflineInv, ArmInv, ArmTypeOK, FilesOK, RefOK, LoadContext
  <2> QED BY <2>1, LoadKeeps DEF load, OfflineInv, RefOK
<1>8. RefOK'
  <2>1. load = [axes |-> load.axes, loaded |-> load.loaded]
    BY <1>7 DEF LoadOK, Loading
  <2>2. [axes |-> axes', loaded |-> dzTrades'] \in Loading
    BY <1>1, <1>7, <2>1 DEF OfflineInv, RefOK, LoadOK
  <2>3. \A j \in DOMAIN dzTrades' : LoadedOK(dzTrades'[j], axes', registry'.conflicts)
    BY <1>1, <1>7 DEF OfflineInv, RefOK, LoadOK
  <2>4. RegistryOK(registry', defined') /\ events' \in Seq(Event) /\ DOMAIN events' = {}
    BY <1>1 DEF OfflineInv, RefOK
  <2> QED BY <1>2, <2>2, <2>3, <2>4, RefThen
<1> QED BY <1>1, <1>2, <1>3, <1>4, <1>5, <1>6, <1>8, FilesStay, TodoThen DEF OfflineInv

\* The public trades kept have an axis, or the run fails.
LEMMA LoadPublicKeeps ==
  ASSUME OfflineInv, LoadPublic
  PROVE  OfflineInv'
<1>1. /\ stage = "load" /\ todo = <<>> /\ hand = Idle
      /\ UNCHANGED <<captured, replay, next, matched, report>>
  BY DEF LoadPublic
<1>2. PICK g \in 0..MaxGarbage :
        \/ stage' = "failed" /\ UNCHANGED pubTrades
        \/ /\ ~Undecodable(ReadFrames(pubFile, g)) /\ stage' = "match"
           /\ pubTrades' = OnAxis(ReadFrames(pubFile, g))
  BY DEF LoadPublic
<1>3. UNCHANGED <<idOf, armVars, todo, registry, events, axes, dzTrades, defined>>
      /\ now' = now /\ hand' = hand
  BY <1>1 DEF captured, replay, armVars
<1>4. pubTrades = <<>> /\ matched = <<>> /\ next = 1
  BY <1>1 DEF OfflineInv, StageOK
<1>5. /\ ArmInv' /\ FilesOK' /\ TodoOK(todo, now)' /\ RefOK'
  <2>1. TodoOK(todo', now')
    BY <1>3 DEF OfflineInv
  <2> QED BY <1>1, <1>3, <2>1, ArmStays, FilesStay, TodoThen, RefStays DEF OfflineInv
<1>6. CASE stage' = "failed" /\ UNCHANGED pubTrades
  <2>1. StageOK'
    BY <1>1, <1>3, <1>4, <1>6 DEF OfflineInv, StageOK
  <2>2. MatchOK'
    BY <1>1, <1>4, <1>6, NothingMatched
  <2> QED BY <1>5, <2>1, <2>2 DEF OfflineInv
<1>7. CASE /\ ~Undecodable(ReadFrames(pubFile, g)) /\ stage' = "match"
           /\ pubTrades' = OnAxis(ReadFrames(pubFile, g))
  <2> DEFINE got == ReadFrames(pubFile, g)
  <2>1. ReadBack(PubRecord, pubFile, got)
    <3>1. g \in Nat /\ LogOf(pubFile, PubRecord, clock)
      BY OfflineAssumption DEF OfflineInv, FilesOK
    <3> QED BY <3>1, ReadKeeps
  <2> HIDE DEF got
  <2>2. got \in Seq(PubRecord)
    <3>1. got \in Seq(PubRecord \cup {Garbage}) /\ \A k \in DOMAIN got : got[k] # Garbage
      BY <1>7, <2>1 DEF ReadBack, Undecodable, ToSet, got
    <3>2. \A k \in DOMAIN got : got[k] \in PubRecord
      BY <2>1, <3>1 DEF ReadBack
    <3>3. DOMAIN got = 1..Len(got) /\ Len(got) \in Nat
      BY <3>1
    <3>4. got = [k \in 1..Len(got) |-> got[k]]
      BY <3>1
    <3> QED BY <3>2, <3>3, <3>4
  <2>3. pubTrades' \in Seq(PubRecord) /\ \A i \in DOMAIN pubTrades' : MarketOf[pubTrades'[i].of] \in axes
    BY <1>7, <2>2, OnAxisFacts DEF got
  <2>4. PubOK'
    BY <1>3, <2>3 DEF PubOK, PubRecord
  <2>5. (next \in 1..(Len(pubTrades) + 1))'
    <3>1. Len(pubTrades') \in Nat /\ next' = 1
      BY <1>1, <1>4, <2>3
    <3> QED BY <3>1
  <2>6. matched' = <<>> /\ next' = 1
    BY <1>1, <1>4
  <2>7. PairsOK(matched, next)'
    <3>1. \A i \in DOMAIN pubTrades' : ~(i < next')
      <4> HIDE DEF got
      <4> QED BY <2>3, <2>6
    <3> QED BY <2>6, <3>1 DEF PairsOK, CouplesFit, OneToOne, NearestTaken, NoneLeft
  <2>8. StageOK'
    BY <1>1, <1>3, <1>7 DEF OfflineInv, StageOK
  <2>9. MatchOK'
    BY <1>7, <2>4, <2>5, <2>7 DEF MatchOK, ReportOK
  <2> QED BY <1>5, <2>8, <2>9 DEF OfflineInv
<1> QED BY <1>2, <1>6, <1>7

\* The stamps of both sides are numbers.
LEMMA Stamps ==
  ASSUME pubTrades \in Seq(PubRecord), dzTrades \in Seq(DzTrade)
  PROVE  /\ \A i \in DOMAIN pubTrades : pubTrades[i].at \in Nat
         /\ \A j \in DOMAIN dzTrades : dzTrades[j].at \in Nat
<1>1. \A i \in DOMAIN pubTrades : pubTrades[i] \in PubRecord
  OBVIOUS
<1>2. \A j \in DOMAIN dzTrades : dzTrades[j] \in DzTrade
  OBVIOUS
<1>3. \A x \in DzTrade : x.at \in Nat
  BY Zenon DEF DzTrade
<1>4. \A x \in PubRecord : x.at \in Nat
  BY DEF PubRecord
<1> QED BY <1>1, <1>2, <1>3, <1>4

\* A distance is a number, so that of two candidates at most one is nearer.
LEMMA NearerFacts ==
  ASSUME pubTrades \in Seq(PubRecord), dzTrades \in Seq(DzTrade),
         NEW i \in DOMAIN pubTrades, NEW j \in DOMAIN dzTrades, NEW k \in DOMAIN dzTrades,
         Nearer(i, j, k)
  PROVE  ~Nearer(i, k, j) /\ j # k
<1>1. Distance(i, j) \in Int /\ Distance(i, k) \in Int
  BY Stamps DEF Distance
<1>2. j \in Int /\ k \in Int
  OBVIOUS
<1> QED BY <1>1, <1>2 DEF Nearer

\* A public trade with no candidate leaves the pairs sound.
LEMMA NotPaired ==
  ASSUME PairsOK(matched, next), next \in Nat, pubTrades \in Seq(PubRecord),
         \A j \in DOMAIN dzTrades : Pairable(next, j) => j \in UsedDz
  PROVE  PairsOK(matched, next + 1)
<1>1. \A i \in DOMAIN pubTrades : i < next + 1 => i < next \/ i = next
  OBVIOUS
<1>2. CouplesFit(matched, next + 1)
  <2>1. \A r \in DOMAIN matched : matched[r].pub < next => matched[r].pub < next + 1
    <3>1. \A r \in DOMAIN matched : matched[r] \in Couple
      BY DEF PairsOK
    <3>2. \A x \in Couple : x.pub \in Nat
      BY DEF Couple
    <3>3. \A r \in DOMAIN matched : matched[r].pub \in Nat
      BY <3>1, <3>2
    <3> QED BY <3>3
  <2> QED BY <2>1 DEF PairsOK, CouplesFit
<1>3. NoneLeft(matched, next + 1)
  BY <1>1 DEF PairsOK, NoneLeft, UsedDz
<1> QED BY <1>2, <1>3 DEF PairsOK

\* A public trade paired with the nearest free candidate does too.
LEMMA Paired ==
  ASSUME PairsOK(matched, next), pubTrades \in Seq(PubRecord), dzTrades \in Seq(DzTrade),
         next \in DOMAIN pubTrades, NEW j \in DOMAIN dzTrades, Free(j), Pairable(next, j),
         \A k \in DOMAIN dzTrades : k # j /\ Free(k) /\ Pairable(next, k) => Nearer(next, j, k),
         NEW d \in Int
  PROVE  PairsOK(Append(matched, [pub |-> next, dz |-> j, delta |-> d]), next + 1)
<1> DEFINE couple == [pub |-> next, dz |-> j, delta |-> d]
           new == Append(matched, couple)
           n == Len(matched) + 1
<1>1. /\ matched \in Seq(Couple) /\ next \in Nat /\ j \in Nat
      /\ \A i \in DOMAIN pubTrades : i \in Nat
  BY DEF PairsOK
<1>2. couple \in Couple /\ couple.pub = next /\ couple.dz = j
  BY <1>1 DEF Couple
<1> HIDE DEF couple
<1>3. /\ new \in Seq(Couple) /\ DOMAIN new = (DOMAIN matched) \cup {n} /\ n \notin DOMAIN matched
      /\ DOMAIN matched = 1..(n - 1) /\ n \in Nat
      /\ new[n] = couple /\ \A r \in DOMAIN matched : new[r] = matched[r]
  BY <1>1, <1>2
<1> HIDE DEF new, n
<1>4. ASSUME NEW r \in DOMAIN new
      PROVE  /\ new[r].pub < next + 1 /\ new[r].pub \in DOMAIN pubTrades /\ new[r].dz \in DOMAIN dzTrades
             /\ Pairable(new[r].pub, new[r].dz)
  <2>1. CASE r = n
    BY <1>1, <1>2, <1>3, <2>1
  <2>2. CASE r \in DOMAIN matched
    <3>1. /\ matched[r].pub < next /\ matched[r].pub \in DOMAIN pubTrades /\ matched[r].dz \in DOMAIN dzTrades
          /\ Pairable(matched[r].pub, matched[r].dz)
      BY <2>2 DEF PairsOK, CouplesFit
    <3>2. matched[r].pub < next + 1
      BY <1>1, <3>1
    <3> QED BY <1>3, <2>2, <3>1, <3>2
  <2> QED BY <1>3, <2>1, <2>2
<1>5. \A r \in DOMAIN matched : matched[r].pub # next /\ matched[r].dz # j
  <2>1. \A r \in DOMAIN matched : matched[r].pub < next
    BY DEF PairsOK, CouplesFit
  <2> QED BY <1>1, <2>1 DEF Free, UsedDz
<1>6. ASSUME NEW r \in DOMAIN new, NEW q \in DOMAIN new, r # q
      PROVE  new[r].pub # new[q].pub /\ new[r].dz # new[q].dz
  <2>1. \A a, b \in DOMAIN matched : a # b => matched[a].pub # matched[b].pub /\ matched[a].dz # matched[b].dz
    BY DEF PairsOK, OneToOne
  <2> QED BY <1>2, <1>3, <1>5, <1>6, <2>1
<1>7. ASSUME NEW r \in DOMAIN new, NEW k \in DOMAIN dzTrades,
             Pairable(new[r].pub, k), Nearer(new[r].pub, k, new[r].dz)
      PROVE  \E q \in 1..(r - 1) : new[q].dz = k
  <2>1. CASE r = n
    <3>1. Pairable(next, k) /\ Nearer(next, k, j)
      BY <1>2, <1>3, <1>7, <2>1
    <3>2. ~Nearer(next, j, k) /\ k # j
      BY <3>1, NearerFacts
    <3>3. k \in UsedDz
      BY <3>1, <3>2 DEF Free
    <3>4. PICK q \in DOMAIN matched : matched[q].dz = k
      BY <3>3 DEF UsedDz
    <3> QED BY <1>3, <2>1, <3>4
  <2>2. CASE r \in DOMAIN matched
    <3>1. PICK q \in 1..(r - 1) : matched[q].dz = k
      BY <1>3, <1>7, <2>2 DEF PairsOK, NearestTaken
    <3>2. q \in DOMAIN matched
      BY <1>3, <2>2
    <3> QED BY <1>3, <3>1, <3>2
  <2> QED BY <1>3, <2>1, <2>2
<1>8. ASSUME NEW i \in DOMAIN pubTrades, NEW k \in DOMAIN dzTrades, i < next + 1, Pairable(i, k)
      PROVE  \E r \in DOMAIN new : new[r].pub = i \/ new[r].dz = k
  <2>1. CASE i = next
    BY <1>2, <1>3, <2>1
  <2>2. CASE i # next
    <3>1. i < next
      BY <1>1, <1>8, <2>2
    <3>2. PICK r \in DOMAIN matched : matched[r].pub = i \/ matched[r].dz = k
      BY <1>8, <3>1 DEF PairsOK, NoneLeft
    <3> QED BY <1>3, <3>2
  <2> QED BY <2>1, <2>2
<1>9. CouplesFit(new, next + 1)
  BY <1>4 DEF CouplesFit
<1>10. OneToOne(new)
  BY <1>6 DEF OneToOne
<1>11. NearestTaken(new)
  BY <1>7 DEF NearestTaken
<1>12. NoneLeft(new, next + 1)
  BY <1>8 DEF NoneLeft
<1>13. PairsOK(new, next + 1)
  BY <1>3, <1>9, <1>10, <1>11, <1>12 DEF PairsOK
<1> QED BY <1>13 DEF new, couple

\* One turn of match_trades.
LEMMA MatchOneKeeps ==
  ASSUME OfflineInv, MatchOne
  PROVE  OfflineInv'
<1>1. /\ stage = "match" /\ next <= Len(pubTrades) /\ next' = next + 1
      /\ UNCHANGED <<captured, stage, replay, pubTrades, report>>
  BY DEF MatchOne
<1>2. UNCHANGED <<idOf, armVars, todo, registry, events, axes, dzTrades, defined>>
      /\ now' = now /\ hand' = hand
  BY <1>1 DEF captured, replay, armVars
<1>3. /\ ArmInv' /\ FilesOK' /\ TodoOK(todo, now)' /\ RefOK'
  <2>1. TodoOK(todo', now')
    BY <1>2 DEF OfflineInv
  <2> QED BY <1>1, <1>2, <2>1, ArmStays, FilesStay, TodoThen, RefStays DEF OfflineInv
<1>4. /\ pubTrades \in Seq(PubRecord) /\ dzTrades \in Seq(DzTrade) /\ PairsOK(matched, next)
      /\ Len(pubTrades) \in Nat /\ next \in Nat /\ next \in DOMAIN pubTrades
      /\ next + 1 \in 1..(Len(pubTrades) + 1)
  <2>1. pubTrades \in Seq(PubRecord) /\ dzTrades \in Seq(DzTrade) /\ PairsOK(matched, next)
        /\ next \in 1..(Len(pubTrades) + 1)
    BY DEF OfflineInv, MatchOK, PubOK, RefOK, LoadOK, Loading
  <2> QED BY <1>1, <2>1
<1>5. PairsOK(matched', next + 1)
  <2>1. CASE {j \in DOMAIN dzTrades : Free(j) /\ Pairable(next, j)} = {} /\ UNCHANGED matched
    <3>1. \A j \in DOMAIN dzTrades : Pairable(next, j) => j \in UsedDz
      BY <2>1 DEF Free
    <3> QED BY <1>4, <2>1, <3>1, NotPaired
  <2>2. ASSUME NEW j \in DOMAIN dzTrades, Free(j), Pairable(next, j),
               \A k \in {l \in DOMAIN dzTrades : Free(l) /\ Pairable(next, l)} \ {j} : Nearer(next, j, k),
               matched' = Append(matched, [pub |-> next, dz |-> j,
                                           delta |-> dzTrades[j].at - pubTrades[next].at])
        PROVE  PairsOK(matched', next + 1)
    <3>1. \A k \in DOMAIN dzTrades : k # j /\ Free(k) /\ Pairable(next, k) => Nearer(next, j, k)
      BY <2>2
    <3>2. dzTrades[j].at - pubTrades[next].at \in Int
      BY <1>4, Stamps
    <3> QED BY <1>4, <2>2, <3>1, <3>2, Paired
  <2> QED BY <2>1, <2>2 DEF MatchOne
<1>6. PairsOK(matched, next)'
  BY <1>1, <1>2, <1>5, PairsThen
<1>7. MatchOK'
  <2>1. PubOK'
    BY <1>1, <1>2 DEF OfflineInv, MatchOK, PubOK, PubRecord
  <2>2. (next \in 1..(Len(pubTrades) + 1))'
    BY <1>1, <1>4
  <2> QED BY <1>1, <1>6, <2>1, <2>2 DEF MatchOK, ReportOK
<1>8. StageOK'
  BY <1>1, <1>2 DEF OfflineInv, StageOK
<1> QED BY <1>3, <1>7, <1>8 DEF OfflineInv

\* The report counts what was paired and what was not.
LEMMA ReportKeeps ==
  ASSUME OfflineInv, Report
  PROVE  OfflineInv'
<1>1. /\ stage = "match" /\ stage' = "report" /\ next > Len(pubTrades)
      /\ UNCHANGED <<captured, replay, pubTrades, next, matched>>
      /\ report'.n = Len(matched)
      /\ report'.discarded.pub = Cardinality(KeyablePublic) - Cardinality(UsedPub)
      /\ report'.discarded.dz = Len(dzTrades) - Cardinality(UsedDz)
  BY DEF Report
<1>2. UNCHANGED <<idOf, armVars, todo, registry, events, axes, dzTrades, defined>>
      /\ now' = now /\ hand' = hand
  BY <1>1 DEF captured, replay, armVars
<1>3. /\ ArmInv' /\ FilesOK' /\ TodoOK(todo, now)' /\ RefOK'
  <2>1. TodoOK(todo', now')
    BY <1>2 DEF OfflineInv
  <2> QED BY <1>1, <1>2, <2>1, ArmStays, FilesStay, TodoThen, RefStays DEF OfflineInv
<1>4. PairsOK(matched, next)'
  BY <1>1, <1>2, PairsThen DEF OfflineInv, MatchOK
<1>5. ReportOK'
  BY <1>1, <1>2 DEF ReportOK, KeyablePublic, UsedPub, UsedDz
<1>6. PubOK'
  BY <1>1, <1>2 DEF OfflineInv, MatchOK, PubOK, PubRecord
<1>7. MatchOK'
  BY <1>1, <1>4, <1>5, <1>6 DEF MatchOK, OfflineInv
<1>8. StageOK'
  BY <1>1, <1>2 DEF OfflineInv, StageOK
<1> QED BY <1>3, <1>7, <1>8 DEF OfflineInv

\* A new process starts from nothing but the files.
LEMMA StartAgainKeeps ==
  ASSUME OfflineInv, StartAgain, FilesOK'
  PROVE  OfflineInv'
<1>1. /\ stage' = "capture" /\ NewArbiter /\ idOf' = idOf
      /\ todo' = <<>> /\ registry' = EmptyRegistry /\ events' = <<>> /\ axes' = {}
      /\ dzTrades' = <<>> /\ pubTrades' = <<>> /\ next' = 1 /\ matched' = <<>>
      /\ defined' = {}
  BY DEF StartAgain
<1>2. ArmInv' /\ now' = 1 /\ hand' = Idle
  BY <1>1, NewInv DEF NewArbiter, ArmInit
<1>3. StageOK'
  BY <1>1, <1>2 DEF StageOK
<1>4. TodoOK(todo, now)'
  BY <1>1, TodoThen DEF TodoOK
<1>5. MatchOK'
  BY <1>1, NothingMatched
<1>6. RefOK'
  <2>1. RegistryOK(registry', defined')
    BY <1>1 DEF RegistryOK, Registry, EmptyRegistry
  <2>2. [axes |-> axes', loaded |-> dzTrades'] \in Loading
    BY <1>1 DEF Loading
  <2> QED BY <1>1, <2>1, <2>2, RefThen
<1> QED BY <1>2, <1>3, <1>4, <1>5, <1>6 DEF OfflineInv

\* A crash leaves cut records, which are no payloads.
LEMMA CrashKeeps ==
  ASSUME OfflineInv, CrashInCapture
  PROVE  OfflineInv'
<1>1. PICK x \in Torn, y \in Torn : dzFile' = dzFile \o x /\ pubFile' = pubFile \o y
  BY DEF CrashInCapture
<1>2. StartAgain /\ idOf' = idOf /\ clock' = clock
  BY DEF CrashInCapture, StartAgain
<1>3. FilesOK'
  <2>1. clock \in Nat
    BY DEF OfflineInv, FilesOK
  <2>2. LogOf(dzFile', DzRecord, clock) /\ InOrder(dzFile') /\ LogOf(pubFile', PubRecord, clock)
    BY <1>1, <2>1, TornOff DEF OfflineInv, FilesOK
  <2> QED BY <1>2, <2>2, FilesThen DEF OfflineInv, FilesOK
<1> QED BY <1>2, <1>3, StartAgainKeeps

\* A run after a report leaves the files.
LEMMA RunAgainKeeps ==
  ASSUME OfflineInv, RunAgain
  PROVE  OfflineInv'
<1>1. StartAgain /\ UNCHANGED captured
  BY DEF RunAgain, StartAgain, captured
<1> QED BY <1>1, FilesStay, StartAgainKeeps DEF OfflineInv

\* The first run starts from empty files.
LEMMA OfflineStart == OfflineInit => OfflineInv
<1> SUFFICES ASSUME OfflineInit PROVE OfflineInv
  OBVIOUS
<1>1. ArmInv /\ now = 1 /\ hand = Idle
  BY InvInit DEF OfflineInit, ArmInit
<1>2. FilesOK
  BY OfflineAssumption DEF OfflineInit, FilesOK, LogOf, InOrder
<1>3. StageOK /\ TodoOK(todo, now)
  BY <1>1 DEF OfflineInit, StageOK, TodoOK
<1>4. RefOK
  <2>1. RegistryOK(registry, defined)
    BY DEF OfflineInit, RegistryOK, Registry, EmptyRegistry
  <2>2. [axes |-> axes, loaded |-> dzTrades] \in Loading
    BY DEF OfflineInit, Loading
  <2> QED BY <2>1, <2>2 DEF OfflineInit, RefOK, LoadOK
<1>5. MatchOK
  BY DEF OfflineInit, MatchOK, PubOK, PairsOK, CouplesFit, OneToOne, NearestTaken, NoneLeft, ReportOK
<1> QED BY <1>1, <1>2, <1>3, <1>4, <1>5 DEF OfflineInv

\* Every step of a run, a crash and a rerun keep the invariant.
LEMMA OfflineStep == OfflineInv /\ [OfflineNext]_offlineVars => OfflineInv'
<1> SUFFICES ASSUME OfflineInv, [OfflineNext]_offlineVars PROVE OfflineInv'
  OBVIOUS
<1>1. CASE \E t \in clock..(clock + MaxGap) :
             \/ \E c \in Channels, shape \in Shapes : CaptureDz(c, shape, t)
             \/ \E i \in Prints : CapturePublic(i, t)
  BY <1>1, CaptureDzKeeps, CapturePublicKeeps
<1>2. CASE EndCapture
  BY <1>2, EndCaptureKeeps
<1>3. CASE SkipFrame
  BY <1>3, SkipFrameKeeps
<1>4. CASE ReplayFrame
  BY <1>4, ReplayFrameKeeps
<1>5. CASE ReplayTrade
  BY <1>5, ReplayTradeKeeps
<1>6. CASE ReplayVerdict
  BY <1>6, ReplayVerdictKeeps
<1>7. CASE LoadPublic
  BY <1>7, LoadPublicKeeps
<1>8. CASE MatchOne
  BY <1>8, MatchOneKeeps
<1>9. CASE Report
  BY <1>9, ReportKeeps
<1>10. CASE CrashInCapture
  BY <1>10, CrashKeeps
<1>11. CASE RunAgain
  BY <1>11, RunAgainKeeps
<1>12. CASE UNCHANGED offlineVars
  <2>1. UNCHANGED <<captured, stage, replay, result>>
    BY <1>12 DEF offlineVars
  <2>2. UNCHANGED <<idOf, armVars, todo, registry, events, axes, dzTrades, defined>>
        /\ now' = now /\ hand' = hand /\ UNCHANGED <<pubTrades, matched, next>>
    BY <2>1 DEF captured, replay, armVars, result
  <2>3. TodoOK(todo', now')
    BY <2>2 DEF OfflineInv
  <2>4. StageOK'
    BY <2>1, <2>2 DEF OfflineInv, StageOK
  <2> QED BY <2>1, <2>2, <2>3, <2>4, ArmStays, FilesStay, TodoThen, RefStays, MatchStays DEF OfflineInv
<1> QED BY <1>1, <1>2, <1>3, <1>4, <1>5, <1>6, <1>7, <1>8, <1>9, <1>10, <1>11, <1>12 DEF OfflineNext

\* The files, the reference data, the trades and the pairs stay consistent in every run.
THEOREM OfflineInvariant == OfflineSpec => []OfflineInv
BY OfflineStart, OfflineStep, PTL DEF OfflineSpec

-----------------------------------------------------------------------------
(* The properties. *)

\* Every value the race computes with is of its type, whatever was cut, misread or rerun.
THEOREM OfflineTypesHold == OfflineSpec => []OfflineTypeOK
<1>1. OfflineInv => OfflineTypeOK
  <2> SUFFICES ASSUME OfflineInv PROVE OfflineTypeOK
    OBVIOUS
  <2>1. ArmTypeOK /\ idOf \in IdMaps /\ clock \in 1..MaxTime
    BY DEF OfflineInv, ArmInv, FilesOK
  <2>2. stage \in {"capture", "load", "match", "report", "failed"}
    BY DEF OfflineInv, StageOK
  <2>3. axes \subseteq Usable /\ dzTrades \in Seq(DzTrade)
        /\ \A j \in DOMAIN dzTrades : LoadedOK(dzTrades[j], axes, registry.conflicts)
    BY DEF OfflineInv, RefOK, LoadOK, Loading
  <2>4. \A j \in DOMAIN dzTrades : dzTrades[j].market \in axes /\ dzTrades[j].of \in Stamped
    <3>1. \A x \in DzTrade : x.of \in Stamped
      BY Zenon DEF DzTrade
    <3>2. \A j \in DOMAIN dzTrades : dzTrades[j] \in DzTrade
      BY <2>3
    <3> QED BY <2>3, <3>1, <3>2 DEF LoadedOK
  <2> QED BY <2>1, <2>2, <2>3, <2>4 DEF OfflineTypeOK, OfflineInv, MatchOK, PubOK
<1> QED BY <1>1, OfflineInvariant, PTL

\* As many trades of either side are used as there are pairs.
LEMMA UsedOnce ==
  ASSUME PairsOK(matched, next)
  PROVE  Cardinality(UsedPub) = Len(matched) /\ Cardinality(UsedDz) = Len(matched)
<1>1. matched \in Seq(Couple) /\ Len(matched) \in Nat /\ DOMAIN matched = 1..Len(matched)
  BY DEF PairsOK
<1>2. IsFiniteSet(1..Len(matched)) /\ Cardinality(1..Len(matched)) = Len(matched)
  BY <1>1, FS_Interval
<1> DEFINE pub == [r \in 1..Len(matched) |-> matched[r].pub]
           dz  == [r \in 1..Len(matched) |-> matched[r].dz]
<1>3. pub \in Bijection(1..Len(matched), UsedPub) /\ dz \in Bijection(1..Len(matched), UsedDz)
  BY <1>1 DEF PairsOK, OneToOne, UsedPub, UsedDz, Bijection, Injection, Surjection, IsInjective
<1> HIDE DEF pub, dz
<1> QED BY <1>2, <1>3, FS_Bijection DEF ExistsBijection

\* The pairs are one to one, each of trades that may pair; a nearer partner was taken before,
\* none that could pair is left over, and the report accounts for every trade.
THEOREM MatchingIsSound == OfflineSpec => []MatchIsSound
<1>1. OfflineInv => MatchIsSound
  <2> SUFFICES ASSUME OfflineInv PROVE MatchIsSound
    OBVIOUS
  <2>1. /\ PairsOK(matched, next) /\ ReportOK /\ pubTrades \in Seq(PubRecord)
        /\ CouplesFit(matched, next) /\ OneToOne(matched) /\ NearestTaken(matched)
        /\ NoneLeft(matched, next)
    BY DEF OfflineInv, MatchOK, PubOK, PairsOK
  <2>2. \A r, q \in DOMAIN matched :
          r # q => matched[r].pub # matched[q].pub /\ matched[r].dz # matched[q].dz
    BY <2>1 DEF OneToOne
  <2>3. \A r \in DOMAIN matched :
          /\ Pairable(matched[r].pub, matched[r].dz)
          /\ \A j \in DOMAIN dzTrades :
               Pairable(matched[r].pub, j) /\ Nearer(matched[r].pub, j, matched[r].dz)
                 => \E q \in 1..(r - 1) : matched[q].dz = j
    BY <2>1 DEF CouplesFit, NearestTaken
  <2>4. ASSUME stage = "report"
        PROVE  /\ \A i \in DOMAIN pubTrades, j \in DOMAIN dzTrades :
                    Pairable(i, j) => i \in UsedPub \/ j \in UsedDz
               /\ report.n + report.discarded.pub = Cardinality(KeyablePublic)
               /\ report.n + report.discarded.dz = Len(dzTrades)
    <3>1. next > Len(pubTrades) /\ next \in Nat
      BY <2>1, <2>4 DEF ReportOK, OfflineInv, MatchOK
    <3>2. \A i \in DOMAIN pubTrades : i < next
      BY <2>1, <3>1
    <3>3. \A i \in DOMAIN pubTrades, j \in DOMAIN dzTrades :
            Pairable(i, j) => i \in UsedPub \/ j \in UsedDz
      BY <2>1, <3>2 DEF NoneLeft, UsedPub, UsedDz
    <3>4. IsFiniteSet(KeyablePublic) /\ Cardinality(KeyablePublic) \in Nat
      <4>1. KeyablePublic \subseteq 1..Len(pubTrades) /\ IsFiniteSet(1..Len(pubTrades))
        BY <2>1, FS_Interval DEF KeyablePublic
      <4>2. IsFiniteSet(KeyablePublic)
        BY <4>1, FS_Subset
      <4> QED BY <4>2, FS_CardinalityType
    <3>5. Cardinality(UsedPub) = Len(matched) /\ Cardinality(UsedDz) = Len(matched)
      BY <2>1, UsedOnce
    <3>6. Len(matched) \in Nat /\ Len(dzTrades) \in Nat
      BY <2>1 DEF PairsOK, OfflineInv, RefOK, LoadOK, Loading
    <3>7. /\ report.n = Len(matched)
          /\ report.discarded.pub = Cardinality(KeyablePublic) - Cardinality(UsedPub)
          /\ report.discarded.dz = Len(dzTrades) - Cardinality(UsedDz)
      BY <2>1, <2>4 DEF ReportOK
    <3>8. /\ report.n + report.discarded.pub = Cardinality(KeyablePublic)
          /\ report.n + report.discarded.dz = Len(dzTrades)
      BY <3>4, <3>5, <3>6, <3>7
    <3> QED BY <3>3, <3>8
  <2> QED BY <2>2, <2>3, <2>4 DEF MatchIsSound
<1> QED BY <1>1, OfflineInvariant, PTL

\* A pair of different trades has a reason: equal prints of one market, arms that disagree
\* on an id and were caught at it, or an arm whose own definition was not yet read.
THEOREM WrongPairsAreExplained == OfflineSpec => []WrongPairIsExplained
<1>1. OfflineInv => WrongPairIsExplained
  <2> SUFFICES ASSUME OfflineInv, NEW r \in DOMAIN matched,
                      ~(registry.conflicts > 0), dzTrades[matched[r].dz].own
               PROVE  /\ MarketOf[pubTrades[matched[r].pub].of] = MarketOf[dzTrades[matched[r].dz].of]
                      /\ PrintOf[pubTrades[matched[r].pub].of] = PrintOf[dzTrades[matched[r].dz].of]
    BY DEF WrongPairIsExplained
  <2> DEFINE i == matched[r].pub
             j == matched[r].dz
  <2>1. j \in DOMAIN dzTrades /\ SameKey(i, j)
    BY DEF OfflineInv, MatchOK, PairsOK, CouplesFit, Pairable
  <2>2. registry.conflicts = 0
    BY DEF OfflineInv, RefOK, RegistryOK, Registry
  <2>3. LoadedOK(dzTrades[j], axes, registry.conflicts)
    BY <2>1 DEF OfflineInv, RefOK, LoadOK
  <2>4. dzTrades[j].market = MarketOf[dzTrades[j].of]
    BY <2>2, <2>3, Zenon DEF LoadedOK
  <2>5. MarketOf[pubTrades[i].of] = dzTrades[j].market /\ PrintOf[pubTrades[i].of] = PrintOf[dzTrades[j].of]
    BY <2>1 DEF SameKey, EventKey
  <2> QED BY <2>4, <2>5
<1> QED BY <1>1, OfflineInvariant, PTL

-----------------------------------------------------------------------------
(* Reading a log back.  Every cell of a file but a torn record's has its   *)
(* record's other cells next to it, and only a payload or a torn cell may  *)
(* be followed by another record.                                          *)

Shaped(file) ==
  \A i \in DOMAIN file :
    /\ file[i][1] = 3 => ~IsTorn(file[i])
    /\ file[i][1] > 1 => i - 1 \in DOMAIN file /\ file[i - 1] = <<file[i][1] - 1, file[i][2]>>
    /\ file[i][1] < 3 /\ ~IsTorn(file[i]) =>
         i + 1 \in DOMAIN file /\ file[i + 1] = <<file[i][1] + 1, file[i][2]>>

CellsOf(S) == Seq((1..3) \X S)

\* acc[n] holds the records of the first n cells.
CollectsBy(acc, file) ==
  /\ acc[0] = <<>>
  /\ \A n \in 1..Len(file) : acc[n] = AddPayload(acc[n - 1], file[n])
  /\ Records(file) = acc[Len(file)]

\* The records of a file, cell by cell.
LEMMA CollectSteps ==
  ASSUME NEW S, NEW file \in CellsOf(S)
  PROVE  \E acc \in [0..Len(file) -> Seq(S)] : CollectsBy(acc, file)
<1> DEFINE L == Len(file)
           T == Seq(S)
           st == [q \in T \X (1..L) |-> AddPayload(q[1], file[q[2]])]
           it == CHOOSE it : it = [u \in SUBSET (1..L) |->
                   IF u = {} THEN <<>> ELSE AddPayload(it[u \ {Max(u)}], file[Max(u)])]
           acc == [n \in 0..L |-> it[1..n]]
<1>1. Records(file) = it[1..L]
  <2>1. DOMAIN file = 1..L
    BY DEF CellsOf
  <2> QED BY <2>1, Zenon DEF Records, FoldLeft, MapThenFoldSet
<1>2. L \in Nat /\ <<>> \in T /\ \A i \in 1..L : file[i] \in (1..3) \X S
  BY DEF CellsOf
<1> HIDE DEF L
<1>3. \A d \in T, i \in 1..L : AddPayload(d, file[i]) \in T
  BY <1>2 DEF AddPayload
<1> HIDE DEF T
<1>4. /\ st \in [T \X (1..L) -> T]
      /\ \A d \in T, i \in 1..L : st[<<d, i>>] = AddPayload(d, file[i])
  BY <1>3
<1> HIDE DEF st
<1>5. PICK sol \in [SUBSET (1..L) -> T] : FoldsTo(sol, L, <<>>, st)
  <2> HIDE DEF it, acc
  <2> QED BY <1>2, <1>4, FoldRuns
<1>6. sol = [u \in SUBSET (1..L) |-> IF u = {} THEN <<>> ELSE AddPayload(sol[u \ {Max(u)}], file[Max(u)])]
  <2>1. sol = [u \in SUBSET (1..L) |-> IF u = {} THEN <<>> ELSE st[<<sol[u \ {Max(u)}], Max(u)>>]]
    BY <1>5 DEF FoldsTo
  <2>2. ASSUME NEW u \in SUBSET (1..L), u # {}
        PROVE  st[<<sol[u \ {Max(u)}], Max(u)>>] = AddPayload(sol[u \ {Max(u)}], file[Max(u)])
    <3>1. Max(u) \in 1..L
      BY <1>2, <2>2, MaxOfPrefix
    <3>2. sol[u \ {Max(u)}] \in T
      OBVIOUS
    <3> QED BY <1>4, <3>1, <3>2
  <2> HIDE DEF it, acc
  <2> QED BY <2>1, <2>2
<1>7. it = [u \in SUBSET (1..L) |-> IF u = {} THEN <<>> ELSE AddPayload(it[u \ {Max(u)}], file[Max(u)])]
  BY <1>6
<1> HIDE DEF it
<1>8. acc[0] = <<>>
  <2>1. 1..0 = {} /\ {} \in SUBSET (1..L) /\ 0 \in 0..L
    BY <1>2
  <2>2. it[{}] = <<>>
    BY <1>7, <2>1
  <2> QED BY <2>1, <2>2
<1>9. ASSUME NEW n \in 1..L PROVE acc[n] = AddPayload(acc[n - 1], file[n]) /\ n - 1 \in 0..L
  <2>1. /\ 1..n # {} /\ Max(1..n) = n /\ (1..n) \ {Max(1..n)} = 1..(n - 1)
        /\ n \in 0..L /\ n - 1 \in 0..L /\ 1..n \in SUBSET (1..L)
    BY <1>2, PrefixFacts
  <2>2. it[1..n] = AddPayload(it[1..(n - 1)], file[n])
    BY <1>7, <2>1
  <2> QED BY <2>1, <2>2
<1>10. L \in 0..L /\ acc[L] = it[1..L]
  BY <1>2
<1>11. acc \in [0..L -> T]
  <2> DEFINE Good == {n \in 0..L : acc[n] \in T}
  <2>1. 0 \in Good
    BY <1>2, <1>8
  <2>2. ASSUME NEW n \in 0..(L - 1), n \in Good PROVE n + 1 \in Good
    <3>1. n + 1 \in 1..L /\ n + 1 \in 0..L /\ (n + 1) - 1 = n
      BY <1>2
    <3>2. acc[n + 1] = AddPayload(acc[n], file[n + 1]) /\ acc[n] \in T
      BY <1>9, <2>2, <3>1
    <3> QED BY <1>3, <3>1, <3>2
  <2>3. 0..L \subseteq Good
    <3> HIDE DEF Good
    <3> QED BY <1>2, <2>1, <2>2, InductTo
  <2>4. \A n \in 0..L : acc[n] \in T
    BY <2>3
  <2> QED BY <2>4
<1> HIDE DEF acc
<1> QED BY <1>1, <1>8, <1>9, <1>10, <1>11 DEF L, T, CollectsBy

\* The records of a file's first n cells are what has been collected after n of them.
LEMMA CollectedSoFar ==
  ASSUME NEW S, NEW file \in CellsOf(S), NEW acc, CollectsBy(acc, file), NEW n \in 0..Len(file)
  PROVE  Records(SubSeq(file, 1, n)) = acc[n]
<1> DEFINE part == SubSeq(file, 1, n)
<1>1. Len(file) \in Nat /\ n \in Nat /\ n <= Len(file)
  BY DEF CellsOf
<1>2. part \in CellsOf(S) /\ Len(part) = n /\ \A i \in 1..n : part[i] = file[i]
  <2> DEFINE C == (1..3) \X S
  <2>1. file \in Seq(C)
    BY DEF CellsOf
  <2> HIDE DEF C
  <2>2. part \in Seq(C) /\ Len(part) = n /\ \A i \in 1..n : part[i] = file[i]
    BY <1>1, <2>1
  <2> QED BY <2>2 DEF CellsOf, C
<1> HIDE DEF part
<1>3. PICK acp : CollectsBy(acp, part)
  BY <1>2, CollectSteps
<1> DEFINE Good == {i \in 0..n : acp[i] = acc[i]}
<1>4. 0 \in Good
  BY <1>1, <1>3 DEF CollectsBy
<1>5. ASSUME NEW i \in 0..(n - 1), i \in Good PROVE i + 1 \in Good
  <2>1. i + 1 \in 1..n /\ i + 1 \in 1..Len(file) /\ (i + 1) - 1 = i /\ i + 1 \in 0..n
    BY <1>1
  <2>2. acp[i + 1] = AddPayload(acp[i], part[i + 1])
    BY <1>2, <1>3, <2>1 DEF CollectsBy
  <2>3. acc[i + 1] = AddPayload(acc[i], file[i + 1])
    BY <2>1 DEF CollectsBy
  <2>4. acp[i] = acc[i] /\ part[i + 1] = file[i + 1]
    BY <1>2, <1>5, <2>1
  <2> QED BY <2>1, <2>2, <2>3, <2>4
<1>6. n \in Good
  <2>1. 0..n \subseteq Good
    <3> HIDE DEF Good
    <3> QED BY <1>1, <1>4, <1>5, InductTo
  <2> QED BY <1>1, <2>1
<1> QED BY <1>2, <1>3, <1>6 DEF CollectsBy, part

\* What the cells of a log are.
LEMMA LogCells ==
  ASSUME NEW R, NEW file, NEW t, LogOf(file, R, t)
  PROVE  /\ file \in CellsOf(R \cup {Garbage}) /\ Len(file) \in Nat /\ DOMAIN file = 1..Len(file)
         /\ \A i \in DOMAIN file : /\ file[i] = <<file[i][1], file[i][2]>> /\ file[i][1] \in 1..3
                                   /\ file[i][2] \in R \cup {Garbage}
<1> DEFINE S == R \cup {Garbage}
<1>1. file \in Seq((1..3) \X S)
  BY DEF LogOf
<1> HIDE DEF S
<1>2. Len(file) \in Nat /\ DOMAIN file = 1..Len(file) /\ \A i \in DOMAIN file : file[i] \in (1..3) \X S
  BY <1>1
<1>3. \A i \in DOMAIN file : file[i] = <<file[i][1], file[i][2]>> /\ file[i][1] \in 1..3 /\ file[i][2] \in S
  BY <1>2
<1> QED BY <1>1, <1>2, <1>3 DEF CellsOf, S

\* A payload is a record or no record's bytes.
LEMMA ReadsPayload ==
  ASSUME NEW R, NEW file, NEW t, LogOf(file, R, t), NEW p \in Nat \ {0}
  PROVE  Payload(file, p) \in R \cup {Garbage}
<1>1. \A i \in DOMAIN file : file[i][2] \in R \cup {Garbage}
  BY LogCells
<1>2. p + 2 <= Len(file) => p + 2 \in DOMAIN file
  BY LogCells
<1> QED BY <1>1, <1>2 DEF Payload

\* What may follow a payload, and a torn cell.
LEMMA NextHeader ==
  ASSUME NEW R, NEW file, NEW t, LogOf(file, R, t), Shaped(file), NEW i, i \in DOMAIN file, i + 1 \in DOMAIN file
  PROVE  /\ file[i][1] = 3 => file[i + 1][1] = 1
         /\ IsTorn(file[i]) /\ file[i][1] = 2 => file[i + 1][1] = 1
         /\ IsTorn(file[i]) => file[i + 1][1] = 1 \/ file[i + 1] = <<2, Garbage>>
<1>1. /\ i \in Int /\ (i + 1) - 1 = i /\ file[i + 1][1] \in 1..3 /\ file[i][1] \in 1..3
      /\ file[i + 1] = <<file[i + 1][1], file[i + 1][2]>>
  <2>1. /\ Len(file) \in Nat /\ DOMAIN file = 1..Len(file)
        /\ \A j \in DOMAIN file : file[j] = <<file[j][1], file[j][2]>> /\ file[j][1] \in 1..3
    BY LogCells
  <2>2. i \in Int
    BY <2>1
  <2>3. (i + 1) - 1 = i
    BY <2>2
  <2> QED BY <2>1, <2>2, <2>3
<1>2. file[i + 1][1] = 1 \/ (file[i + 1][1] > 1 /\ file[i] = <<file[i + 1][1] - 1, file[i + 1][2]>>)
  BY <1>1 DEF Shaped
<1>3. CASE file[i + 1][1] = 1
  BY <1>3
<1>4. CASE file[i + 1][1] > 1 /\ file[i] = <<file[i + 1][1] - 1, file[i + 1][2]>>
  <2>1. file[i][1] = file[i + 1][1] - 1 /\ file[i][2] = file[i + 1][2]
    BY <1>4
  <2>2. file[i + 1][1] = 3 => file[i + 1][2] # Garbage
    BY DEF Shaped, IsTorn
  <2> QED BY <1>1, <1>4, <2>1, <2>2 DEF IsTorn
<1> QED BY <1>2, <1>3, <1>4

\* The first n cells are those before the first cut.
Whole(file, n) ==
  /\ n \in 0..Len(file)
  /\ \A i \in 1..n : ~IsTorn(file[i])
  /\ n < Len(file) => IsTorn(file[n + 1])

\* What a file holds before its first cut.
LEMMA IntactIsWhole ==
  ASSUME NEW R, NEW file, NEW t, LogOf(file, R, t)
  PROVE  \E n : Whole(file, n) /\ Intact(file) = Records(SubSeq(file, 1, n))
<1>1. \E n \in 0..Len(file) : /\ \A i \in 1..n : ~IsTorn(file[i])
                              /\ n < Len(file) => IsTorn(file[n + 1])
  <2> DEFINE torn == {i \in DOMAIN file : IsTorn(file[i])}
  <2>1. Len(file) \in Nat /\ DOMAIN file = 1..Len(file)
    BY LogCells
  <2>2. CASE torn = {}
    <3>1. \A i \in 1..Len(file) : ~IsTorn(file[i])
      BY <2>1, <2>2
    <3>2. Len(file) \in 0..Len(file) /\ ~(Len(file) < Len(file))
      BY <2>1
    <3> QED BY <3>1, <3>2
  <2>3. CASE torn # {}
    <3>1. torn \in SUBSET Nat
      BY <2>1
    <3>2. PICK m \in torn : \A y \in torn : m <= y
      <4> HIDE DEF torn
      <4> QED BY <2>3, <3>1, LeastNatural
    <3>3. m - 1 \in 0..Len(file) /\ (m - 1) + 1 = m /\ m \in 1..Len(file) /\ IsTorn(file[m])
      BY <2>1, <3>2
    <3>4. \A i \in 1..(m - 1) : ~IsTorn(file[i])
      <4>1. \A i \in 1..(m - 1) : i \in DOMAIN file /\ ~(m <= i)
        BY <2>1, <3>3
      <4> QED BY <3>2, <4>1
    <3> QED BY <3>3, <3>4
  <2> QED BY <2>2, <2>3
<1> DEFINE n == CHOOSE n \in 0..Len(file) : /\ \A i \in 1..n : ~IsTorn(file[i])
                                            /\ n < Len(file) => IsTorn(file[n + 1])
<1>2. Whole(file, n)
  BY <1>1 DEF Whole
<1>3. Intact(file) = Records(SubSeq(file, 1, n))
  BY DEF Intact
<1> QED BY <1>2, <1>3

\* A header before the first cut is one of a whole record, and so is what follows it.
LEMMA WholeRecord ==
  ASSUME NEW R, NEW file, NEW t, LogOf(file, R, t), Shaped(file), NEW n, Whole(file, n),
         NEW p \in 1..n, file[p][1] = 1
  PROVE  /\ p + 2 <= n /\ file[p + 1] = <<2, file[p][2]>> /\ file[p + 2] = <<3, file[p][2]>>
         /\ p + 3 <= Len(file) => file[p + 3][1] = 1
         /\ ~IsTorn(file[p])
<1>1. Len(file) \in Nat /\ DOMAIN file = 1..Len(file) /\ n \in 0..Len(file) /\ p \in DOMAIN file
  BY LogCells DEF Whole
<1>2. ~IsTorn(file[p])
  BY DEF Whole
<1>3. p + 1 \in DOMAIN file /\ file[p + 1] = <<2, file[p][2]>>
  BY <1>1, <1>2 DEF Shaped
<1>4. file[p + 1][1] = 2 /\ ~IsTorn(file[p + 1])
  BY <1>2, <1>3 DEF IsTorn
<1>5. p + 2 \in DOMAIN file /\ file[p + 2] = <<3, file[p][2]>>
  <2>1. (p + 1) + 1 \in DOMAIN file /\ file[(p + 1) + 1] = <<file[p + 1][1] + 1, file[p + 1][2]>>
    BY <1>3, <1>4 DEF Shaped
  <2>2. (p + 1) + 1 = p + 2 /\ file[p + 1][2] = file[p][2]
    BY <1>1, <1>3
  <2> QED BY <1>4, <2>1, <2>2
<1>6. file[p + 2][1] = 3 /\ ~IsTorn(file[p + 2])
  BY <1>2, <1>5 DEF IsTorn
<1>7. p + 2 <= n
  <2>1. n + 1 \in DOMAIN file => n + 1 # p + 1 /\ n + 1 # p + 2
    BY <1>1, <1>4, <1>6 DEF Whole
  <2> QED BY <1>1, <1>3, <1>5, <2>1
<1>8. p + 3 <= Len(file) => file[p + 3][1] = 1
  <2>1. (p + 2) + 1 = p + 3 /\ (p + 3 <= Len(file) => p + 3 \in DOMAIN file)
    BY <1>1
  <2> QED BY <1>5, <1>6, <2>1, NextHeader
<1> QED BY <1>2, <1>3, <1>5, <1>7, <1>8

\* Where read_frames is after k turns of its loop: before the cut at a record that it has not
\* read and behind all those it has; or, a later session having written on, behind the cut.
ReaderAt(file, n, acc, k, read) ==
  \/ /\ read.start <= n + 1
     /\ read.start <= n => k + 1 <= read.start
     /\ read.start <= Len(file) => file[read.start][1] = 1
     /\ read.got = acc[read.start - 1]
  \/ /\ read.start > n + 1 /\ CutInside(file)
     /\ Len(acc[n]) <= Len(read.got)
     /\ \A i \in 1..Len(acc[n]) : read.got[i] = acc[n][i]

\* One turn of the loop moves the reader on by a record, to a place of the same kind.
LEMMA ReadsOn ==
  ASSUME NEW R, NEW file, NEW t, LogOf(file, R, t), Shaped(file), NEW n, Whole(file, n),
         NEW acc \in [0..Len(file) -> Seq(R \cup {Garbage})], CollectsBy(acc, file),
         NEW g \in Nat, NEW k \in Nat, NEW read \in Reading(R), ReaderAt(file, n, acc, k, read)
  PROVE  ReaderAt(file, n, acc, k + 1, ReadOne(file, g, read))
<1> DEFINE p == read.start
           len == Length(file, g, p)
           x == Payload(file, p)
           S == R \cup {Garbage}
<1>1. /\ Len(file) \in Nat /\ DOMAIN file = 1..Len(file) /\ n \in 0..Len(file)
      /\ p \in Nat \ {0} /\ read.got \in Seq(S)
  BY LogCells DEF Whole, Reading
<1>2. ReadOne(file, g, read) = read
      \/ /\ p + 1 <= Len(file) /\ p + 1 + len <= Len(file)
         /\ ReadOne(file, g, read) = [start |-> p + 2 + len, got |-> Append(read.got, x)]
  <2>1. len \in Nat
    BY DEF Length
  <2> QED BY <1>1, <2>1 DEF ReadOne, CutShort
<1>3. len \in Nat
  BY DEF Length
<1>4. CASE p <= n
  <2>1. file[p][1] = 1 /\ p \in 1..n /\ k + 1 <= p /\ read.got = acc[p - 1]
    BY <1>1, <1>4 DEF ReaderAt
  <2>2. /\ p + 2 <= n /\ file[p + 1] = <<2, file[p][2]>> /\ file[p + 2] = <<3, file[p][2]>>
        /\ p + 3 <= Len(file) => file[p + 3][1] = 1
        /\ ~IsTorn(file[p])
    BY <2>1, WholeRecord
  <2>3. Aligned(file, p)
    BY <2>1, <2>2 DEF Aligned
  <2>4. len = 1 /\ x = file[p][2]
    BY <1>1, <2>2, <2>3 DEF Length, Payload
  <2>5. ReadOne(file, g, read) = [start |-> p + 3, got |-> Append(read.got, file[p][2])]
    <3>1. ~(p + 1 > Len(file)) /\ ~CutShort(file, p, len) /\ p + 2 + len = p + 3
      BY <1>1, <2>2, <2>4 DEF CutShort
    <3> QED BY <2>4, <3>1 DEF ReadOne
  <2>6. acc[p + 2] = Append(read.got, file[p][2])
    <3>1. p \in 1..Len(file) /\ p + 1 \in 1..Len(file) /\ p + 2 \in 1..Len(file)
          /\ (p + 1) - 1 = p /\ (p + 2) - 1 = p + 1
      <4>1. p \in Nat /\ n \in Nat /\ n <= Len(file) /\ p >= 1 /\ p + 2 <= n
        BY <1>1, <2>1, <2>2
      <4> HIDE DEF p
      <4> QED BY <1>1, <4>1
    <3>2. acc[p] = AddPayload(acc[p - 1], file[p]) /\ acc[p + 1] = AddPayload(acc[p], file[p + 1])
          /\ acc[p + 2] = AddPayload(acc[p + 1], file[p + 2])
      BY <3>1 DEF CollectsBy
    <3>3. file[p + 1][1] = 2 /\ file[p + 2][1] = 3 /\ file[p + 2][2] = file[p][2]
      BY <2>2
    <3>4. acc[p] = acc[p - 1]
      BY <2>1, <3>2 DEF AddPayload
    <3>5. acc[p + 1] = acc[p]
      BY <3>2, <3>3 DEF AddPayload
    <3>6. acc[p + 2] = Append(acc[p + 1], file[p + 2][2])
      BY <3>2, <3>3 DEF AddPayload
    <3> QED BY <2>1, <3>3, <3>4, <3>5, <3>6
  <2>7. p + 3 <= n + 1 /\ (k + 1) + 1 <= p + 3 /\ (p + 3) - 1 = p + 2
    BY <1>1, <2>1, <2>2
  <2> DEFINE new == ReadOne(file, g, read)
  <2>8. new.start = p + 3 /\ new.got = acc[p + 2]
    BY <2>5, <2>6
  <2> HIDE DEF new, p
  <2>9. /\ new.start <= n + 1 /\ (k + 1) + 1 <= new.start
        /\ new.start <= Len(file) => file[new.start][1] = 1
        /\ new.got = acc[new.start - 1]
    BY <2>2, <2>7, <2>8
  <2> QED BY <2>9 DEF ReaderAt, new
<1>5. CASE p = n + 1
  <2>1. /\ p <= Len(file) => file[p][1] = 1
        /\ read.got = acc[n] /\ (n + 1) - 1 = n /\ ~(p <= n) /\ p <= n + 1
    BY <1>1, <1>5 DEF ReaderAt
  <2>2. CASE ReadOne(file, g, read) = read
    BY <2>1, <2>2, <1>5 DEF ReaderAt
  <2>3. CASE /\ p + 1 <= Len(file) /\ p + 1 + len <= Len(file)
             /\ ReadOne(file, g, read) = [start |-> p + 2 + len, got |-> Append(read.got, x)]
    <3>1. p \in DOMAIN file /\ p + 1 \in DOMAIN file /\ IsTorn(file[p]) /\ file[p][1] = 1
      BY <1>1, <1>5, <2>1, <2>3 DEF Whole
    <3>2. file[p + 1][1] = 1 \/ file[p + 1] = <<2, Garbage>>
      BY <3>1, NextHeader
    <3>3. \E j \in DOMAIN file : p < j /\ file[j][1] = 1
      <4>1. CASE file[p + 1][1] = 1
        BY <1>1, <3>1, <4>1
      <4>2. CASE file[p + 1] = <<2, Garbage>>
        <5>1. file[p + 1][1] = 2 /\ IsTorn(file[p + 1]) /\ file[p + 1][2] = file[p][2]
          BY <3>1, <4>2 DEF IsTorn
        <5>2. Aligned(file, p)
          BY <3>1, <5>1 DEF Aligned
        <5>3. len >= 1
          BY <5>2 DEF Length
        <5>4. p + 2 \in DOMAIN file /\ (p + 1) + 1 = p + 2 /\ p < p + 2
          BY <1>1, <1>3, <2>3, <5>3
        <5>5. file[p + 2][1] = 1
          BY <3>1, <5>1, <5>4, NextHeader
        <5> QED BY <5>4, <5>5
      <4> QED BY <3>2, <4>1, <4>2
    <3>4. CutInside(file)
      BY <3>1, <3>3 DEF CutInside
    <3>5. x \in S
      BY <1>1, ReadsPayload
    <3>6. Len(read.got) <= Len(Append(read.got, x))
          /\ \A i \in 1..Len(read.got) : Append(read.got, x)[i] = read.got[i]
      <4> HIDE DEF S, x
      <4> QED BY <1>1, <3>5
    <3>7. p + 2 + len > n + 1
      BY <1>1, <1>3, <1>5
    <3> QED BY <2>1, <2>3, <3>4, <3>6, <3>7 DEF ReaderAt
  <2> QED BY <1>2, <2>2, <2>3
<1>6. CASE p > n + 1
  <2>1. /\ CutInside(file) /\ Len(acc[n]) <= Len(read.got)
        /\ \A i \in 1..Len(acc[n]) : read.got[i] = acc[n][i]
    BY <1>1, <1>6 DEF ReaderAt
  <2>2. CASE ReadOne(file, g, read) = read
    BY <1>6, <2>1, <2>2 DEF ReaderAt
  <2>3. CASE ReadOne(file, g, read) = [start |-> p + 2 + len, got |-> Append(read.got, x)]
    <3>1. x \in S
      BY <1>1, ReadsPayload
    <3>2. acc[n] \in Seq(S)
      BY <1>1
    <3>3. Len(acc[n]) <= Len(Append(read.got, x))
          /\ \A i \in 1..Len(acc[n]) : Append(read.got, x)[i] = acc[n][i]
      <4>1. Len(read.got) \in Nat /\ Len(acc[n]) \in Nat
        BY <1>1, <3>2
      <4>2. Len(Append(read.got, x)) = Len(read.got) + 1
            /\ \A i \in 1..Len(read.got) : Append(read.got, x)[i] = read.got[i]
        <5> HIDE DEF S, x
        <5> QED BY <1>1, <3>1
      <4>3. \A i \in 1..Len(acc[n]) : i \in 1..Len(read.got)
        BY <2>1, <4>1
      <4> QED BY <2>1, <4>1, <4>2, <4>3
    <3>4. p + 2 + len > n + 1
      BY <1>1, <1>3, <1>6
    <3> QED BY <2>1, <2>3, <3>3, <3>4 DEF ReaderAt
  <2> QED BY <1>2, <2>2, <2>3
<1> QED BY <1>1, <1>4, <1>5, <1>6

\* A session wrote behind a cut, and the records before the cut come first in what was read.
ReadPast(file, whole, got) ==
  /\ CutInside(file) /\ Len(whole) <= Len(got)
  /\ \A i \in 1..Len(whole) : got[i] = whole[i]

\* Nothing is read across an end of file, and what is behind the cut is behind the reader.
LEMMA ReadInOrder ==
  ASSUME NEW R, NEW file, NEW t, LogOf(file, R, t), Shaped(file), NEW g \in Nat,
         NEW n, Whole(file, n), NEW acc \in [0..Len(file) -> Seq(R \cup {Garbage})], CollectsBy(acc, file)
  PROVE  ReadFrames(file, g) = acc[n] \/ ReadPast(file, acc[n], ReadFrames(file, g))
<1>1. PICK rd : ReadsBy(rd, file, g)
  BY ReadSteps
<1>2. Len(file) \in Nat /\ DOMAIN file = 1..Len(file) /\ n \in 0..Len(file)
  BY LogCells DEF Whole
<1> DEFINE Good == {k \in 0..Len(file) : rd[k] \in Reading(R) /\ ReaderAt(file, n, acc, k, rd[k])}
<1>3. 0 \in Good
  <2>1. rd[0] = [start |-> 1, got |-> <<>>]
    BY <1>1 DEF ReadsBy
  <2>2. rd[0] \in Reading(R) /\ rd[0].start = 1 /\ rd[0].got = <<>>
    BY <2>1 DEF Reading
  <2>3. 1 <= Len(file) => file[1][1] = 1
    <3>1. \A i \in DOMAIN file : file[i][1] \in 1..3
      BY LogCells
    <3>2. 1 <= Len(file) => 1 \in DOMAIN file /\ 1 - 1 \notin DOMAIN file
      BY <1>2
    <3> QED BY <3>1, <3>2 DEF Shaped
  <2>4. acc[0] = <<>>
    BY DEF CollectsBy
  <2> HIDE DEF ReadOne
  <2>5. /\ rd[0].start <= n + 1
        /\ rd[0].start <= n => 0 + 1 <= rd[0].start
        /\ rd[0].start <= Len(file) => file[rd[0].start][1] = 1
        /\ rd[0].got = acc[rd[0].start - 1]
    BY <1>2, <2>2, <2>3, <2>4
  <2> QED BY <1>2, <2>2, <2>5 DEF ReaderAt
<1>4. ASSUME NEW k \in 0..(Len(file) - 1), k \in Good PROVE k + 1 \in Good
  <2>1. k + 1 \in 1..Len(file) /\ k + 1 \in 0..Len(file) /\ (k + 1) - 1 = k /\ k \in Nat
    BY <1>2
  <2>2. rd[k + 1] = ReadOne(file, g, rd[k])
    BY <1>1, <2>1 DEF ReadsBy
  <2>3. rd[k + 1] \in Reading(R)
    BY <1>4, <2>2, ReadOneFacts
  <2>4. ReaderAt(file, n, acc, k + 1, rd[k + 1])
    BY <1>4, <2>1, <2>2, ReadsOn
  <2> QED BY <2>1, <2>3, <2>4
<1>5. 0..Len(file) \subseteq Good
  <2> HIDE DEF Good
  <2> QED BY <1>2, <1>3, <1>4, InductTo
<1> DEFINE last == rd[Len(file)]
<1>6. /\ last \in Reading(R) /\ ReaderAt(file, n, acc, Len(file), last)
      /\ ReadFrames(file, g) = last.got
  BY <1>1, <1>2, <1>5 DEF ReadsBy
<1> HIDE DEF last
<1>7. last.start \in Nat
  BY <1>6 DEF Reading
<1>8. CASE /\ last.start <= n + 1
           /\ last.start <= n => Len(file) + 1 <= last.start
           /\ last.got = acc[last.start - 1]
  <2>1. last.start = n + 1 /\ (n + 1) - 1 = n
    BY <1>2, <1>7, <1>8
  <2> QED BY <1>6, <1>8, <2>1
<1>9. CASE /\ CutInside(file) /\ Len(acc[n]) <= Len(last.got)
           /\ \A i \in 1..Len(acc[n]) : last.got[i] = acc[n][i]
  BY <1>6, <1>9 DEF ReadPast
<1> QED BY <1>6, <1>8, <1>9 DEF ReaderAt

\* Where nothing was written behind the cut, the whole records are those before it.
LEMMA NothingBehind ==
  ASSUME NEW R, NEW file, NEW t, LogOf(file, R, t), Shaped(file), ~CutInside(file),
         NEW n, Whole(file, n), NEW acc \in [0..Len(file) -> Seq(R \cup {Garbage})], CollectsBy(acc, file)
  PROVE  Records(file) = acc[n]
<1>1. Len(file) \in Nat /\ DOMAIN file = 1..Len(file) /\ n \in 0..Len(file)
  BY LogCells DEF Whole
<1> DEFINE Good == {m \in 0..Len(file) : m > n => acc[m] = acc[n]}
<1>2. 0 \in Good
  BY <1>1
<1>3. ASSUME NEW m \in 0..(Len(file) - 1), m \in Good PROVE m + 1 \in Good
  <2>1. m + 1 \in 1..Len(file) /\ m + 1 \in 0..Len(file) /\ (m + 1) - 1 = m /\ m \in Nat
        /\ m + 1 \in DOMAIN file
    BY <1>1
  <2>2. acc[m + 1] = AddPayload(acc[m], file[m + 1])
    BY <2>1 DEF CollectsBy
  <2> SUFFICES ASSUME m + 1 > n PROVE acc[m + 1] = acc[n]
    BY <2>1
  <2>3. acc[m] = acc[n]
    BY <1>1, <1>3, <2>1
  <2>4. file[m + 1][1] # 3
    <3> SUFFICES ASSUME file[m + 1][1] = 3 PROVE FALSE
      OBVIOUS
    <3>1. ~IsTorn(file[m + 1]) /\ (m + 1) - 1 \in DOMAIN file
          /\ file[(m + 1) - 1] = <<3 - 1, file[m + 1][2]>>
      BY <2>1 DEF Shaped
    <3>2. m \in DOMAIN file /\ file[m] = <<2, file[m + 1][2]>>
      BY <2>1, <3>1
    <3>3. file[m][1] = 2 /\ file[m][2] = file[m + 1][2]
      BY <3>2
    <3>4. m - 1 \in DOMAIN file /\ file[m - 1] = <<2 - 1, file[m][2]>>
      BY <3>2, <3>3 DEF Shaped
    <3>5. file[m - 1][1] = 1 /\ ~IsTorn(file[m - 1])
      BY <3>1, <3>3, <3>4 DEF IsTorn
    <3>6. CASE m - 1 <= n
      <4>1. m - 1 \in 1..n
        BY <1>1, <2>1, <3>4, <3>6
      <4>2. (m - 1) + 2 <= n
        BY <3>5, <4>1, WholeRecord
      <4> QED BY <1>1, <2>1, <4>2
    <3>7. CASE m - 1 > n
      <4>1. n + 1 \in DOMAIN file /\ IsTorn(file[n + 1])
        BY <1>1, <2>1, <3>4, <3>7 DEF Whole
      <4>2. n + 1 # m - 1
        BY <3>5, <4>1
      <4>3. n + 1 < m - 1
        BY <1>1, <2>1, <3>7, <4>2
      <4> QED BY <3>4, <3>5, <4>1, <4>3 DEF CutInside
    <3> QED BY <1>1, <2>1, <3>6, <3>7
  <2> QED BY <2>2, <2>3, <2>4 DEF AddPayload
<1>4. Len(file) \in Good
  <2>1. 0..Len(file) \subseteq Good
    <3> HIDE DEF Good
    <3> QED BY <1>1, <1>2, <1>3, InductTo
  <2> QED BY <1>1, <2>1
<1>5. CASE Len(file) > n
  BY <1>4, <1>5 DEF CollectsBy
<1>6. CASE Len(file) = n
  BY <1>6 DEF CollectsBy
<1>7. Len(file) > n \/ Len(file) = n
  <2>1. \A L \in Nat : \A m \in 0..L : L > m \/ L = m
    OBVIOUS
  <2> QED BY <1>1, <2>1
<1> QED BY <1>5, <1>6, <1>7

\* A cut record is no record.
LEMMA NoneGarbage ==
  ASSUME NEW R, NEW file, NEW t, LogOf(file, R, t), Shaped(file),
         NEW acc \in [0..Len(file) -> Seq(R \cup {Garbage})], CollectsBy(acc, file), NEW n \in 0..Len(file)
  PROVE  \A k \in DOMAIN acc[n] : acc[n][k] # Garbage
<1>1. Len(file) \in Nat /\ DOMAIN file = 1..Len(file)
  BY LogCells
<1> DEFINE S == R \cup {Garbage}
           Good == {m \in 0..Len(file) : \A k \in DOMAIN acc[m] : acc[m][k] # Garbage}
<1>2. 0 \in Good
  <2>1. DOMAIN acc[0] = {}
    BY DEF CollectsBy
  <2> QED BY <1>1, <2>1
<1>3. ASSUME NEW m \in 0..(Len(file) - 1), m \in Good PROVE m + 1 \in Good
  <2>1. m + 1 \in 1..Len(file) /\ m + 1 \in 0..Len(file) /\ m \in 0..Len(file) /\ (m + 1) - 1 = m
        /\ m + 1 \in DOMAIN file
    BY <1>1
  <2>2. acc[m + 1] = AddPayload(acc[m], file[m + 1])
    BY <2>1 DEF CollectsBy
  <2>3. acc[m] \in Seq(S) /\ file[m + 1][2] \in S
    BY <2>1, LogCells
  <2>4. \A k \in DOMAIN acc[m] : acc[m][k] # Garbage
    BY <1>3
  <2>5. file[m + 1][1] = 3 => file[m + 1][2] # Garbage
    BY <2>1 DEF Shaped, IsTorn
  <2> HIDE DEF S
  <2>6. CASE file[m + 1][1] = 3
    <3>1. acc[m + 1] = Append(acc[m], file[m + 1][2])
      BY <2>2, <2>6 DEF AddPayload
    <3>2. \A k \in DOMAIN acc[m + 1] : acc[m + 1][k] # Garbage
      <4>1. \A k \in DOMAIN acc[m + 1] : \/ k \in DOMAIN acc[m] /\ acc[m + 1][k] = acc[m][k]
                                         \/ acc[m + 1][k] = file[m + 1][2]
        <5> HIDE DEF Good
        <5> QED BY <2>3, <3>1
      <4> QED BY <2>4, <2>5, <2>6, <4>1
    <3> QED BY <2>1, <3>2
  <2>7. CASE file[m + 1][1] # 3
    BY <2>1, <2>2, <2>4, <2>7 DEF AddPayload
  <2> QED BY <2>6, <2>7
<1>4. n \in Good
  <2>1. 0..Len(file) \subseteq Good
    <3> HIDE DEF Good
    <3> QED BY <1>1, <1>2, <1>3, InductTo
  <2> QED BY <2>1
<1> QED BY <1>4

\* What read_frames promises of a file.
LEMMA FileReadsBack ==
  ASSUME NEW R, NEW file, NEW t, LogOf(file, R, t), Shaped(file), NEW g \in Nat
  PROVE  /\ IsPrefix(Intact(file), ReadFrames(file, g))
         /\ CutInside(file) \/ ReadFrames(file, g) = Records(file)
         /\ CutInside(file) \/ Garbage \notin ToSet(ReadFrames(file, g))
<1> DEFINE S == R \cup {Garbage}
           got == ReadFrames(file, g)
<1>1. PICK n : Whole(file, n) /\ Intact(file) = Records(SubSeq(file, 1, n))
  BY IntactIsWhole
<1>2. file \in CellsOf(S) /\ n \in 0..Len(file)
  BY <1>1, LogCells DEF Whole
<1>3. PICK acc \in [0..Len(file) -> Seq(S)] : CollectsBy(acc, file)
  BY <1>2, CollectSteps
<1>4. Intact(file) = acc[n]
  BY <1>1, <1>2, <1>3, CollectedSoFar
<1>5. got = acc[n] \/ ReadPast(file, acc[n], got)
  BY <1>1, <1>3, ReadInOrder
<1>6. acc[n] \in Seq(S) /\ got \in Seq(S)
  <2>1. got \in Seq(S)
    BY ReadKeeps DEF ReadBack
  <2> HIDE DEF got
  <2> QED BY <1>2, <1>3, <2>1
<1>7. CutInside(file) \/ Records(file) = acc[n]
  BY <1>1, <1>3, NothingBehind
<1>8. \A k \in DOMAIN acc[n] : acc[n][k] # Garbage
  BY <1>2, <1>3, NoneGarbage
<1> HIDE DEF got, S
<1>9. IsPrefix(acc[n], got)
  <2>1. /\ Len(acc[n]) <= Len(got) /\ Len(acc[n]) \in Nat /\ Len(got) \in Nat
        /\ \A i \in 1..Len(acc[n]) : got[i] = acc[n][i]
    BY <1>5, <1>6 DEF ReadPast
  <2>2. SubSeq(acc[n], 1, Len(acc[n])) = SubSeq(got, 1, Len(acc[n]))
    BY <1>6, <2>1
  <2> QED BY <2>1, <2>2 DEF IsPrefix
<1>10. CutInside(file) \/ Garbage \notin ToSet(got)
  BY <1>5, <1>8 DEF ToSet, ReadPast
<1> QED BY <1>4, <1>5, <1>7, <1>9, <1>10 DEF got, ReadPast

\* A file stays in shape when what is written is.
LEMMA ShapedJoined ==
  ASSUME NEW C, NEW a \in Seq(C), NEW b \in Seq(C), Shaped(a), Shaped(b)
  PROVE  Shaped(a \o b)
<1> DEFINE new == a \o b
           m == Len(a)
           k == Len(b)
<1>1. m \in Nat /\ k \in Nat /\ DOMAIN a = 1..m /\ DOMAIN b = 1..k
  OBVIOUS
<1>2. /\ DOMAIN new = 1..(m + k)
      /\ \A i \in 1..m : new[i] = a[i]
      /\ \A i \in (m + 1)..(m + k) : new[i] = b[i - m]
  BY Joined
<1> HIDE DEF new, m, k
<1>3. SUFFICES ASSUME NEW i \in DOMAIN new
               PROVE  /\ new[i][1] = 3 => ~IsTorn(new[i])
                      /\ new[i][1] > 1 =>
                           i - 1 \in DOMAIN new /\ new[i - 1] = <<new[i][1] - 1, new[i][2]>>
                      /\ new[i][1] < 3 /\ ~IsTorn(new[i]) =>
                           i + 1 \in DOMAIN new /\ new[i + 1] = <<new[i][1] + 1, new[i][2]>>
  BY DEF Shaped, new
<1>4. CASE i \in 1..m
  <2>1. new[i] = a[i] /\ i \in DOMAIN a /\ i - 1 \in Int /\ i + 1 \in Int
    BY <1>1, <1>2, <1>4
  <2>2. i - 1 \in DOMAIN a => i - 1 \in DOMAIN new /\ new[i - 1] = a[i - 1]
    BY <1>1, <1>2
  <2>3. i + 1 \in DOMAIN a => i + 1 \in DOMAIN new /\ new[i + 1] = a[i + 1]
    BY <1>1, <1>2
  <2> QED BY <2>1, <2>2, <2>3 DEF Shaped
<1>5. CASE i \in (m + 1)..(m + k)
  <2> DEFINE j == i - m
  <2>1. new[i] = b[j] /\ j \in DOMAIN b /\ i = m + j /\ j \in Nat
    BY <1>1, <1>2, <1>5
  <2>2. j - 1 \in DOMAIN b => i - 1 \in DOMAIN new /\ new[i - 1] = b[j - 1]
    <3>1. (i - 1) - m = j - 1 /\ i - 1 \in Int
      BY <1>1, <2>1
    <3>2. j - 1 \in 1..k => i - 1 \in (m + 1)..(m + k) /\ i - 1 \in 1..(m + k)
      BY <1>1, <2>1
    <3> QED BY <1>1, <1>2, <3>1, <3>2
  <2>3. j + 1 \in DOMAIN b => i + 1 \in DOMAIN new /\ new[i + 1] = b[j + 1]
    <3>1. (i + 1) - m = j + 1 /\ i + 1 \in Int
      BY <1>1, <2>1
    <3>2. j + 1 \in 1..k => i + 1 \in (m + 1)..(m + k) /\ i + 1 \in 1..(m + k)
      BY <1>1, <2>1
    <3> QED BY <1>1, <1>2, <3>1, <3>2
  <2> HIDE DEF j
  <2> QED BY <2>1, <2>2, <2>3 DEF Shaped
<1>6. i \in 1..m \/ i \in (m + 1)..(m + k)
  BY <1>1, <1>2
<1> QED BY <1>4, <1>5, <1>6

\* A record and a torn record are in shape.
LEMMA ShapedThen ==
  ASSUME NEW R, NEW file, NEW t, LogOf(file, R, t), Shaped(file)
  PROVE  /\ \A r \in R : r # Garbage => Shaped(file \o Cells(r))
         /\ \A x \in Torn : Shaped(file \o x)
<1> DEFINE Cell == (1..3) \X (R \cup {Garbage})
<1>1. file \in Seq(Cell)
  BY DEF LogOf
<1>2. ASSUME NEW r \in R, r # Garbage PROVE Shaped(file \o Cells(r))
  <2>1. /\ Cells(r) \in Seq(Cell) /\ DOMAIN Cells(r) = 1..3
        /\ \A i \in 1..3 : Cells(r)[i] = <<i, r>>
    BY DEF Cells
  <2>2. Shaped(Cells(r))
    <3>1. \A i \in 1..3 : Cells(r)[i][1] = i /\ Cells(r)[i][2] = r
      BY <2>1
    <3>2. \A i \in 1..3 : /\ i > 1 => i - 1 \in 1..3
                          /\ i < 3 => i + 1 \in 1..3
      OBVIOUS
    <3> QED BY <1>2, <2>1, <3>1, <3>2 DEF Shaped, IsTorn
  <2> HIDE DEF Cell
  <2> QED BY <1>1, <2>1, <2>2, ShapedJoined
<1>3. ASSUME NEW x \in Torn PROVE Shaped(file \o x)
  <2>1. PICK n \in 0..2 : x = [part \in 1..n |-> <<part, Garbage>>]
    BY DEF Torn
  <2>2. x \in Seq(Cell) /\ DOMAIN x = 1..n /\ \A i \in 1..n : x[i] = <<i, Garbage>>
    BY <2>1
  <2>3. Shaped(x)
    <3>1. \A i \in 1..n : x[i][1] = i /\ x[i][2] = Garbage
      BY <2>2
    <3>2. \A i \in 1..n : i # 3 /\ (i > 1 => i - 1 \in 1..n)
      OBVIOUS
    <3> QED BY <2>2, <3>1, <3>2 DEF Shaped, IsTorn
  <2> HIDE DEF Cell
  <2> QED BY <1>1, <2>2, <2>3, ShapedJoined
<1> QED BY <1>2, <1>3

\* A definition is of its record set, whatever the market.
LEMMA RecordOfDefinition ==
  ASSUME NEW I, NEW K, NEW i \in I, NEW m \in K, NEW u \in BOOLEAN
  PROVE  [kind |-> "def", id |-> i, sym |-> m, usable |-> u]
           \in [kind : {"def"}, id : I, sym : K, usable : BOOLEAN]
OBVIOUS

\* A cut record is none of either log's.
LEMMA NoRecordIsGarbage ==
  ASSUME idOf \in IdMaps
  PROVE  Garbage \notin DzRecord /\ Garbage \notin PubRecord
<1>1. Garbage \notin PubRecord
  BY GarbageAssumption DEF PubRecord
<1>2. Garbage \notin DzRecord
  <2> DEFINE D == [kind : {"def"}, id : Ids, sym : Markets, usable : BOOLEAN]
             M == D \cup [kind : {"trade"}, id : Ids, of : Prints]
  <2> SUFFICES ASSUME NEW c \in Channels, Garbage \in [at : Nat, ch : {c}, msgs : Seq(Messages(c))]
               PROVE  FALSE
    BY DEF DzRecord
  <2>1. Messages(c) \subseteq M
    <3> SUFFICES ASSUME NEW item \in Items PROVE Message(c, item) \in M
      BY DEF Messages
    <3>1. CASE item.kind = "def"
      <4>1. Message(c, item) = [kind |-> "def", id |-> idOf[c][item.market], sym |-> item.market,
                                usable |-> item.market \in Usable]
        BY <3>1 DEF Message
      <4>2. item.market \in Markets
        BY <3>1 DEF Items
      <4>3. idOf[c][item.market] \in Ids
        BY <4>2, NamingAssumption
      <4>4. [kind |-> "def", id |-> idOf[c][item.market], sym |-> item.market,
             usable |-> item.market \in Usable]
              \in [kind : {"def"}, id : Ids, sym : Markets, usable : BOOLEAN]
        <5>1. (item.market \in Usable) \in BOOLEAN
          OBVIOUS
        <5> QED BY <4>2, <4>3, <5>1, RecordOfDefinition, Zenon
      <4>5. Message(c, item) \in D
        BY <4>1, <4>4, Zenon
      <4> HIDE DEF D
      <4> QED BY <4>5
    <3>2. CASE item.kind # "def"
      <4>1. Message(c, item) = [kind |-> "trade", id |-> idOf[c][MarketOf[item.of]], of |-> item.of]
        BY <3>2 DEF Message
      <4>2. item.of \in Prints
        BY <3>2 DEF Items
      <4>3. MarketOf[item.of] \in Markets
        BY <4>2 DEF Markets
      <4>4. idOf[c][MarketOf[item.of]] \in Ids
        BY <4>3, NamingAssumption
      <4> QED BY <4>1, <4>2, <4>4
    <3> QED BY <3>1, <3>2
  <2>2. Seq(Messages(c)) \subseteq Seq(M)
    <3> HIDE DEF M
    <3> QED BY <2>1
  <2>3. Garbage \in [at : Nat, ch : Channels, msgs : Seq(M)]
    <3> HIDE DEF M
    <3> QED BY <2>2
  <2> QED BY <2>3, GarbageAssumption
<1> QED BY <1>1, <1>2

\* The inductive part: both files are in shape, and a load fails behind a cut only.
ShapeInv == Shaped(dzFile) /\ Shaped(pubFile) /\ (stage = "failed" => CutInside(pubFile))

\* No step breaks the shape of a file, or fails to load a file with nothing behind a cut.
LEMMA ShapeStep ==
  ASSUME OfflineInv, ShapeInv, [OfflineNext]_offlineVars
  PROVE  ShapeInv'
<1>1. ASSUME NEW t \in clock..(clock + MaxGap), NEW c \in Channels, NEW shape \in Shapes,
             CaptureDz(c, shape, t)
      PROVE  ShapeInv'
  <2> DEFINE frame == [at |-> t, ch |-> c, msgs |-> [k \in DOMAIN shape |-> Message(c, shape[k])]]
  <2>1. stage = "capture" /\ stage' = stage /\ dzFile' = dzFile \o Cells(frame) /\ pubFile' = pubFile
    BY <1>1 DEF CaptureDz, WriteAt
  <2>2. frame \in DzRecord
    <3>1. t \in Nat
      BY BoundAssumption, OfflineAssumption DEF OfflineInv, FilesOK
    <3> QED BY <3>1, FrameIsRecord
  <2> HIDE DEF frame
  <2>3. Shaped(dzFile \o Cells(frame))
    BY <2>2, NoRecordIsGarbage, ShapedThen DEF OfflineInv, FilesOK, ShapeInv
  <2> QED BY <2>1, <2>3 DEF ShapeInv
<1>2. ASSUME NEW t \in clock..(clock + MaxGap), NEW i \in Prints, CapturePublic(i, t)
      PROVE  ShapeInv'
  <2> DEFINE frame == [at |-> t, of |-> i]
  <2>1. stage = "capture" /\ stage' = stage /\ pubFile' = pubFile \o Cells(frame) /\ dzFile' = dzFile
    BY <1>2 DEF CapturePublic, WriteAt
  <2>2. frame \in PubRecord
    BY BoundAssumption, OfflineAssumption DEF PubRecord, OfflineInv, FilesOK
  <2> HIDE DEF frame
  <2>3. Shaped(pubFile \o Cells(frame))
    BY <2>2, NoRecordIsGarbage, ShapedThen DEF OfflineInv, FilesOK, ShapeInv
  <2> QED BY <2>1, <2>3 DEF ShapeInv
<1>3. CASE CrashInCapture
  <2>1. PICK x \in Torn, y \in Torn : dzFile' = dzFile \o x /\ pubFile' = pubFile \o y
    BY <1>3 DEF CrashInCapture
  <2>2. stage' = "capture"
    BY <1>3 DEF CrashInCapture, StartAgain
  <2>3. Shaped(dzFile \o x)
    BY ShapedThen DEF OfflineInv, FilesOK, ShapeInv
  <2>4. Shaped(pubFile \o y)
    BY ShapedThen DEF OfflineInv, FilesOK, ShapeInv
  <2> QED BY <2>1, <2>2, <2>3, <2>4 DEF ShapeInv
<1>4. CASE LoadPublic
  <2>1. dzFile' = dzFile /\ pubFile' = pubFile
    BY <1>4 DEF LoadPublic, captured, files
  <2>2. stage' = "failed" => CutInside(pubFile)
    <3> SUFFICES ASSUME stage' = "failed" PROVE CutInside(pubFile)
      OBVIOUS
    <3>1. PICK g \in 0..MaxGarbage : Garbage \in ToSet(ReadFrames(pubFile, g))
      BY <1>4 DEF LoadPublic, Undecodable
    <3>2. g \in Nat
      BY OfflineAssumption
    <3> QED BY <3>1, <3>2, FileReadsBack DEF OfflineInv, FilesOK, ShapeInv
  <2> QED BY <2>1, <2>2 DEF ShapeInv
<1>5. CASE UNCHANGED <<dzFile, pubFile>> /\ (stage' = stage \/ stage' # "failed")
  <2>1. stage' = "failed" => stage = "failed"
    BY <1>5
  <2> QED BY <1>5, <2>1 DEF ShapeInv
<1>6. CASE EndCapture
  BY <1>5, <1>6 DEF EndCapture, captured, files
<1>7. CASE SkipFrame
  BY <1>5, <1>7 DEF SkipFrame, captured, files
<1>8. CASE ReplayFrame
  BY <1>5, <1>8 DEF ReplayFrame, captured, files
<1>9. CASE ReplayTrade
  BY <1>5, <1>9 DEF ReplayTrade, captured, files
<1>10. CASE ReplayVerdict
  BY <1>5, <1>10 DEF ReplayVerdict, captured, files
<1>11. CASE MatchOne
  BY <1>5, <1>11 DEF MatchOne, captured, files
<1>12. CASE Report
  BY <1>5, <1>12 DEF Report, captured, files
<1>13. CASE RunAgain
  BY <1>5, <1>13 DEF RunAgain, StartAgain, files
<1>14. CASE UNCHANGED offlineVars
  BY <1>5, <1>14 DEF offlineVars, captured, files
<1> QED BY <1>1, <1>2, <1>3, <1>4, <1>6, <1>7, <1>8, <1>9, <1>10, <1>11, <1>12, <1>13, <1>14
       DEF OfflineNext

\* Over any number of crashes and later sessions, what was written whole before the first
\* cut is read back in order, everything is where no session wrote behind a cut, and a run
\* fails to load only where one did.
THEOREM WholeLogsReadBack == OfflineSpec => []WholeLogReadsBack
<1>1. OfflineInit => ShapeInv
  BY DEF OfflineInit, ShapeInv, Shaped
<1>2. OfflineInv /\ ShapeInv /\ [OfflineNext]_offlineVars => ShapeInv'
  BY ShapeStep
<1>3. OfflineInv /\ ShapeInv => WholeLogReadsBack
  <2> SUFFICES ASSUME OfflineInv, ShapeInv, stage = "capture",
                      NEW file \in {dzFile, pubFile}, NEW g \in 0..MaxGarbage
               PROVE  /\ IsPrefix(Intact(file), ReadFrames(file, g))
                      /\ CutInside(file) \/ ReadFrames(file, g) = Records(file)
    BY DEF WholeLogReadsBack, ShapeInv
  <2>1. g \in Nat
    BY OfflineAssumption
  <2>2. CASE file = dzFile
    BY <2>1, <2>2, FileReadsBack DEF OfflineInv, FilesOK, ShapeInv
  <2>3. CASE file = pubFile
    BY <2>1, <2>3, FileReadsBack DEF OfflineInv, FilesOK, ShapeInv
  <2> QED BY <2>2, <2>3
<1> QED BY <1>1, <1>2, <1>3, OfflineInvariant, PTL DEF OfflineSpec
-----------------------------------------------------------------------------
(* The two tools' percentiles. *)

\* Of a sample of any size the live tool's percentile (_index_for, rounded down from
\* p% of n) is one of the two values between which the offline one interpolates (p% of
\* n - 1): the two never differ by more than a neighbour in the sorted sample.
THEOREM PercentilesAreNeighbours ==
  ASSUME NEW n \in Nat \ {0}, NEW p \in Percents
  PROVE  /\ RankOf(p, n) \in {LowRank(p, n), HighRank(p, n)}
         /\ RankOf(p, n) \in 0..(n - 1)
<1>1. p \in 0..100 /\ n \in Nat /\ n > 0 /\ n - 1 \in Nat
  BY DEF Percents
<1> DEFINE a == n * p
           b == p * (n - 1)
           q == a \div 100
           r == b \div 100
<1>2. a \in Nat /\ b \in Nat /\ a = b + p
  BY DEF Percents
<1>3. q \in Nat /\ r \in Nat /\ 100 * q <= a /\ a < 100 * q + 100 /\ 100 * r <= b /\ b < 100 * r + 100
  <2> HIDE DEF a, b
  <2> QED BY <1>2
<1>4. r <= q /\ q <= r + 1
  <2> HIDE DEF a, b, q, r
  <2> QED BY <1>1, <1>2, <1>3
<1>5. r <= n - 1 /\ b <= 100 * (n - 1)
  <2>1. b <= 100 * (n - 1)
    BY <1>1 DEF Percents
  <2> HIDE DEF a, b, q, r
  <2> QED BY <1>1, <1>2, <1>3, <2>1
<1>6. LowRank(p, n) = r
  BY DEF LowRank
<1>7. RankOf(p, n) = IF n - 1 <= q THEN n - 1 ELSE q
  <2>1. RankOf(p, n) = Min({n - 1, q})
    BY DEF RankOf
  <2> HIDE DEF a, b, q, r
  <2> QED BY <1>1, <1>3, <2>1, MinOfTwo
<1>8. HighRank(p, n) = IF r + 1 <= n - 1 THEN r + 1 ELSE n - 1
  <2>1. HighRank(p, n) = Min({r + 1, n - 1})
    BY <1>6 DEF HighRank
  <2> HIDE DEF a, b, q, r
  <2> QED BY <1>1, <1>3, <2>1, MinOfTwo
<1> HIDE DEF a, b, q, r
<1> QED BY <1>1, <1>3, <1>4, <1>5, <1>6, <1>7, <1>8
=============================================================================
