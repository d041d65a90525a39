------------------------------- MODULE RefData -------------------------------
(***************************************************************************)
(* The reference data a DoubleZero reader builds up from the stream: the   *)
(* registry both arms share (sources/dz_feed/registry.py), the decoder     *)
(* that fills it and labels trades by it (sources/dz_feed/decoder.py), and *)
(* the axes learnt from it (sources/dz_feed/contract_sizes.py).            *)
(*                                                                         *)
(* A message is [kind, id, sym, usable, of]: a definition ("def") binds    *)
(* the instrument id to a symbol, with a usable lot and tick size or not;  *)
(* a trade ("trade") of the venue's print `of` names its instrument by id. *)
(***************************************************************************)
EXTENDS Naturals, SequencesExt

\* InstrumentRegistry: the instruments in the order of a dict, and symbol_conflicts.
EmptyRegistry == [instruments |-> <<>>, conflicts |-> 0]

Named(registry, id) ==
  {k \in DOMAIN registry.instruments : registry.instruments[k].id = id}

\* update, of an id that has a symbol.  Mutant: the later definition wins.
RedefinedLastWins(registry, k, def) == [registry EXCEPT !.instruments[k] = def]

Redefined(registry, k, def) ==
  IF registry.instruments[k].sym # def.sym
  THEN [registry EXCEPT !.conflicts = @ + 1]
  ELSE [registry EXCEPT !.instruments[k] = def]

Update(registry, def) ==
  LET known == Named(registry, def.id)
  IN  IF known = {} THEN [registry EXCEPT !.instruments = Append(@, def)]
      ELSE Redefined(registry, CHOOSE k \in known : TRUE, def)

\* _market_and_exponents: an id without a definition is its own label.
Label(registry, id) ==
  IF Named(registry, id) = {} THEN id
  ELSE registry.instruments[CHOOSE k \in Named(registry, id) : TRUE].sym

\* DzDecoder.decode: the messages of a frame in their order, so that a definition
\* labels the trades behind it in the same frame.
DecodeOne(sofar, msg) ==
  IF msg.kind = "def"
  THEN [sofar EXCEPT !.registry = Update(@, [id |-> msg.id, sym |-> msg.sym,
                                             usable |-> msg.usable])]
  ELSE [sofar EXCEPT !.events = Append(@, [of |-> msg.of, id |-> msg.id,
                                           market |-> Label(sofar.registry, msg.id)])]

Decode(registry, frame) ==
  FoldLeft(DecodeOne, [registry |-> registry, events |-> <<>>], frame.msgs)

\* by_symbol: the first instrument under that symbol, if there is one.
HasUsableAxis(registry, market) ==
  LET under == {k \in DOMAIN registry.instruments : registry.instruments[k].sym = market}
  IN  under # {} /\ registry.instruments[CHOOSE k \in under : \A l \in under : k <= l].usable

\* Mutant: an instrument whose lot or tick size is unusable is cached too.
LearntUnusable(axes, registry, market) ==
  IF \E k \in DOMAIN registry.instruments : registry.instruments[k].sym = market
  THEN axes \cup {market} ELSE axes

\* ContractSizes._learn: the markets with a cached axis after asking for one.
Learnt(axes, registry, market) ==
  IF HasUsableAxis(registry, market) THEN axes \cup {market} ELSE axes
=============================================================================
