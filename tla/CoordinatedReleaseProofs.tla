----------------------- MODULE CoordinatedReleaseProofs -----------------------
(***************************************************************************)
(* The release boundary for every maximal quote age and every clock.  The  *)
(* invariant says what each leg has been told at every await: the checks   *)
(* of the preflight repeat some of the leg's own, so that a leg is ready   *)
(* exactly when nobody has said no to it.                                  *)
(***************************************************************************)
EXTENDS CoordinatedRelease, TLAPS

OnChain(l) == answer[l].wallet = "yes" /\ answer[l].allowance = "yes"

\* Somebody said no to the leg, or had nothing to say.
Spoiled(l) ==
  \/ \E t \in Topics : answer[l][t] = "no"
  \/ kind[l] = "DEX" /\ ~equipped
  \/ ~Firm(l)

\* Why a leg may have passed without what its trade takes.
Excused(l) ==
  CASE kind[l] = "CEX" -> l = "BUY" \/ Quantity > Safe
    [] kind[l] = "DEX" /\ pricing = "quantity" -> l = "BUY"
    [] OTHER -> pricing = "nothing"

\* Capital has been answered before the quote is asked for.
Funded(l) == at[l] = "quote" => answer[l].capital # "unasked"

\* Only a leg on a chain with capital and a quote is asked for a wallet.
Quoted(l) ==
  at[l] \in {"wallet", "allowance"} =>
    /\ kind[l] = "DEX"
    /\ answer[l].capital = "yes"
    /\ answer[l].quote = "yes"
    /\ answer[l].profit # "unasked"
    /\ at[l] = "allowance" => answer[l].wallet # "unasked"

\* A ready leg has all its answers; a leg that is done and not ready is spoiled.
Judged(l) ==
  /\ ready[l] =>
       /\ at[l] = "done"
       /\ answer[l].capital = "yes"
       /\ answer[l].quote = "yes"
       /\ answer[l].profit # "unasked"
       /\ kind[l] = "DEX" => OnChain(l)
       /\ Firm(l)
  /\ at[l] = "done" /\ ~ready[l] => Spoiled(l)

\* Where the legs are at every stage, and what the verdict rests on.
Staged ==
  /\ stage \in {"offered", "planned"} => \A l \in Legs : at[l] = "idle"
  /\ stage = "preflight" => \A l \in Legs : at[l] # "idle"
  /\ stage = "released" => \A l \in Legs : at[l] = "done" /\ LegPasses(l)
  /\ stage = "refused" =>
       \/ \A l \in Legs : at[l] = "idle"
       \/ \A l \in Legs : at[l] = "done" /\ \E m \in Legs : ~LegPasses(m)

Inv ==
  /\ TypeOK
  /\ \A l \in Legs : Funded(l) /\ Quoted(l) /\ Judged(l)
  /\ Staged
  /\ \A l \in short : Excused(l)

\* Initially no leg has been asked anything.
LEMMA Start == Init => Inv
<1> SUFFICES ASSUME Init PROVE Inv
  OBVIOUS
<1>1. TypeOK
  BY TimeAssumption DEF Init, TypeOK, Time
<1>2. \A l \in Legs : Funded(l) /\ Quoted(l) /\ Judged(l)
  BY DEF Init, Funded, Quoted, Judged, Topics
<1>3. Staged
  BY DEF Init, Staged
<1>4. \A l \in short : Excused(l)
  BY DEF Init
<1> QED
  BY <1>1, <1>2, <1>3, <1>4 DEF Inv

\* What a leg's own facts rest on: a step that leaves the leg, its kind and the
\* equipment alone leaves them true.
LEMMA OtherLeg ==
  ASSUME NEW l \in Legs, Funded(l) /\ Quoted(l) /\ Judged(l),
         at'[l] = at[l], answer'[l] = answer[l], ready'[l] = ready[l],
         kind' = kind, equipped' = equipped, pricing' = pricing, strict' = strict
  PROVE  (Funded(l) /\ Quoted(l) /\ Judged(l))'
  BY DEF Funded, Quoted, Judged, OnChain, Spoiled, Firm, Required, HummingbotRequires,
         DexRequires, Takes

\* A step of one leg during the preflight disturbs no other leg and no verdict.
LEMMA LegMoves ==
  ASSUME Inv, NEW l \in Legs, at[l] \in {"capital", "quote", "wallet", "allowance"},
         UNCHANGED <<clock, given, stage, now>>,
         NEW n \in {"quote", "wallet", "allowance", "done"},
         NEW s \in [Topics -> {"unasked", "yes", "no"}],
         at' = [at EXCEPT ![l] = n], answer' = [answer EXCEPT ![l] = s],
         stamp' \in [Legs -> Time], ready' \in [Legs -> BOOLEAN],
         \A m \in Legs \ {l} : ready'[m] = ready[m],
         short' \subseteq Legs, \A m \in short' : Excused(m),
         (Funded(l) /\ Quoted(l) /\ Judged(l))'
  PROVE  Inv'
<1>1. TypeOK'
  BY DEF Inv, TypeOK, given
<1>2. \A m \in Legs : (Funded(m) /\ Quoted(m) /\ Judged(m))'
  <2> SUFFICES ASSUME NEW m \in Legs PROVE (Funded(m) /\ Quoted(m) /\ Judged(m))'
    OBVIOUS
  <2>1. CASE m = l
    BY <2>1
  <2>2. CASE m # l
    BY <2>2, OtherLeg DEF Inv, TypeOK, given
  <2> QED
    BY <2>1, <2>2
<1>3. Staged'
  <2>1. stage = "preflight"
    BY DEF Inv, TypeOK, Staged
  <2> QED
    BY <2>1 DEF Inv, TypeOK, Staged
<1>4. (\A m \in short : Excused(m))'
  BY DEF Excused, given
<1> QED
  BY <1>1, <1>2, <1>3, <1>4 DEF Inv

\* What shares its double with a safe amount is at most one unit above it.
LEMMA ReadsClose ==
  ASSUME NEW raw \in Nat, raw <= Safe, NEW told \in Reads(raw)
  PROVE  told \in Int /\ told <= raw + 1
<1>1. Exact \in Nat \ {0} /\ raw < 2 * Exact
  BY AmountAssumption DEF Safe
<1>2. raw \div Exact \in Int /\ raw \div Exact <= 1
  <2> DEFINE q == raw \div Exact
  <2>1. q \in Int /\ q * Exact <= raw
    BY <1>1
  <2>2. ASSUME q >= 2 PROVE FALSE
    <3> HIDE DEF q
    <3>1. q * Exact >= 2 * Exact
      BY <1>1, <2>1, <2>2
    <3> QED
      BY <1>1, <2>1, <3>1
  <2> QED
    BY <2>1, <2>2
<1> QED
  BY <1>2 DEF Reads

\* What shares its double with any amount is an integer.
LEMMA ReadsTyped ==
  ASSUME NEW raw \in Nat, NEW told \in Reads(raw)
  PROVE  told \in Int
  BY AmountAssumption DEF Reads

\* A comparison says yes or no, and goes wrong by more than a unit only for an
\* excused leg: a chain's amount that is no safe integer is not compared at all,
\* and a safe quantity is covered by every amount that is none.
LEMMA Compared ==
  ASSUME Inv, NEW l \in Legs, NEW t, NEW raw \in Amounts, NEW told \in Told(l, raw),
         Compares(l, t, raw, told)
  PROVE  /\ \E a \in {"yes", "no"} : Says(l, t, a)
         /\ short' \subseteq Legs
         /\ \A m \in short' : Excused(m)
<1>1. \E a \in {"yes", "no"} : Says(l, t, a)
  BY DEF Compares
<1>2. raw \in Nat /\ told \in Reads(raw) /\ (kind[l] = "DEX" => raw <= Safe)
  <2>1. raw \in Nat
    BY AmountAssumption DEF Amounts
  <2>2. ~(kind[l] = "DEX" /\ raw > Safe) /\ told \in Reads(raw)
    BY Zenon DEF Told
  <2> QED
    BY <2>1, <2>2, AmountAssumption DEF Safe
<1>3. told \in Int /\ (raw <= Safe => told <= raw + 1) /\ Safe \in Int
  BY <1>2, ReadsClose, ReadsTyped, AmountAssumption DEF Safe
<1>4. Takes(l) \in Int /\ (l = "SELL" => Takes(l) = Quantity) /\ Quantity \in Int
  BY AmountAssumption DEF Takes, Legs
<1>5. kind[l] \in {"CEX", "DEX"} /\ pricing \in Pricings
  BY DEF Inv, TypeOK
<1>6. ASSUME told >= Required(l), raw + 1 < Takes(l) PROVE Excused(l)
  <2>1. CASE kind[l] = "CEX"
    <3>1. Required(l) = Quantity
      BY <2>1 DEF Required, HummingbotRequires
    <3>2. l = "SELL" => Quantity > Safe
      BY <1>2, <1>3, <1>4, <1>6, <3>1
    <3> QED
      BY <2>1, <3>2 DEF Excused, Legs
  <2>2. CASE kind[l] = "DEX" /\ pricing = "quantity"
    <3>1. Required(l) = Quantity
      BY <2>2 DEF Required, DexRequires
    <3>2. l # "SELL"
      BY <1>2, <1>3, <1>4, <1>6, <2>2, <3>1
    <3> QED
      BY <2>2, <3>2 DEF Excused, Legs
  <2>3. CASE kind[l] = "DEX" /\ pricing = "cost"
    <3>1. Required(l) = Takes(l)
      BY <2>3 DEF Required, DexRequires
    <3> QED
      BY <1>2, <1>3, <1>4, <1>6, <2>3, <3>1
  <2>4. CASE kind[l] = "DEX" /\ pricing = "nothing"
    BY <2>4 DEF Excused
  <2> QED
    BY <1>5, <2>1, <2>2, <2>3, <2>4 DEF Pricings
<1>7. short' = IF told >= Required(l) /\ raw + 1 < Takes(l) THEN short \cup {l} ELSE short
  BY DEF Compares
<1> QED
  BY <1>1, <1>6, <1>7 DEF Inv, TypeOK

\* The answer about capital.
LEMMA AfterCapital ==
  ASSUME Inv, NEW l \in Legs, CapitalAnswers(l)
  PROVE  Inv'
<1>1. PICK raw \in Amounts : \E told \in Told(l, raw) : Compares(l, "capital", raw, told)
  BY DEF CapitalAnswers
<1>2. short' \subseteq Legs /\ \A m \in short' : Excused(m)
  BY <1>1, Compared
<1>3. PICK a \in {"yes", "no"} : Says(l, "capital", a)
  BY <1>1, Compared
<1> DEFINE s == [answer[l] EXCEPT !.capital = a]
<1>4. answer[l] \in [Topics -> {"unasked", "yes", "no"}]
  BY DEF Inv, TypeOK
<1>5. s \in [Topics -> {"unasked", "yes", "no"}] /\ s.capital = a
  BY <1>4 DEF Topics
<1>6. answer' = [answer EXCEPT ![l] = s] /\ at' = [at EXCEPT ![l] = "quote"]
  BY <1>3 DEF CapitalAnswers, Says, Turns
<1>7. answer'[l] = s /\ at'[l] = "quote" /\ ready'[l] = ready[l] /\ ~ready[l]
  BY <1>6 DEF Inv, TypeOK, Judged, CapitalAnswers
<1>8. (Funded(l) /\ Quoted(l) /\ Judged(l))'
  BY <1>5, <1>7 DEF Funded, Quoted, Judged
<1>9. at[l] = "capital" /\ UNCHANGED <<clock, given, stage, now, stamp, ready>>
  BY DEF CapitalAnswers
<1> HIDE DEF s
<1> QED
  BY <1>5, <1>6, <1>8, <1>9, <1>2, LegMoves DEF Inv, TypeOK

\* The answer with the quote, after which an exchange's leg is settled.
LEMMA AfterQuote ==
  ASSUME Inv, NEW l \in Legs, QuoteAnswers(l)
  PROVE  Inv'
<1>1. PICK t \in Time, q \in {"yes", "no"}, p \in {"yes", "no"} :
        /\ stamp' = [stamp EXCEPT ![l] = t]
        /\ answer' = [answer EXCEPT ![l].quote = q, ![l].profit = p]
  BY DEF QuoteAnswers
<1> DEFINE s == [answer[l] EXCEPT !.quote = q, !.profit = p]
<1>2. answer[l] \in [Topics -> {"unasked", "yes", "no"}]
  BY DEF Inv, TypeOK
<1>3. /\ s \in [Topics -> {"unasked", "yes", "no"}]
      /\ s.capital = answer[l].capital /\ s.quote = q /\ s.profit = p
  BY <1>2 DEF Topics
<1>4. answer' = [answer EXCEPT ![l] = s] /\ answer'[l] = s
  BY <1>1 DEF Inv, TypeOK
<1>5. s.capital \in {"yes", "no"}
  BY <1>2, <1>3 DEF Inv, Funded, QuoteAnswers, Topics
<1>6. at[l] = "quote" /\ ~ready[l]
  BY DEF Inv, Judged, QuoteAnswers
<1>7. UNCHANGED <<clock, given, stage, now, short>>
  BY DEF QuoteAnswers
<1>8. stamp' \in [Legs -> Time]
  BY <1>1 DEF Inv, TypeOK
<1>9. short' \subseteq Legs /\ \A m \in short' : Excused(m)
  BY <1>7 DEF Inv, TypeOK
<1> HIDE DEF s
<1>10. CASE s.capital = "no" \/ s.quote = "no"
  <2>1. Settles(l, FALSE)
    BY <1>3, <1>4, <1>10 DEF QuoteAnswers
  <2>2. /\ at' = [at EXCEPT ![l] = "done"] /\ at'[l] = "done"
        /\ ready' = [ready EXCEPT ![l] = FALSE] /\ ~ready'[l]
    BY <2>1 DEF Settles, Turns, Inv, TypeOK
  <2>3. Spoiled(l)'
    BY <1>4, <1>10 DEF Spoiled, Topics
  <2>4. (Funded(l) /\ Quoted(l) /\ Judged(l))'
    BY <2>2, <2>3 DEF Funded, Quoted, Judged
  <2>5. ready' \in [Legs -> BOOLEAN] /\ \A m \in Legs \ {l} : ready'[m] = ready[m]
    BY <2>2 DEF Inv, TypeOK
  <2> QED
    BY <1>3, <1>4, <1>6, <1>7, <1>8, <1>9, <2>2, <2>4, <2>5, LegMoves
<1>11. CASE ~(s.capital = "no" \/ s.quote = "no") /\ kind[l] = "CEX"
  <2>1. Settles(l, Firm(l))
    BY <1>3, <1>4, <1>11 DEF QuoteAnswers
  <2>2. /\ at' = [at EXCEPT ![l] = "done"] /\ at'[l] = "done"
        /\ ready' = [ready EXCEPT ![l] = Firm(l)] /\ ready'[l] = Firm(l)
    BY <2>1 DEF Settles, Turns, Inv, TypeOK
  <2>3. Firm(l)' = Firm(l)
    BY <1>7 DEF Firm, Required, HummingbotRequires, DexRequires, Takes, given
  <2>4. (Funded(l) /\ Quoted(l) /\ Judged(l))'
    BY <1>3, <1>4, <1>5, <1>7, <1>11, <2>2, <2>3 DEF Funded, Quoted, Judged, Spoiled, given
  <2>5. ready' \in [Legs -> BOOLEAN] /\ \A m \in Legs \ {l} : ready'[m] = ready[m]
    BY <2>2 DEF Inv, TypeOK, Firm
  <2> QED
    BY <1>3, <1>4, <1>6, <1>7, <1>8, <1>9, <2>2, <2>4, <2>5, LegMoves
<1>12. CASE ~(s.capital = "no" \/ s.quote = "no") /\ kind[l] = "DEX" /\ ~equipped
  <2>1. Settles(l, FALSE)
    BY <1>3, <1>4, <1>12 DEF QuoteAnswers
  <2>2. /\ at' = [at EXCEPT ![l] = "done"] /\ at'[l] = "done"
        /\ ready' = [ready EXCEPT ![l] = FALSE] /\ ~ready'[l]
    BY <2>1 DEF Settles, Turns, Inv, TypeOK
  <2>3. Spoiled(l)'
    BY <1>7, <1>12 DEF Spoiled, given
  <2>4. (Funded(l) /\ Quoted(l) /\ Judged(l))'
    BY <2>2, <2>3 DEF Funded, Quoted, Judged
  <2>5. ready' \in [Legs -> BOOLEAN] /\ \A m \in Legs \ {l} : ready'[m] = ready[m]
    BY <2>2 DEF Inv, TypeOK
  <2> QED
    BY <1>3, <1>4, <1>6, <1>7, <1>8, <1>9, <2>2, <2>4, <2>5, LegMoves
<1>13. CASE ~(s.capital = "no" \/ s.quote = "no") /\ kind[l] = "DEX" /\ equipped
  <2>1. Turns(l, "wallet") /\ UNCHANGED ready
    BY <1>3, <1>4, <1>13 DEF QuoteAnswers
  <2>2. at' = [at EXCEPT ![l] = "wallet"] /\ at'[l] = "wallet"
    BY <2>1 DEF Turns, Inv, TypeOK
  <2>3. (Funded(l) /\ Quoted(l) /\ Judged(l))'
    BY <1>3, <1>4, <1>5, <1>6, <1>7, <1>13, <2>1, <2>2
       DEF Funded, Quoted, Judged, given
  <2>4. ready' \in [Legs -> BOOLEAN] /\ \A m \in Legs \ {l} : ready'[m] = ready[m]
    BY <2>1 DEF Inv, TypeOK
  <2> QED
    BY <1>3, <1>4, <1>6, <1>7, <1>8, <1>9, <2>2, <2>3, <2>4, LegMoves
<1> QED
  BY <1>10, <1>11, <1>12, <1>13 DEF Inv, TypeOK

\* The answer about the wallet.
LEMMA AfterWallet ==
  ASSUME Inv, NEW l \in Legs, WalletAnswers(l)
  PROVE  Inv'
<1>1. PICK a \in {"yes", "no"} : Says(l, "wallet", a)
  BY DEF WalletAnswers
<1> DEFINE s == [answer[l] EXCEPT !.wallet = a]
<1>2. answer[l] \in [Topics -> {"unasked", "yes", "no"}]
  BY DEF Inv, TypeOK
<1>3. /\ s \in [Topics -> {"unasked", "yes", "no"}] /\ s.wallet = a
      /\ s.capital = answer[l].capital /\ s.quote = answer[l].quote
      /\ s.profit = answer[l].profit
  BY <1>2 DEF Topics
<1>4. answer' = [answer EXCEPT ![l] = s] /\ at' = [at EXCEPT ![l] = "allowance"]
  BY <1>1 DEF WalletAnswers, Says, Turns
<1>5. answer'[l] = s /\ at'[l] = "allowance" /\ ready'[l] = ready[l] /\ ~ready[l]
  BY <1>4 DEF Inv, TypeOK, Judged, WalletAnswers
<1>6. (Funded(l) /\ Quoted(l) /\ Judged(l))'
  BY <1>3, <1>5 DEF Inv, Funded, Quoted, Judged, WalletAnswers, given
<1>7. at[l] = "wallet" /\ UNCHANGED <<clock, given, stage, now, stamp, ready, short>>
  BY DEF WalletAnswers
<1> HIDE DEF s
<1> QED
  BY <1>3, <1>4, <1>6, <1>7, LegMoves DEF Inv, TypeOK

\* The answer about the allowance, which settles a leg on a chain.
LEMMA AfterAllowance ==
  ASSUME Inv, NEW l \in Legs, AllowanceAnswers(l)
  PROVE  Inv'
<1>1. /\ \E a \in {"yes", "no"} : Says(l, "allowance", a)
       /\ short' \subseteq Legs
       /\ \A m \in short' : Excused(m)
  <2>1. CASE Says(l, "allowance", "no") /\ UNCHANGED short
    BY <2>1 DEF Inv, TypeOK
  <2>2. CASE \E raw \in Amounts : \E told \in Told(l, raw) :
               Compares(l, "allowance", raw, told)
    BY <2>2, Compared
  <2> QED
    BY <2>1, <2>2 DEF AllowanceAnswers
<1>2. PICK a \in {"yes", "no"} : Says(l, "allowance", a)
  BY <1>1
<1>3. Settles(l, answer'[l].allowance = "yes" /\ answer[l].wallet = "yes" /\ Firm(l))
  BY DEF AllowanceAnswers
<1> DEFINE s == [answer[l] EXCEPT !.allowance = a]
<1>4. answer[l] \in [Topics -> {"unasked", "yes", "no"}]
  BY DEF Inv, TypeOK
<1>5. /\ s \in [Topics -> {"unasked", "yes", "no"}] /\ s.allowance = a
      /\ s.capital = answer[l].capital /\ s.quote = answer[l].quote
      /\ s.profit = answer[l].profit /\ s.wallet = answer[l].wallet
  BY <1>4 DEF Topics
<1>6. answer' = [answer EXCEPT ![l] = s] /\ answer'[l] = s
  BY <1>2 DEF Says, Inv, TypeOK
<1> DEFINE r == a = "yes" /\ answer[l].wallet = "yes" /\ Firm(l)
<1>7. Settles(l, r)
  BY <1>5, <1>6, <1>3
<1>8. /\ at' = [at EXCEPT ![l] = "done"] /\ at'[l] = "done"
      /\ ready' = [ready EXCEPT ![l] = r] /\ ready'[l] = r
  BY <1>7 DEF Settles, Turns, Inv, TypeOK
<1>9. at[l] = "allowance" /\ UNCHANGED <<clock, given, stage, now, stamp>>
  BY DEF AllowanceAnswers
<1>10. Firm(l)' = Firm(l)
  BY <1>9 DEF Firm, Required, HummingbotRequires, DexRequires, Takes, given
<1>11. answer[l].wallet \in {"yes", "no"}
  BY <1>4, <1>9 DEF Inv, Quoted, Topics
<1> HIDE DEF s
<1>12. (Funded(l) /\ Quoted(l))'
  BY <1>8 DEF Funded, Quoted
<1>13. ready'[l] => OnChain(l)'
  BY <1>5, <1>6, <1>8 DEF OnChain
<1>14. ~ready'[l] => Spoiled(l)'
  BY <1>5, <1>6, <1>8, <1>11, <1>10 DEF Spoiled, Topics
<1>15. answer[l].capital = "yes" /\ answer[l].quote = "yes" /\ answer[l].profit # "unasked"
  BY <1>9 DEF Inv, Quoted
<1>16. Judged(l)'
  BY <1>5, <1>6, <1>8, <1>13, <1>14, <1>15, <1>10 DEF Judged
<1>17. ready' \in [Legs -> BOOLEAN] /\ \A m \in Legs \ {l} : ready'[m] = ready[m]
  BY <1>8 DEF Inv, TypeOK, Firm
<1>18. stamp' \in [Legs -> Time]
  BY <1>9 DEF Inv, TypeOK
<1> QED
  BY <1>5, <1>6, <1>8, <1>9, <1>12, <1>16, <1>17, <1>18, <1>1, LegMoves

\* A throw settles the leg as not ready, and as said no to.
LEMMA AfterThrow ==
  ASSUME Inv, NEW l \in Legs, ProviderThrows(l)
  PROVE  Inv'
<1>1. at[l] \in {"capital", "quote", "wallet", "allowance"} /\ at[l] \in Topics
  BY DEF ProviderThrows, Topics
<1> DEFINE s == [answer[l] EXCEPT ![at[l]] = "no"]
<1>2. answer[l] \in [Topics -> {"unasked", "yes", "no"}]
  BY DEF Inv, TypeOK
<1>3. s \in [Topics -> {"unasked", "yes", "no"}] /\ s[at[l]] = "no"
  BY <1>1, <1>2
<1>4. answer' = [answer EXCEPT ![l] = s] /\ answer'[l] = s
  BY DEF ProviderThrows, Says, Inv, TypeOK
<1>5. /\ at' = [at EXCEPT ![l] = "done"] /\ at'[l] = "done"
      /\ ready' = [ready EXCEPT ![l] = FALSE] /\ ~ready'[l]
  BY DEF ProviderThrows, Settles, Turns, Inv, TypeOK
<1>6. UNCHANGED <<clock, given, stage, now, stamp, short>>
  BY DEF ProviderThrows
<1> HIDE DEF s
<1>7. Spoiled(l)'
  BY <1>1, <1>3, <1>4 DEF Spoiled
<1>8. (Funded(l) /\ Quoted(l) /\ Judged(l))'
  BY <1>5, <1>7 DEF Funded, Quoted, Judged
<1>9. ready' \in [Legs -> BOOLEAN] /\ \A m \in Legs \ {l} : ready'[m] = ready[m]
  BY <1>5 DEF Inv, TypeOK
<1>10. stamp' \in [Legs -> Time]
  BY <1>6 DEF Inv, TypeOK
<1>11. short' \subseteq Legs /\ \A m \in short' : Excused(m)
  BY <1>6 DEF Inv, TypeOK
<1> QED
  BY <1>1, <1>3, <1>4, <1>5, <1>6, <1>8, <1>9, <1>10, <1>11, LegMoves

\* Every step keeps the invariant.
LEMMA Step == Inv /\ [Next]_vars => Inv'
<1> SUFFICES ASSUME Inv, [Next]_vars PROVE Inv'
  OBVIOUS
<1>1. ASSUME UNCHANGED <<given, legs>> PROVE
        /\ \A l \in Legs : (Funded(l) /\ Quoted(l) /\ Judged(l))'
        /\ \A l \in short' : Excused(l)'
        /\ now' = now => \A l \in Legs : LegPasses(l)' = LegPasses(l)
  BY <1>1, OtherLeg DEF Inv, given, legs, LegPasses, Fresh, Excused
<1>2. CASE Validate
  <2>1. UNCHANGED <<given, legs, clock, now>> /\ stage = "offered"
    BY <1>2 DEF Validate
  <2>2. stage' \in {"planned", "refused"}
    BY <1>2 DEF Validate
  <2>3. TypeOK'
    BY <2>1, <2>2 DEF Inv, TypeOK, given, legs
  <2>4. Staged'
    BY <2>1, <2>2 DEF Inv, Staged, legs
  <2> QED
    BY <1>1, <2>1, <2>3, <2>4 DEF Inv
<1>3. CASE StartPreflight
  <2>1. CASE offer.policy
    <3>1. /\ stage' = "preflight" /\ now' = clock /\ at' = [l \in Legs |-> "capital"]
          /\ UNCHANGED <<clock, given, answer, stamp, ready, short>> /\ stage = "planned"
      BY <1>3, <2>1 DEF StartPreflight
    <3>2. TypeOK'
      BY <3>1 DEF Inv, TypeOK, given
    <3>3. \A l \in Legs : ~ready[l]
      BY <3>1 DEF Inv, Staged, Judged
    <3>4. \A l \in Legs : (Funded(l) /\ Quoted(l) /\ Judged(l))'
      BY <3>1, <3>3 DEF Funded, Quoted, Judged
    <3>5. Staged'
      BY <3>1 DEF Staged
    <3>6. (\A l \in short : Excused(l))'
      BY <3>1 DEF Inv, Excused, given
    <3> QED
      BY <3>2, <3>4, <3>5, <3>6 DEF Inv
  <2>2. CASE ~offer.policy
    <3>1. stage' = "refused" /\ UNCHANGED <<given, legs, clock, now>> /\ stage = "planned"
      BY <1>3, <2>2 DEF StartPreflight, legs
    <3>2. TypeOK'
      BY <3>1 DEF Inv, TypeOK, given, legs
    <3>3. Staged'
      BY <3>1 DEF Inv, Staged, legs
    <3> QED
      BY <1>1, <3>1, <3>2, <3>3 DEF Inv
  <2> QED
    BY <2>1, <2>2
<1>4. CASE Decide
  <2>1. /\ UNCHANGED <<given, legs, clock, now>>
        /\ \A l \in Legs : at[l] = "done"
        /\ stage' = IF \A l \in Legs : LegPasses(l) THEN "released" ELSE "refused"
    BY <1>4 DEF Decide
  <2>2. TypeOK'
    BY <2>1 DEF Inv, TypeOK, given, legs
  <2>3. \A l \in Legs : LegPasses(l)' = LegPasses(l)
    BY <1>1, <2>1
  <2>4. Staged'
    BY <2>1, <2>3 DEF Staged, legs
  <2> QED
    BY <1>1, <2>1, <2>2, <2>4 DEF Inv
<1>5. CASE \E l \in Legs : CapitalAnswers(l)
  BY <1>5, AfterCapital
<1>6. CASE \E l \in Legs : QuoteAnswers(l)
  BY <1>6, AfterQuote
<1>7. CASE \E l \in Legs : WalletAnswers(l)
  BY <1>7, AfterWallet
<1>8. CASE \E l \in Legs : AllowanceAnswers(l)
  BY <1>8, AfterAllowance
<1>9. CASE \E l \in Legs : ProviderThrows(l)
  BY <1>9, AfterThrow
<1>10. CASE Tick \/ UNCHANGED vars
  <2>1. UNCHANGED <<given, stage, now, legs>>
    BY <1>10 DEF Tick, vars
  <2>2. clock' \in Time
    BY <1>10, TimeAssumption DEF Tick, vars, Inv, TypeOK, Time
  <2>3. TypeOK'
    BY <2>1, <2>2 DEF Inv, TypeOK, given, legs
  <2>4. \A l \in Legs : LegPasses(l)' = LegPasses(l)
    BY <1>1, <2>1
  <2>5. Staged'
    BY <2>1, <2>4 DEF Inv, Staged, legs
  <2> QED
    BY <1>1, <2>1, <2>3, <2>5 DEF Inv
<1> QED
  BY <1>2, <1>3, <1>4, <1>5, <1>6, <1>7, <1>8, <1>9, <1>10 DEF Next, Calls

\* The invariant holds in every reachable state, without any fairness.
THEOREM Invariance == Spec => []Inv
  BY Start, Step, PTL DEF Spec

\* Type correctness.
THEOREM Typing == Spec => []TypeOK
<1>1. Inv => TypeOK
  BY DEF Inv
<1> QED
  BY <1>1, Invariance, PTL

\* Nothing is released unless both legs have every answer they need (41 to 58).
THEOREM Covered == Spec => []ReleasedIsCovered
<1>1. Inv => ReleasedIsCovered
  BY DEF Inv, Staged, LegPasses, Judged, ReleasedIsCovered, OnChain
<1> QED
  BY <1>1, Invariance, PTL

\* A released leg had what its trade takes when it was asked, short of at most
\* one raw unit, except where its provider demands less (rpc-dex-source.ts 41 to
\* 48, hummingbot-readiness.ts 19).
THEOREM Funds == Spec => []FundsWereThere
<1>1. Inv => FundsWereThere
  <2> SUFFICES ASSUME Inv, stage = "released", NEW l \in short
               PROVE  CASE kind[l] = "CEX" -> l = "BUY" \/ Quantity > Safe
                        [] kind[l] = "DEX" /\ pricing = "quantity" -> l = "BUY"
                        [] OTHER -> pricing = "nothing" /\ ~strict
    BY DEF FundsWereThere
  <2>1. l \in Legs /\ Excused(l) /\ Firm(l)
    BY DEF Inv, TypeOK, Staged, LegPasses, Judged
  <2>2. ASSUME kind[l] = "DEX", pricing = "nothing" PROVE ~(Required(l) > 0)
    BY <2>2 DEF Required, HummingbotRequires, DexRequires
  <2> QED
    BY <2>1, <2>2 DEF Excused, Firm, Inv, TypeOK
<1> QED
  BY <1>1, Invariance, PTL

\* The two quotes of a release are at most MaxAge apart (line 52).
THEOREM Agree == Spec => []QuotesAgree
<1>1. Inv => QuotesAgree
  <2> SUFFICES ASSUME Inv, stage = "released", NEW l \in Legs, NEW m \in Legs
               PROVE  stamp[l] - stamp[m] <= MaxAge
    BY DEF QuotesAgree
  <2>1. stamp[l] <= now /\ now - stamp[m] <= MaxAge
    BY DEF Inv, Staged, LegPasses, Fresh
  <2>2. stamp[l] \in Int /\ stamp[m] \in Int /\ now \in Int /\ MaxAge \in Int
    BY TimeAssumption DEF Inv, TypeOK, Time
  <2> QED
    BY <2>1, <2>2
<1> QED
  BY <1>1, Invariance, PTL

\* A plan that was asked about is refused only for a cause (28 to 32 and 48).
THEOREM Caused == Spec => []RefusedForCause
<1>1. Inv => RefusedForCause
  <2> SUFFICES ASSUME Inv, stage = "refused", \A l \in Legs : at[l] # "idle"
               PROVE  \E l \in Legs : Spoiled(l) \/ ~Fresh(stamp[l], now)
    BY DEF RefusedForCause, Spoiled
  <2>1. PICK m \in Legs : at[m] = "done" /\ ~LegPasses(m)
    BY DEF Inv, Staged, Legs
  <2>2. CASE ~ready[m]
    BY <2>1, <2>2 DEF Inv, Judged
  <2>3. CASE ready[m]
    <3>1. answer[m].profit # "yes" \/ ~Fresh(stamp[m], now)
      BY <2>1, <2>3 DEF Inv, Judged, LegPasses, OnChain
    <3>2. answer[m].profit \in {"yes", "no"}
      BY <2>3 DEF Inv, TypeOK, Judged, Topics
    <3> QED
      BY <3>1, <3>2 DEF Spoiled, Topics
  <2> QED
    BY <2>2, <2>3 DEF Inv, TypeOK
<1> QED
  BY <1>1, Invariance, PTL
=============================================================================
