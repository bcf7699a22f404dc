------------------------------ MODULE HandEval ------------------------------
(***************************************************************************)
(* What a hand is worth.  The repository has three evaluators: the graph   *)
(* of dag/handevaluator.c, which hold'em tables use; dag2/omaha.js, which  *)
(* Omaha tables use; and poker-eval's eval.h, behind the addon of          *)
(* omaha.cpp.  Each is a way around looking at every choice of five cards; *)
(* here each is compared with that.                                        *)
(*                                                                         *)
(* Cards are the server's numbers: four times the rank plus the suit.  The *)
(* deck may have fewer than thirteen ranks; the highest is the ace, which  *)
(* also comes before the lowest.                                           *)
(***************************************************************************)
EXTENDS Integers, Sequences, FiniteSets, FiniteSetsExt, SequencesExt

CONSTANTS
    R,       \* the number of ranks
    Sizes,   \* numbers of cards of the hold'em hands that are tried
    Boards   \* the boards, of five cards, of the Omaha hands that are tried

Ranks == 0..R - 1
Suits == 0..3
Deck == 0..4 * R - 1
Rank(card) == card \div 4
Suit(card) == card % 4

ASSUME HandAssumption ==
    /\ R \in 6..13 /\ Sizes \subseteq 5..7
    /\ \A b \in Boards : b \subseteq Deck /\ Cardinality(b) = 5

\* StdRules_HandType
NOPAIR    == 0
ONEPAIR   == 1
TWOPAIR   == 2
TRIPS     == 3
STRAIGHT  == 4
FLUSH     == 5
FULLHOUSE == 6
QUADS     == 7
STFLUSH   == 8

\* HandVal: a type and up to five cards, four bits each, and four between.
Digit(cards, i) == IF i \in DOMAIN cards THEN cards[i] ELSE 0
HandVal(type, cards) ==
    ((((type * 256 + Digit(cards, 1)) * 16 + Digit(cards, 2)) * 16
        + Digit(cards, 3)) * 16 + Digit(cards, 4)) * 16 + Digit(cards, 5)

-----------------------------------------------------------------------------
(* The tables of poker-eval, indexed by a mask: the set of its ranks.       *)

nBits(mask) == Cardinality(mask)
topCard(mask) == IF mask = {} THEN 0 ELSE Max(mask)

\* The highest card of the best straight in the mask, 0 for none.
StraightTops(mask) ==
    {t \in 4..R - 1 : t - 4 .. t \subseteq mask}
      \cup {t \in {3} : (0..3) \cup {R - 1} \subseteq mask}
straight(mask) == topCard(StraightTops(mask))

\* The members of S, sorted by the order that above is.
Sorted(S, above(_, _)) ==
    [i \in 1..Cardinality(S) |->
       CHOOSE x \in S : Cardinality({y \in S : above(y, x)}) = i - 1]

Descending(mask) == Sorted(mask, >)
topFiveCards(mask) == HandVal(0, Descending(mask))
-----------------------------------------------------------------------------
(* The reference: the value of five cards, and the best five of a hand.     *)

\* Five cards by rank: how many there are of each.
RankBag(cards) == [r \in Ranks |-> Cardinality({c \in cards : Rank(c) = r})]
RankSet(cards) == {Rank(c) : c \in cards}

\* The ranks of a bag, pairs before single cards and so on.
Grouped(b) ==
    Sorted({r \in Ranks : b[r] > 0},
           LAMBDA q, r : b[q] > b[r] \/ (b[q] = b[r] /\ q > r))

\* The class of five cards that are not of one suit (eqcllist).
normalClass(b) ==
    LET ranks  == Grouped(b)
        counts == [i \in DOMAIN ranks |-> b[ranks[i]]]
        top    == straight(Range(ranks))
        type   == CASE counts = <<4, 1>>       -> QUADS
                    [] counts = <<3, 2>>       -> FULLHOUSE
                    [] counts = <<3, 1, 1>>    -> TRIPS
                    [] counts = <<2, 2, 1>>    -> TWOPAIR
                    [] counts = <<2, 1, 1, 1>> -> ONEPAIR
                    [] OTHER -> IF top > 0 THEN STRAIGHT ELSE NOPAIR
    IN  HandVal(type, IF type = STRAIGHT THEN <<top>> ELSE ranks)

\* The class of five cards of one suit.
flushClass(ranks) ==
    LET top == straight(ranks)
    IN  IF top > 0 THEN HandVal(STFLUSH, <<top>>)
        ELSE HandVal(FLUSH, Descending(ranks))

Class(five) ==
    IF Cardinality({Suit(c) : c \in five}) = 1 THEN flushClass(RankSet(five))
    ELSE normalClass(RankBag(five))

BestOf(fives) == Max({Class(five) : five \in fives})
BestFive(cards) == BestOf(kSubset(5, cards))
BestOmaha(hand, board) ==
    BestOf({h \cup t : h \in kSubset(2, hand), t \in kSubset(3, board)})
-----------------------------------------------------------------------------
(* dag/handevaluator.c: a hand walks a graph, card by card.  A node stands  *)
(* for the cards that lead to it, counted by rank, and knows two classes:   *)
(* for hands of that many cards, and for that many cards of one suit.       *)

Root == [r \in Ranks |-> 0]
succ(node, r) == [node EXCEPT ![r] = @ + 1]
Walk(node, ranks) == FoldLeft(succ, node, ranks)
Smaller(bags) ==
    {[b EXCEPT ![r] = @ - 1] : <<b, r>> \in {x \in bags \X Ranks : x[1][x[2]] > 0}}
equiv_class_normal(node) ==
    Max({normalClass(b) : b \in Smaller(Smaller({node}))})
equiv_class_flush(node) ==
    Max({flushClass(five) : five \in kSubset(5, {r \in Ranks : node[r] > 0})})

RanksOf(cards) == [i \in DOMAIN cards |-> Rank(cards[i])]
OfSuit(cards, c) == SelectSeq(cards, LAMBDA card : Suit(card) = c)
Color(cards, c) == Len(OfSuit(cards, c))

\* Mutant of FlushSuit: five cards of a suit are not enough
FlushSuitOfSix(colors) == {c \in Suits : colors[c] > 5}

\* The suit with five cards, if there is one.
FlushSuit(colors) == {c \in Suits : colors[c] >= 5}

calculate_equivalence_class(hand) ==
    LET flush == FlushSuit([c \in Suits |-> Color(hand, c)])
    IN  IF flush = {} THEN equiv_class_normal(Walk(Root, RanksOf(hand)))
        ELSE equiv_class_flush(Walk(Root, RanksOf(OfSuit(hand, Max(flush)))))

\* The walks of the first cards, for a resume_evaluation with the others.
partial_evaluate(cards) ==
    [evaluated   |-> Len(cards),
     noflushnode |-> Walk(Root, RanksOf(cards)),
     flushnodes  |-> [c \in Suits |-> Walk(Root, RanksOf(OfSuit(cards, c)))],
     colors      |-> [c \in Suits |-> Color(cards, c)]]

resume_evaluation(cards, pe) ==
    LET flush == FlushSuit([c \in Suits |-> pe.colors[c] + Color(cards, c)])
    IN  IF flush = {}
        THEN equiv_class_normal(Walk(pe.noflushnode, RanksOf(cards)))
        ELSE LET c == Min(flush)
             IN  equiv_class_flush(Walk(pe.flushnodes[c],
                                        RanksOf(OfSuit(cards, c))))
-----------------------------------------------------------------------------
(* dag2/omaha.js: two cards of the hand and three of the board, once by     *)
(* rank only, and once more for each suit that can make a flush.            *)

evalHand(hand, board) ==
    Max({normalClass(b) :
            b \in {RankBag(h \cup t) : h \in kSubset(2, hand),
                                       t \in kSubset(3, board)}})
evalHandSuit(hand, board, suit) ==
    LET of(cards) == {c \in cards : Suit(c) = suit}
    IN  Max({flushClass(RankSet(h \cup t)) :
                h \in kSubset(2, of(hand)), t \in kSubset(3, of(board))})

\* Mutant of FlushSuits: three cards of the board are not enough
FlushSuitsOfFour(hand, board) ==
    {s \in Suits : /\ Cardinality({c \in board : Suit(c) = s}) > 3
                   /\ Cardinality({c \in hand : Suit(c) = s}) >= 2}

FlushSuits(hand, board) ==
    {s \in Suits : /\ Cardinality({c \in board : Suit(c) = s}) >= 3
                   /\ Cardinality({c \in hand : Suit(c) = s}) >= 2}

doEval(hand, board) ==
    Max({evalHand(hand, board)}
          \cup {evalHandSuit(hand, board, s) : s \in FlushSuits(hand, board)})
-----------------------------------------------------------------------------
(* inlines/eval.h, on the masks of the four suits.                          *)

Xor(a, b) == (a \ b) \cup (b \ a)
Mask(cards, s) == {Rank(c) : c \in {d \in cards : Suit(d) = s}}

\* A flush or a straight flush, of the first suit that has five cards in the
\* order in which eval.h looks at them, or a straight; 0 for none.
FiveCards(suits, ranks) ==
    LET flushes == {i \in DOMAIN suits : nBits(suits[i]) >= 5}
        suit    == suits[Min(flushes)]
    IN  CASE nBits(ranks) < 5 -> 0
          [] nBits(ranks) >= 5 /\ flushes # {} ->
               IF straight(suit) > 0
               THEN HandVal(STFLUSH, <<straight(suit)>>)
               ELSE HandVal(FLUSH, <<>>) + topFiveCards(suit)
          [] OTHER -> IF straight(ranks) > 0
                      THEN HandVal(STRAIGHT, <<straight(ranks)>>) ELSE 0

\* Drops the lowest of five cards and the fifth.
Kickers(mask) == LET t == topFiveCards(mask) \div 16 IN t - (t % 16)

\* Mutant of TwoPair: the third pair is no kicker
TwoPairOfTwo(ranks, two_mask) ==
    LET top    == topCard(two_mask)
        second == topCard(two_mask \ {top})
    IN  HandVal(TWOPAIR, <<top, second, topCard(ranks \ two_mask)>>)

TwoPair(ranks, two_mask) ==
    LET top    == topCard(two_mask)
        second == topCard(two_mask \ {top})
    IN  HandVal(TWOPAIR, <<top, second, topCard(ranks \ {top, second})>>)

\* StdDeck_StdRules_EVAL_N, for a hand of up to seven cards.
EVAL_N(cards) ==
    LET sc == Mask(cards, 2)  sd == Mask(cards, 3)
        sh == Mask(cards, 0)  ss == Mask(cards, 1)
        ranks  == sc \cup sd \cup sh \cup ss
        n_dups == Cardinality(cards) - nBits(ranks)
        five   == FiveCards(<<ss, sc, sd, sh>>, ranks)
        two    == Xor(ranks, Xor(Xor(sc, sd), Xor(sh, ss)))
        three  == ((sc \cap sd) \cup (sh \cap ss))
                    \cap ((sc \cap sh) \cup (sd \cap ss))
        four   == sh \cap sd \cap sc \cap ss
        top3   == topCard(three)
        pair   == topCard((two \cup three) \ {top3})
        second == topCard(ranks \ three)
    IN  CASE five >= HandVal(STFLUSH, <<>>) \/ (five > 0 /\ n_dups < 3) -> five
          [] five = 0 /\ n_dups = 0 -> topFiveCards(ranks)
          [] five = 0 /\ n_dups = 1 ->
               HandVal(ONEPAIR, <<topCard(two)>>) + Kickers(ranks \ two)
          [] five = 0 /\ n_dups = 2 /\ two # {} -> TwoPair(ranks, two)
          [] five = 0 /\ n_dups = 2 /\ two = {} ->
               HandVal(TRIPS,
                       <<top3, second, topCard(ranks \ (three \cup {second}))>>)
          [] n_dups > 2 /\ four # {} ->
               HandVal(QUADS, <<topCard(four),
                                topCard(ranks \ {topCard(four)})>>)
          [] n_dups > 2 /\ four = {} /\ nBits(two) # n_dups ->
               HandVal(FULLHOUSE, <<top3, pair>>)
          [] OTHER -> IF five > 0 THEN five ELSE TwoPair(ranks, two)

\* StdDeck_OmahaHiLow8_EVAL without its low hand: every two cards of the hand
\* with every three of the board, by EVAL_N.
OmahaHi(hole, table) ==
    Max({EVAL_N(h \cup t) : h \in kSubset(2, hole), t \in kSubset(3, table)})
-----------------------------------------------------------------------------
VARIABLES
    hand,   \* the cards of a player; with those of the table, in hold'em
    board,  \* the five cards of the table of an Omaha hand, or {}
    value   \* what each evaluator says, <<>> before they are asked

vars == <<hand, board, value>>

\* The cards of the masks m, the first of them of suit by.
CardsOf(m, by) ==
    UNION {{4 * r + ((s + by) % 4) : r \in m[s + 1]} : s \in Suits}

\* The suits of a hand can be exchanged: hands of masks that do not grow are
\* tried, and hands with a flush in each of the suits.
Code == [mask \in SUBSET Ranks |-> MapThenSumSet(LAMBDA r : 2 ^ r, mask)]
After(mask, n) == {m \in SUBSET Ranks : Code[m] <= Code[mask] /\ nBits(m) <= n}

HoldemHand ==
    \E n \in Sizes, a \in SUBSET Ranks : \E b \in After(a, n - nBits(a)) :
    \E c \in After(b, n - nBits(a) - nBits(b)) :
    \E d \in After(c, n - nBits(a) - nBits(b) - nBits(c)) :
    \E by \in IF \E m \in {a, b} : nBits(m) > 4 THEN Suits ELSE {0} :
        /\ hand = CardsOf(<<a, b, c, d>>, by)
        /\ Cardinality(hand) = n

Init ==
    /\ \/ HoldemHand /\ board = {}
       \/ board \in Boards /\ hand \in kSubset(4, Deck \ board)
    /\ value = <<>>

\* RankHands, for a hand of seven cards, its board among them.  An evaluation
\* may be resumed behind the cards of a player or those of the table.
InOrder == Sorted(hand, <)
EvalHoldem ==
    /\ Cardinality(hand) = 7 /\ value = <<>>
    /\ value' = [best    |-> BestFive(hand),
                 dag     |-> calculate_equivalence_class(InOrder),
                 resumed |-> {resume_evaluation(
                                SubSeq(InOrder, k + 1, 7),
                                partial_evaluate(SubSeq(InOrder, 1, k))) :
                                k \in {2, 5}},
                 masks   |-> EVAL_N(hand)]
    /\ UNCHANGED <<hand, board>>

\* Five cards are what EVAL_N is asked for by OmahaHi.
EvalFive ==
    /\ Cardinality(hand) \in 5..6 /\ value = <<>>
    /\ value' = [best |-> BestFive(hand), masks |-> EVAL_N(hand)]
    /\ UNCHANGED <<hand, board>>

EvalOmaha ==
    /\ board # {} /\ value = <<>>
    /\ value' = [best |-> BestOmaha(hand, board),
                 js   |-> doEval(hand, board),
                 hi   |-> OmahaHi(hand, board)]
    /\ UNCHANGED <<hand, board>>

Next == EvalHoldem \/ EvalFive \/ EvalOmaha

Spec == Init /\ [][Next]_vars
-----------------------------------------------------------------------------
Evaluated == value # <<>>

\* The graph of dag, which looks at one suit only when five cards are of it,
\* finds the best five cards, whether it is walked in one go or resumed.
DagIsBest ==
    Evaluated /\ Cardinality(hand) = 7 =>
        value.dag = value.best /\ value.resumed = {value.best}

\* Telling hands by the number of duplicate ranks finds the best five cards.
MasksAreBest == Evaluated /\ board = {} => value.masks = value.best

\* Omaha: by ranks and by flushes apart, the best hand of two cards and three
\* of the board is found, no more and no less; and so it is by looking at every
\* choice of these with EVAL_N.
OmahaIsBest == Evaluated /\ board # {} =>
        value.js = value.best /\ value.hi = value.best
=============================================================================
