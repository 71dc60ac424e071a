--------------------------- MODULE ContextAssembly ---------------------------
(* The context of one query. The providers are asked all at once and answer    *)
(* in any order; one that raises loses its blocks only. What they bring is     *)
(* sorted, and taken greedily while it fits the token budget.                  *)
EXTENDS Integers, Sequences, SequencesExt, FiniteSets

CONSTANTS
    Contents,           \* texts of blocks, as numbers in their alphabetical order
    TokensOf,           \* TokenCounterPort.count, per text: 0 for the empty one
    TotalBudget,        \* context_budget_tokens
    MaxBlocks           \* bound: blocks of one provider

ASSUME ContextAssumption ==
    /\ Contents \subseteq Nat
    /\ TokensOf \in [Contents -> Nat]
    /\ TotalBudget \in Nat /\ MaxBlocks \in Nat

ContextProviders == {"recent_turns", "user_memory", "document_recall"}

VARIABLES
    mayReadDocuments,   \* the user's role grants DOCUMENTS_READ
    answers,            \* per provider: what gather has of it
    assembled           \* the AssembledContext

contextVars == <<mayReadDocuments, answers, assembled>>

Blocks == [source : ContextProviders, content : Contents]
Pending == [outcome |-> "pending", blocks |-> <<>>]
Nothing == [outcome |-> "none", blocks |-> <<>>, tokens |-> 0, dropped |-> 0]

ContextInit ==
    /\ mayReadDocuments \in BOOLEAN
    /\ answers = [p \in ContextProviders |-> Pending]
    /\ assembled = Nothing

----------------------------------------------------------------------------
(* get_blocks of the three providers.                                         *)

Answered(p, outcome, blocks) ==
    /\ answers[p] = Pending
    /\ answers' = [answers EXCEPT ![p] = [outcome |-> outcome, blocks |-> blocks]]
    /\ UNCHANGED <<mayReadDocuments, assembled>>

(* Without the permission the document store is not even asked.               *)
Answers(p) ==
    \E texts \in BoundedSeq(Contents, MaxBlocks) :
        /\ p = "document_recall" /\ ~mayReadDocuments => texts = <<>>
        /\ Answered(p, "blocks",
                    [i \in DOMAIN texts |-> [source |-> p, content |-> texts[i]]])

(* The token counter, the database or the index fails; without the permission *)
(* the documents' provider calls none of them.                                *)
Raises(p) ==
    /\ p = "document_recall" => mayReadDocuments
    /\ \E outcome \in {"error", "cancelled"} : Answered(p, outcome, <<>>)

----------------------------------------------------------------------------
(* TokenBudgetAllocator.allocate.                                             *)

(* kind_shares of the providers' kinds: a priority, nothing is reserved.      *)
Share(block) ==
    CASE block.source = "recent_turns" -> 35
      [] block.source = "document_recall" -> 20
      [] block.source = "user_memory" -> 10
SharesTotal == 10 + 25 + 35 + 20 + 10 + 10

(* sorted by (share, source, content), reversed: no two sources share a kind. *)
GoesBefore(a, b) ==
    \/ Share(a) > Share(b)
    \/ Share(a) = Share(b) /\ a.content > b.content

Charge(block) == IF TokensOf[block.content] = 0 THEN 1 ELSE TokensOf[block.content]

(* Mutant: the first block that does not fit ends the loop.                   *)
StopsAtTheFirst(taken, block) ==
    IF taken.dropped = 0 /\ taken.used + Charge(block) <= TotalBudget
    THEN [taken EXCEPT !.selected = Append(@, block), !.used = @ + Charge(block)]
    ELSE [taken EXCEPT !.dropped = @ + 1]

Take(taken, block) ==
    IF taken.used + Charge(block) <= TotalBudget
    THEN [taken EXCEPT !.selected = Append(@, block), !.used = @ + Charge(block)]
    ELSE [taken EXCEPT !.dropped = @ + 1]

(* Equal blocks stay in the order they were brought in.                       *)
SortsBefore(blocks, i, j) ==
    \/ GoesBefore(blocks[i], blocks[j])
    \/ blocks[i] = blocks[j] /\ i < j
Place(blocks, j) == 1 + Cardinality({i \in DOMAIN blocks : SortsBefore(blocks, i, j)})
Sorted(blocks) ==
    [k \in DOMAIN blocks |-> blocks[CHOOSE i \in DOMAIN blocks : Place(blocks, i) = k]]

(* What the loop has taken after k blocks.                                    *)
NothingTaken == [selected |-> <<>>, used |-> 0, dropped |-> 0]
Taken(ordered) ==
    LET after[k \in 0 .. Len(ordered)] ==
            IF k = 0 THEN NothingTaken ELSE Take(after[k - 1], ordered[k])
    IN  after

Allocate(blocks) == Taken(Sorted(blocks))[Len(blocks)]

----------------------------------------------------------------------------
(* DefaultContextAssembler.assemble, once gather has every result.            *)

(* The results in the order of the wiring's list of providers.                *)
Brought == answers["recent_turns"].blocks \o answers["user_memory"].blocks
               \o answers["document_recall"].blocks

(* The sums of the first k numbers.                                           *)
Sums(numbers) ==
    LET sum[k \in 0 .. Len(numbers)] == IF k = 0 THEN 0 ELSE sum[k - 1] + numbers[k]
    IN  sum
TokenSum(blocks) == Sums([i \in DOMAIN blocks |-> TokensOf[blocks[i].content]])[Len(blocks)]

Assemble ==
    /\ assembled = Nothing
    /\ \A p \in ContextProviders : answers[p] # Pending
    /\ assembled' =
          IF \E p \in ContextProviders : answers[p].outcome = "cancelled"
          THEN [Nothing EXCEPT !.outcome = "cancelled"]
          ELSE LET taken == Allocate(Brought) IN
               [outcome |-> "assembled", blocks |-> taken.selected,
                tokens |-> TokenSum(taken.selected), dropped |-> taken.dropped]
    /\ UNCHANGED <<mayReadDocuments, answers>>

ContextNext ==
    \/ \E p \in ContextProviders : Answers(p) \/ Raises(p)
    \/ Assemble

ContextSpec == ContextInit /\ [][ContextNext]_contextVars

----------------------------------------------------------------------------
Occurrences(block, blocks) == Cardinality({i \in DOMAIN blocks : blocks[i] = block})
Charged(blocks) == Sums([i \in DOMAIN blocks |-> Charge(blocks[i])])

(* The context fits the budget, empty blocks included, which count as one     *)
(* token; it is in the order of priority; every block of every provider that  *)
(* answered was taken or is counted as dropped; and a block was dropped only  *)
(* for blocks that do not go behind it: it would not have fitted after them.  *)
(* Documents need their permission.                                           *)
ContextFitsBudget ==
    assembled.outcome = "assembled" =>
        LET blocks == assembled.blocks IN
        /\ Charged(blocks)[Len(blocks)] <= TotalBudget
        /\ assembled.tokens <= TotalBudget
        /\ Len(blocks) + assembled.dropped = Len(Brought)
        /\ \A i, j \in DOMAIN blocks : i < j => ~GoesBefore(blocks[j], blocks[i])
        /\ \A block \in ToSet(Brought) :
              \/ Occurrences(block, blocks) = Occurrences(block, Brought)
              \/ /\ Occurrences(block, blocks) < Occurrences(block, Brought)
                 /\ \E k \in 0 .. Len(blocks) :
                       /\ \A i \in 1 .. k : ~GoesBefore(block, blocks[i])
                       /\ Charged(blocks)[k] + Charge(block) > TotalBudget
        /\ mayReadDocuments \/ \A i \in DOMAIN blocks : blocks[i].source # "document_recall"

(* "Per-kind shares, unused share spills by priority": a kind loses a block    *)
(* only if it does not fit the kind's own share either.                       *)
SharesAreKept ==
    assembled.outcome = "assembled" =>
        \A block \in ToSet(Brought) :
            LET ofItsKind == SelectSeq(assembled.blocks, LAMBDA b : b.source = block.source)
            IN  Occurrences(block, assembled.blocks) < Occurrences(block, Brought) =>
                    Charged(ofItsKind)[Len(ofItsKind)] + Charge(block)
                        > (TotalBudget * Share(block)) \div SharesTotal
=============================================================================
