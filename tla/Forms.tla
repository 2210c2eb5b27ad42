------------------------------- MODULE Forms -------------------------------
(* What the panels of the client have in common: the amounts typed into    *)
(* them and how they are read, the lists the client keeps, the tables each *)
(* list is made from, and the record that describes one form.  The modules *)
(* named after the pages describe their forms with it, and Submissions     *)
(* lets a person use any one of them.                                      *)
EXTENDS Integers, Sequences, SequencesExt, FiniteSets

-----------------------------------------------------------------------------
(* Amounts.  A few texts stand for everything a person may type.           *)

Texts == {"", "abc", "0", "0.004", "0.05", "5", "1,5", "1e3", "-5"}

\* What a reader of the text means by it, in thousandths, where it means
\* anything.
Meant ==
    [text \in Texts \ {"abc"} |->
        CASE text \in {"", "0"} -> 0 [] text = "0.004" -> 4 [] text = "0.05" -> 50
          [] text = "5" -> 5000 [] text = "1,5" -> 1500 [] text = "1e3" -> 1000000
          [] text = "-5" -> -5000]

\* What JavaScript's Number makes of it, in thousandths, where it is not NaN.
Number == [text \in DOMAIN Meant \ {"1,5"} |-> Meant[text]]
IsNumber(text) == text \in DOMAIN Number

Cents(thousandths) == (thousandths + 5) \div 10

\* toCents drops every character but digits, point and minus: a decimal comma
\* and an exponent vanish, and what is left unreadable is zero.
ToCents ==
    [text \in Texts |->
        CASE text \in {"", "abc", "0", "0.004"} -> 0 [] text = "0.05" -> 5
          [] text = "5" -> 500 [] text = "1,5" -> 1500 [] text = "1e3" -> 1300
          [] text = "-5" -> -500]

AsTyped(text) == text \in DOMAIN Meant /\ ToCents[text] = Cents(Meant[text])

\* A number typed where a whole one is wanted; blank reads as 0.
Fraction == -1
Counts == {Fraction, 0, 1, 2, 28, 29, 60, 61}

-----------------------------------------------------------------------------
(* The lists the client caches, under hierarchical keys, and the tables the *)
(* server makes each one from.                                              *)

KeyOf == [accounts     |-> <<"accounts">>,
          statements   |-> <<"accounts", "id", "statements">>,
          transactions |-> <<"transactions">>,
          msi          |-> <<"msi">>,
          recurring    |-> <<"recurring-transactions">>,
          goals        |-> <<"goals">>,
          overview     |-> <<"goals", "overview">>,
          budgets      |-> <<"budgets">>,
          rules        |-> <<"rules">>,
          categories   |-> <<"categories">>,
          yields       |-> <<"yield-reconciliations">>,
          loans        |-> <<"loans">>,
          dashboard    |-> <<"dashboard">>]

\* No query is kept under the key of the dashboard: nothing is ever refetched
\* by invalidating it.
Lists == DOMAIN KeyOf \ {"dashboard"}

\* The tables whose rows a list shows.  "debit" are the accounts savings are
\* held in, which are accounts too; "shares" are the allocations a yield
\* reconciliation made, which are allocations too.
Shows == [accounts     |-> {"accounts"},
          statements   |-> {"statements", "transactions"},
          transactions |-> {"transactions"},
          msi          |-> {"msi"},
          recurring    |-> {"recurring"},
          goals        |-> {"goals"},
          overview     |-> {"goals", "allocations", "debit"},
          budgets      |-> {"budgets"},
          rules        |-> {"rules"},
          categories   |-> {"categories"},
          yields       |-> {"yields", "shares"},
          loans        |-> {"loans"}]

\* Invalidating a key reaches every list whose key it begins.
Covered(keys) == {q \in Lists : \E k \in keys : IsPrefix(KeyOf[k], KeyOf[q])}

\* The lists a write to these tables makes out of date.
Affected(tables) == {q \in Lists : Shows[q] \cap tables # {}}

\* A write of transactions moves the accounts they book on; instalments book
\* on cards only.
Booked == {"transactions", "accounts", "debit"}
BookedOnCard == {"transactions", "accounts"}

-----------------------------------------------------------------------------
(* One form.  kind: a "create" adds a row each time it is taken, a "once"   *)
(* is refused the second time, a "write" may be repeated.  key: when the    *)
(* Idempotency-Key of its request is renewed.  The panel may drop the       *)
(* result of the last mutation when it opens or closes, may stay open while *)
(* a request is under way.  On success it is closed by the caller of the    *)
(* mutation, as long as the panel still follows that mutation; closed, or   *)
(* filled with the result, by the mutation itself; or left alone.  A form   *)
(* that catches counts a failed call and reports success all the same; one  *)
(* that waits cannot be submitted again before the answer.                  *)

Kinds == {"create", "once", "write"}
Keys == {"none", "opening", "closing", "mode"}
Closers == {"caller", "hook", "fills", "never"}

Panel(resetsOnOpen, resetsOnClose, blocks, closes) ==
    [resetsOnOpen |-> resetsOnOpen, resetsOnClose |-> resetsOnClose,
     blocks |-> blocks, closes |-> closes]

Form(panel, kind, key, touches, refetches, outcomes) ==
    [kind |-> kind, key |-> key, outcomes |-> outcomes,
     affects |-> Affected(touches), refetches |-> Covered(refetches),
     catches |-> FALSE, waits |-> TRUE, resetsOnOpen |-> panel.resetsOnOpen,
     resetsOnClose |-> panel.resetsOnClose, blocks |-> panel.blocks,
     closes |-> panel.closes]

\* What becomes of a request: the server's validation turns it down, what it
\* stores is not what the panel showed, or neither.
Outcome(valid, shown) ==
    IF ~valid THEN "invalid" ELSE IF shown THEN "taken" ELSE "misread"
=============================================================================
