------------------------------ MODULE BankBooks ------------------------------
(* The books of the transfers to the bank, which BankTransfers keeps, beside  *)
(* what the bank did: what they promise, whoever keeps them.                  *)
EXTENDS Naturals

CONSTANT Transfers     \* calls of fundXfer, each of which inserts a row

VARIABLES
    transfer,  \* status of each alinma_transactions row
    moved,     \* at the bank: how often each transfer was executed
    doubts     \* history: executions whose success was not stored

\* The rows are the books of what the bank did: a COMPLETED transfer was executed
\* once, a FAILED one not at all, apart from executions whose success could not be
\* stored, which are the only way a transfer is executed twice by its retries.
BooksAgree ==
    \A x \in Transfers :
        /\ transfer[x] = "COMPLETED" => moved[x] = doubts[x] + 1
        /\ transfer[x] \in {"none", "FAILED"} => moved[x] = doubts[x]
        /\ moved[x] <= doubts[x] + 1
=============================================================================
