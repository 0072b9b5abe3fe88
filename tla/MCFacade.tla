------------------------------ MODULE MCFacade ------------------------------
(* One task calls every method (of those that differ in nothing but the    *)
(* name of their question one), the other one makes short calls.           *)
EXTENDS Facade

CONSTANTS t1, t2

Alike == (DOMAIN Resets \ {"clear_partition_data"}) \cup {"upload_document"}

MCMethods ==
    [t \in Tasks |-> IF t = t1 THEN AllMethods \ Alike
                     ELSE {"get_document_metadata"}]
=============================================================================
