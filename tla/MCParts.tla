------------------------------ MODULE MCParts ------------------------------
(***************************************************************************)
(* The contract alone, and the parts of the repository around the          *)
(* reconciliation of orders that share no state with it or with each       *)
(* other, checked in one run: the initial states choose a part, and the    *)
(* others stay where they begin.                                           *)
(***************************************************************************)
EXTENDS Registry, Session, Consumer, SqlTxn, Singleton, ApiErrors, Restful,
        SetOrder, Amounts, WebApp

VARIABLE part

MCServices == <<"http", "watcher", "consumer", "grpc">>

inits ==
    /\ RegistryInit
    /\ SessionInit /\ ConsumerInit /\ TxnInit /\ SingletonInit /\ ErrorsInit
    /\ RestfulInit /\ SetOrderInit /\ AmountsInit /\ WebInit

Parts == {"registry", "session", "consumer", "txn", "singleton", "errors",
          "restful", "setorder", "amounts", "web"}

Init == inits /\ part \in Parts

Only(p) ==
    /\ part = p /\ UNCHANGED part
    /\ p # "registry"  => UNCHANGED registryVars
    /\ p # "session"   => UNCHANGED sessionVars
    /\ p # "consumer"  => UNCHANGED consumerVars
    /\ p # "txn"       => UNCHANGED txnVars
    /\ p # "singleton" => UNCHANGED singletonVars
    /\ p # "errors"    => UNCHANGED errorVars
    /\ p # "restful"   => UNCHANGED restfulVars
    /\ p # "setorder"  => UNCHANGED setOrderVars
    /\ p # "amounts"   => UNCHANGED amountVars
    /\ p # "web"       => UNCHANGED webVars

Next ==
    \/ Only("registry")  /\ RegistryNext
    \/ Only("session")   /\ SessionNext
    \/ Only("consumer")  /\ ConsumerNext
    \/ Only("txn")       /\ TxnNext
    \/ Only("singleton") /\ SingletonNext
    \/ Only("errors")    /\ ErrorsNext
    \/ Only("restful")   /\ RestfulNext
    \/ Only("setorder")  /\ SetOrderNext
    \/ Only("amounts")   /\ AmountsNext
    \/ Only("web")       /\ WebNext

vars == <<part, registryVars, sessionVars, consumerVars, txnVars, singletonVars,
          errorVars, restfulVars, setOrderVars, amountVars, webVars>>

(* What is fair in a part cannot happen in its initial state.              *)
Spec == Init /\ [][Next]_vars /\ SessionFairness /\ ConsumerFairness
=============================================================================
