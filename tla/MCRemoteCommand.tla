-------------------------- MODULE MCRemoteCommand --------------------------
(* A small instance of RemoteCommand: three hosts, the last one disabled,  *)
(* and expressions with every operator.                                    *)
EXTENDS RemoteCommand

CONSTANTS g, all

P(op, sel) == [op |-> op, sel |-> sel]
MCGroups == {g, all}
MCCommands ==
    {[kind |-> "run", expr |-> <<<<P("+", all)>>>>],
     [kind |-> "run", expr |-> <<<<P("+", all), P("^", 1), P("+", g)>>, <<P("+", 1)>>>>],
     [kind |-> "run", expr |-> <<<<P("+", 2)>>>>],
     [kind |-> "put", expr |-> <<<<P("+", g)>>>>],
     [kind |-> "get", expr |-> <<<<P("+", 1)>>>>],
     [kind |-> "get", expr |-> <<<<P("+", g)>>>>]}
In(gs) == [groups |-> gs, disabled |-> FALSE]
Out(gs) == [groups |-> gs, disabled |-> TRUE]
MCRegistries == {<<In({g}), In({g}), Out({g})>>, <<In({}), In({g}), None>>}
=============================================================================
