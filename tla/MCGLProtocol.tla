--------------------------- MODULE MCGLProtocol ---------------------------
(***************************************************************************)
(* GLProtocol over the tables of all entry points and handlers.  Calls of  *)
(* the same shape behave alike, so the operations themselves are dropped   *)
(* and only the distinct shapes are left.                                  *)
(***************************************************************************)
EXTENDS ProtocolInvariant, TLC

Stub == INSTANCE GLStubCalls
Proxy == INSTANCE GLProxyCalls

Meet(e, h) ==
    [agrees |-> e.args = h.args, puts |-> e.puts, may |-> e.may, keeps |-> e.keeps,
     waits |-> e.waits, takes |-> e.takes, reads |-> h.reads, ifGiven |-> h.ifGiven,
     gives |-> h.gives, mayGive |-> h.mayGive]

GLShapes ==
    UNION {{Meet(e, h) : h \in {k \in Proxy!ProxyCalls : k.op = e.op}} :
              e \in Stub!StubCalls}

Symmetry == Permutations(Threads)
=============================================================================
