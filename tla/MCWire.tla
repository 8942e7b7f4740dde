-------------------------------- MODULE MCWire --------------------------------
(***************************************************************************)
(* Values for the constants of Wire.                                       *)
(***************************************************************************)
EXTENDS Wire

Bits == INSTANCE Bitwise
XorOfBits == [p \in Words \X Words |-> Bits!^^(p[1], p[2])]

App(methods, cmd, atyp, addr) ==
  [version |-> 5, methods |-> methods, again |-> 5, cmd |-> cmd, atyp |-> atyp,
   addr |-> addr, port |-> <<0, 9>>, data |-> <<12, 11>>]

Ordinary == App(<<2, 0>>, 1, 3, <<10>>)

\* Applications that ask for an address of each type, and ones that the
\* dispatcher refuses for their versions, methods, command and type of address.
SomeApplications ==
  {App(<<0>>, 1, 1, <<7>>), Ordinary, App(<<0>>, 1, 4, <<6, 7>>),
   [Ordinary EXCEPT !.version = 4], [Ordinary EXCEPT !.again = 4],
   App(<<>>, 1, 1, <<7>>), App(<<2>>, 1, 1, <<7>>),
   App(<<0>>, 2, 1, <<7>>), App(<<0>>, 1, 2, <<7>>)}

Answer(method, rep, atyp, bound) ==
  [version |-> 5, method |-> method, rep |-> rep, atyp |-> atyp, bound |-> bound]
Connects == Answer(0, 0, 1, <<0>>)

\* Proxies that connect, with a bound address of each type, one that wants
\* a password, one that does not connect, and one of an unknown type of address.
SomeProxies ==
  {Connects, Answer(0, 0, 3, <<10>>), Answer(0, 0, 4, <<0, 0>>),
   Answer(2, 0, 1, <<0>>), Answer(0, 5, 1, <<0>>), Answer(0, 0, 2, <<0>>)}

\* The two do not meet before the SYN: every one of each, with one of the other.
SomeScripts ==
  {<<a, Connects>> : a \in SomeApplications} \cup {<<Ordinary, p>> : p \in SomeProxies}

SomeAnswers == <<[flag |-> 0, id |-> 1, seq |-> 0, payload |-> <<8>>]>>
=============================================================================
