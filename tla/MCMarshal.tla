----------------------------- MODULE MCMarshal ------------------------------
(* Calls of the extent protocol and of rpctest, calls with the other types, *)
(* and calls whose types differ from those of the handler or of its result. *)
EXTENDS Marshal

Val(t, v)  == [t |-> t, v |-> v]
Long(n)    == [i \in 1 .. n |-> i % Byte]
Head5      == <<130, 255, 2, 1, 77>>

ArgLists == {
  <<Val("ull", <<0, 254>>), Val("string", <<3, 0>>)>>,       \* put
  <<Val("ull", <<0, 1>>), Val("string", Long(70))>>,
  <<Val("ull", <<200, 1>>), Val("string", Long(17))>>,
  <<Val("ull", <<1, 3>>)>>,                                  \* get, getattr, remove
  <<Val("string", <<1>>), Val("string", <<>>)>>,             \* 22 of rpctest
  <<Val("int", <<255>>)>>, <<Val("int", <<2>>)>>,            \* 23, bind
  <<Val("bool", <<1>>), Val("bool", <<0>>)>>,
  <<Val("char", <<3>>), Val("short", <<14>>), Val("vector", <<129, 5>>)>>,
  <<Val("vector", <<>>), Val("map", <<1, 9, 254, 0>>)>>,
  <<Val("int", <<2>>), Val("int", <<1>>), Val("int", <<9>>), Val("int", <<1>>), Val("int", <<5>>)>> }

\* Among them: a bool sent any byte, a map sent a key twice, and a string whose
\* length is -1, after which the last byte of that length is read once more.
OtherSigs == { <<"int">>, <<"ull">>, <<"int", "int">>, <<"short", "short">>,
               <<"string">>, <<"vector">>, <<"int", "int", "string">>,
               <<"bool", "bool">>, <<"bool", "short", "vector">>, <<"bool", "bool", "bool", "bool">>,
               <<"map">>, <<"vector", "map">>, <<"string", "char">>, <<"string", "bool">> }

Results == { Val("int", <<0>>), Val("string", Long(30)), Val("attr", <<1, 0, 0, 128, 60>>),
             Val("vector", <<7>>), Val("map", <<3, 250>>) }

Returned == {<<r, r.t, old>> : r \in Results, old \in {<<>>, <<5, 6>>}}
            \cup {<<Val("int", <<2>>), "string", <<>>>>, <<Val("int", <<1>>), "ull", <<>>>>,
                 <<Val("int", <<255>>), "string", <<>>>>, <<Val("bool", <<1>>), "bool", <<0>>>>}

MkCall(vs, sg, x) ==
  [args |-> vs, sig |-> sg, head |-> Head5, ret |-> IF x[2] = "int" THEN 2 ELSE 0,
   r |-> x[1], rtype |-> x[2], old |-> x[3]]

MCCall ==
  LET plain == <<Val("int", <<0>>), "int", <<>>>>
  IN  {MkCall(vs, TypesOf(vs), plain) : vs \in ArgLists}
      \cup {MkCall(vs, sg, plain) : vs \in ArgLists, sg \in OtherSigs}
      \cup {MkCall(<<Val("int", <<2>>)>>, <<"int">>, x) : x \in Returned}
=============================================================================
