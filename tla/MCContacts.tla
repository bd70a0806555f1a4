----------------------------- MODULE MCContacts -----------------------------
(***************************************************************************)
(* Two people called Kaya.  The second comes into the address book, with a *)
(* mother whose number is also hers, and both leave it again.              *)
(***************************************************************************)
EXTENDS Contacts

Galindo == [name |-> <<"kaya", "galindo">>, handles |-> {"h1"}]
Gibson == [name |-> <<"kaya", "gibson">>, handles |-> {"h2", "h3"}]
Mom == [name |-> <<"mom">>, handles |-> {"h3"}]

MCBooks == << <<Galindo>>, <<Galindo, Gibson, Mom>>, <<Galindo>> >>
MCAlike == {<< <<"kaya", "gibson">>, <<"kaya", "galindo">> >>, << <<"gibson">>, <<"kaya", "gibson">> >>}
MCOneEdit == {<<"kaay", "kaya">>, <<"kaya", "kaya">>}

MCChats ==
  << [style |-> 45, participants |-> <<"h2">>, row |-> "h1"],
     [style |-> Unstyled, participants |-> <<"h1", "h3">>, row |-> NoHandle],
     [style |-> 43, participants |-> <<>>, row |-> "h2"],
     [style |-> 43, participants |-> <<>>, row |-> NoHandle] >>

Upper(w) == [word |-> w, capital |-> TRUE]
Lower(w) == [word |-> w, capital |-> FALSE]
MCQueries ==
  { [from |-> <<Upper("kaya"), Upper("gibson")>>, with |-> <<>>, self |-> FALSE],
    [from |-> <<Lower("mom"), Lower("about")>>, with |-> <<Upper("gibson")>>, self |-> TRUE],
    [from |-> <<Lower("sunday")>>, with |-> <<Lower("kaay")>>, self |-> TRUE] }
=============================================================================
