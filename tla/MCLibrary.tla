---------------------------- MODULE MCLibrary ----------------------------
(* Small instances of Library. *)
EXTENDS Library

CONSTANTS n1, n2, r1, r2, c1

TypedNames == {n1, n2, <<"month", 1>>}

\* A day, a closed period over three months, an open one, and refused ones.
SomePeriods ==
  {[first |-> 1, last |-> 1, ongoing |-> FALSE], [first |-> 2, last |-> 6, ongoing |-> FALSE],
   [first |-> 3, last |-> None, ongoing |-> TRUE],
   [first |-> 3, last |-> 2, ongoing |-> FALSE], [first |-> 1, last |-> 2, ongoing |-> TRUE]}

Cat(kind, mode)  == [kind |-> kind, cid |-> None, mode |-> mode]
Tag(n, c, p, mode) == [name |-> n, cat |-> c, parent |-> p, mode |-> mode]
Four(mode) == <<Cat("date", mode), Cat("other", mode), Cat("custom", mode)>>

\* One event on day 1, tagged with a synonym; a group with its main tag.
Plain ==
  [cats   |-> Four("rest"),
   tags   |-> <<Tag(<<"month", 0>>, 1, None, "rest"), Tag(<<"year", 0>>, 1, None, "rest"),
                Tag(n1, 3, None, "rest"), Tag(n2, 3, 3, "rest")>>,
   groups |-> <<[name |-> n1, cat |-> 3, members |-> {3}, mode |-> "rest"]>>,
   events |-> <<[cid |-> None, first |-> 1, last |-> None, ongoing |-> FALSE,
                 links |-> {1, 2, 4}, mode |-> "rest"]>>,
   next   |-> [cat |-> 4, tag |-> 5, group |-> 2, event |-> 2], e2ee |-> FALSE]
Encrypted ==
  [cats   |-> Four("blob"), tags |-> <<Tag(n1, 3, None, "blob")>>, groups |-> <<>>,
   events |-> <<[cid |-> None, first |-> 1, last |-> None, ongoing |-> FALSE,
                 links |-> {1}, mode |-> "blob"]>>,
   next   |-> [cat |-> 4, tag |-> 2, group |-> 1, event |-> 2], e2ee |-> TRUE]
\* The plain library without its group, which no migration can take along.
Ungrouped == [Plain EXCEPT !.groups = <<>>]
Libraries == {Plain, Ungrouped, Encrypted}

Areas == {{"createTag", "updateTag", "deleteTag"},
          {"updateTag", "createGroup", "updateGroup", "deleteGroup"},
          {"createEvent", "updateEvent", "deleteTag"},
          {"createEvent", "deleteEvent"},
          {"createCategory", "deleteCategory"},
          {"deleteCategory", "updateTag"},
          {"updateCategory", "migrate", "purge", "createTag"},
          {"migrate", "purge", "createEvent", "createCategory"}}
Migrations == {{"migrate"}}
=============================================================================
