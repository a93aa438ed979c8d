------------------------------ MODULE MCMigrate ------------------------------
EXTENDS Migrate, TLC

CONSTANTS old, new, next, broken, one, two, other, three, bad

\* Two files were given the version 2 on two branches.
MCVersion == one :> 1 @@ two :> 2 @@ other :> 2 @@ three :> 3
MCUp == one :> <<"create", "update">> @@ two :> <<"update">> @@
        other :> <<"create">> @@ three :> <<"constrain", "update">>
\* An old image, two containers of the new one, and an image that does not load.
MCDirectory == old :> {one, two} @@ new :> {one, two, other, three} @@
               next :> {one, two, other, three} @@ broken :> {one, bad}
=============================================================================
