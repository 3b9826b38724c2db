------------------------------ MODULE MCTodos -------------------------------
EXTENDS Todos
=============================================================================
