\* One caller closes the provider while another is between the check and the submit.
SPECIFICATION Spec
CONSTANTS
  Callers = {c1, c2}
  Nobody = Nobody
  Prompts = {p1}
  NoPrompt = NoPrompt
  MaxEntries = 1
  MaxCalls = 2
INVARIANT ReleasedWhenClosed
CHECK_DEADLOCK FALSE
