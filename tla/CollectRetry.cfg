SPECIFICATION Spec
CONSTANTS
    Request = {1, 2}
    Key = {1, 2}
    ClientKey = {}
    Payload = {1, 2}
    Tab = {tab1}
    MaxForms = 2
CHECK_DEADLOCK FALSE
PROPERTY
    RetryKeepsKey
